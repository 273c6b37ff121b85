------------------------- MODULE PipeManagerProofs -------------------------
(***************************************************************************)
(* Proofs about PipeManager, for every set of pipes, readers and writers   *)
(* and every capacity.                                                     *)
(***************************************************************************)
EXTENDS PipeManager, SequenceTheorems, TLAPS

---------------------------------------------------------------------------
\* The lengths calls may use are positive, and nobody both reads and writes.
LEMMA Constants ==
    /\ \A n \in ReadLengths \cup WriteLengths : n \in Nat /\ n > 0
    /\ Capacity \in Nat /\ PipeBuf \in Nat /\ Capacity > 0
    /\ \A w \in Writers : w \in Threads /\ w \notin Readers
    /\ \A r \in Readers : r \in Threads /\ r \notin Writers
<1>1. \A n \in Nat \ {0} : n \in Nat /\ n > 0
  OBVIOUS
<1>2. QED
  BY <1>1, PipeAssumption DEF Threads

\* What a write in progress carries.
LEMMA WriteCallFields ==
    ASSUME NEW c \in WriteCall
    PROVE  c.pipe \in Pipes /\ c.length \in Nat /\ c.length > 0 /\ c # NoCall
<1>1. c.length \in WriteLengths /\ c.pipe \in Pipes /\ c # NoCall
  BY DEF WriteCall, NoCall
<1>2. QED
  BY <1>1, Constants

\* What a read in progress carries.
LEMMA ReadCallFields ==
    ASSUME NEW c \in ReadCall
    PROVE  /\ c.pipe \in Pipes /\ c.length \in ReadLengths /\ c.length \in Nat
           /\ c.length > 0 /\ c.waiter \in Nat /\ c # NoCall
<1>1. c.length \in ReadLengths /\ c.pipe \in Pipes /\ c.waiter \in Nat /\ c # NoCall
  BY DEF ReadCall, NoCall
<1>2. QED
  BY <1>1, Constants

\* The stamps of the next n bytes are a sequence of n bytes.
LEMMA StampsType ==
    ASSUME TypeOK, NEW p \in Pipes, NEW n \in Nat
    PROVE  /\ Stamps(p, n) \in Seq(Byte)
           /\ Len(Stamps(p, n)) = n
           /\ \A i \in 1..n : Stamps(p, n)[i] = written[p] + i
<1>1. written[p] \in Nat
  BY DEF TypeOK, DataType
<1>2. \A i \in 1..n : written[p] + i \in Byte
  BY <1>1 DEF Byte
<1>3. [i \in 1..n |-> written[p] + i] \in Seq(Byte)
  BY <1>2, IsASeq
<1>4. QED
  BY <1>3, LenProperties DEF Stamps

\* What remains of a payload continues where the handed-over part stopped.
LEMMA RemainderType ==
    ASSUME TypeOK, NEW p \in Pipes, NEW len \in Nat, NEW n \in 0..len
    PROVE  /\ Remainder(p, n, len) \in Seq(Byte)
           /\ Len(Remainder(p, n, len)) = len - n
           /\ \A i \in 1..(len - n) : Remainder(p, n, len)[i] = written[p] + n + i
<1>1. /\ Stamps(p, len) \in Seq(Byte)
      /\ Len(Stamps(p, len)) = len
      /\ \A i \in 1..len : Stamps(p, len)[i] = written[p] + i
  BY StampsType
<1>2. \A i \in (n+1)..len : Stamps(p, len)[i] \in Byte
  BY <1>1, ElementOfSeq
<1>3. /\ Remainder(p, n, len) \in Seq(Byte)
      /\ Len(Remainder(p, n, len)) = IF n+1 <= len THEN len - (n+1) + 1 ELSE 0
      /\ \A i \in 1..(len - (n+1) + 1) :
            Remainder(p, n, len)[i] = Stamps(p, len)[n + 1 + i - 1]
  BY <1>2, SubSeqProperties DEF Remainder
<1>4. written[p] \in Nat
  BY DEF TypeOK, DataType
<1>5. \A i \in 1..(len - n) : Remainder(p, n, len)[i] = written[p] + n + i
  BY <1>1, <1>3, <1>4
<1>6. QED
  BY <1>3, <1>5

\* How much of a payload the buffer takes: a number no larger than the payload.
LEMMA AcceptedType ==
    ASSUME TypeOK, NEW p \in Pipes, NEW n \in Nat
    PROVE  Accepted(p, n) \in 0..n
<1>1. Len(buffer[p]) \in Nat
  BY LenProperties DEF TypeOK, DataType
<1>2. Available(p) \in Nat
  BY <1>1, Constants DEF Available
<1>3. QED
  BY <1>2, Constants DEF Accepted, SmallerOf

---------------------------------------------------------------------------
\* Waking threads puts nobody into or out of a call.
LEMMA WakeAllType ==
    ASSUME TypeOK
    PROVE  /\ WakeAll \in [Threads -> {"idle", "waiting", "woken"}]
           /\ \A t \in Threads : WakeAll[t] = "idle" <=> at[t] = "idle"
BY DEF TypeOK, ThreadType, WakeAll

\* A thread that returns, notifying or not, leaves the threads well typed.
LEMMA ReturnType ==
    ASSUME TypeOK, NEW t \in Threads, NEW p \in Pipes, NEW o \in Outcome,
           Return(t, p, o), Quiet(t) \/ NotifyAll(t, "idle")
    PROVE  ThreadType'
<1>1. /\ at' \in [Threads -> {"idle", "waiting", "woken"}]
      /\ at'[t] = "idle"
      /\ \A u \in Threads \ {t} : at'[u] = "idle" <=> at[u] = "idle"
  BY WakeAllType DEF Quiet, NotifyAll, TypeOK, ThreadType
<1>2. /\ call' \in [Threads -> {NoCall} \cup ReadCall \cup WriteCall]
      /\ call'[t] = NoCall
      /\ \A u \in Threads \ {t} : call'[u] = call[u]
      /\ ret' \in [Threads -> {NoReturn} \cup [outcome : Outcome, pipe : Pipes]]
  BY DEF Return, TypeOK, ThreadType
<1>3. QED
  BY <1>1, <1>2, Constants DEF TypeOK, ThreadType

\* So does a thread that goes to sleep in a call of its own kind.
LEMMA WaitType ==
    ASSUME TypeOK, NEW t \in Threads, NEW c, Wait(t, c),
           t \in Readers => c \in ReadCall, t \in Writers => c \in WriteCall,
           at' = [at EXCEPT ![t] = "waiting"] \/ NotifyAll(t, "waiting")
    PROVE  ThreadType'
<1>1. /\ at' \in [Threads -> {"idle", "waiting", "woken"}]
      /\ at'[t] = "waiting"
      /\ \A u \in Threads \ {t} : at'[u] = "idle" <=> at[u] = "idle"
  BY WakeAllType DEF NotifyAll, TypeOK, ThreadType
<1>2. c \in ReadCall \cup WriteCall
  BY DEF Threads
<1>3. /\ call' \in [Threads -> {NoCall} \cup ReadCall \cup WriteCall]
      /\ call'[t] = c
      /\ \A u \in Threads \ {t} : call'[u] = call[u]
      /\ ret' \in [Threads -> {NoReturn} \cup [outcome : Outcome, pipe : Pipes]]
  BY <1>2 DEF Wait, TypeOK, ThreadType
<1>4. QED
  BY <1>1, <1>3, Constants DEF TypeOK, ThreadType

\* A new pipe manager has its type.
LEMMA InitType == Init => TypeOK
<1> SUFFICES ASSUME Init PROVE TypeOK
  OBVIOUS
<1>1. waiters \in [DOMAIN waiters -> Pending] /\ DOMAIN waiters \subseteq WaiterId
  BY DEF Init
<1>2. QED
  BY <1>1 DEF Init, TypeOK, DataType, ThreadType, Ends, Byte, WaiterId, Threads,
              NoCall, NoReturn

---------------------------------------------------------------------------
\* One round of the loop of write_with_mode keeps the types.
LEMMA WriteLoopType ==
    ASSUME TypeOK, NEW w \in Writers, NEW c \in WriteCall, WriteLoop(w, c)
    PROVE  TypeOK'
<1> DEFINE p == c.pipe
<1>0. p \in Pipes /\ c.length \in Nat /\ c.length > 0 /\ w \in Threads /\ w \notin Readers
  BY WriteCallFields, Constants
<1>1. CASE WriteBroken(w, c)
  <2>1. ThreadType'
    BY <1>0, <1>1, ReturnType DEF WriteBroken, Outcome
  <2>2. DataType'
    BY <1>1 DEF WriteBroken, TypeOK, DataType, pipeVars, waiterVars
  <2>3. QED
    BY <2>1, <2>2 DEF TypeOK
<1>2. CASE WriteHandoff(w, c)
  <2>1. PICK id \in LiveWaits(p) :
          LET n == SmallerOf(waiters[id].length, c.length) IN
          /\ waiting' = [waiting EXCEPT ![p] = {other \in @ : other > id}]
          /\ waiters' = [waiters EXCEPT ![id] =
                           [@ EXCEPT !.state = "data", !.data = Stamps(p, n)]]
          /\ buffer' = [buffer EXCEPT ![p] = @ \o Remainder(p, n, c.length)]
    BY Zenon, <1>2 DEF WriteHandoff
  <2> DEFINE n == SmallerOf(waiters[id].length, c.length)
  <2>2. id \in DOMAIN waiters /\ waiters[id] \in Pending
    BY <2>1 DEF LiveWaits, TypeOK, DataType
  <2>3. waiters[id].length \in Nat
    BY <2>2, Constants DEF Pending
  <2>4. n \in Nat /\ n \in 0..c.length
    BY <1>0, <2>3 DEF SmallerOf
  <2>5. Stamps(p, n) \in Seq(Byte) /\ Remainder(p, n, c.length) \in Seq(Byte)
    BY <1>0, <2>4, StampsType, RemainderType
  <2> HIDE DEF n
  <2>6. waiters' \in [DOMAIN waiters' -> Pending] /\ DOMAIN waiters' \subseteq WaiterId
    <3>1. [waiters[id] EXCEPT !.state = "data", !.data = Stamps(p, n)] \in Pending
      BY Zenon, <2>2, <2>5 DEF Pending
    <3>2. waiters' = [waiters EXCEPT ![id] =
                           [@ EXCEPT !.state = "data", !.data = Stamps(p, n)]]
      BY <2>1 DEF n
    <3>3. QED
      BY <3>1, <3>2, <2>2 DEF TypeOK, DataType
  <2>7. buffer' \in [Pipes -> Seq(Byte)]
    <3>1. buffer' = [buffer EXCEPT ![p] = @ \o Remainder(p, n, c.length)]
      BY <2>1 DEF n
    <3>2. buffer[p] \o Remainder(p, n, c.length) \in Seq(Byte)
      BY <1>0, <2>5, ConcatProperties DEF TypeOK, DataType
    <3>3. QED
      BY Zenon, <3>1, <3>2 DEF TypeOK, DataType
  <2>8. waiting' \in [Pipes -> SUBSET WaiterId]
    BY <2>1, <1>0 DEF TypeOK, DataType
  <2>9. written' \in [Pipes -> Nat]
    BY <1>0, <1>2 DEF WriteHandoff, TypeOK, DataType
  <2>10. ThreadType'
    <3>1. Return(w, p, "ok") /\ NotifyAll(w, "idle")
      BY <1>2 DEF WriteHandoff
    <3>2. QED
      BY <1>0, <3>1, ReturnType DEF Outcome
  <2>11. DataType'
    <3>1. UNCHANGED <<created, open, nextWaiter, got>>
      BY <1>2 DEF WriteHandoff
    <3>2. QED
      BY <3>1, <2>6, <2>7, <2>8, <2>9 DEF TypeOK, DataType
  <2>12. QED
    BY Zenon, <2>10, <2>11 DEF TypeOK
<1>3. CASE WriteBuffer(w, c)
  <2> DEFINE n == Accepted(p, c.length)
  <2>0. n \in 0..c.length
    BY <1>0, AcceptedType
  <2> HIDE DEF n
  <2>1. n \in Nat /\ Stamps(p, n) \in Seq(Byte)
    BY <1>0, <2>0, StampsType
  <2>2. buffer' \in [Pipes -> Seq(Byte)]
    <3>1. buffer' = [buffer EXCEPT ![p] = @ \o Stamps(p, n)]
      BY <1>3 DEF WriteBuffer, n
    <3>2. buffer[p] \o Stamps(p, n) \in Seq(Byte)
      BY <1>0, <2>1, ConcatProperties DEF TypeOK, DataType
    <3>3. QED
      BY Zenon, <3>1, <3>2 DEF TypeOK, DataType
  <2>3. written' \in [Pipes -> Nat]
    BY <1>0, <1>3, <2>1 DEF WriteBuffer, TypeOK, DataType, n
  <2>4. ThreadType'
    BY <1>0, <1>3, ReturnType DEF WriteBuffer, Outcome
  <2>5. DataType'
    BY <1>0, <1>3, <2>2, <2>3 DEF WriteBuffer, TypeOK, DataType, waiterVars
  <2>6. QED
    BY <2>4, <2>5 DEF TypeOK
<1>4. CASE WriteFull(w, c)
  <2>1. DataType'
    BY <1>0, <1>4 DEF WriteFull, TypeOK, DataType, waiterVars
  <2>2. CASE c.nonblocking
    BY <1>0, <1>4, <2>1, <2>2, ReturnType DEF WriteFull, Outcome, TypeOK
  <2>3. CASE ~c.nonblocking
    <3>1. Wait(w, c) /\ at' = [at EXCEPT ![w] = "waiting"]
      BY <1>4, <2>3 DEF WriteFull
    <3>2. ThreadType'
      BY Zenon, <1>0, <3>1, WaitType
    <3>3. QED
      BY <2>1, <3>2 DEF TypeOK
  <2>4. QED
    BY <2>2, <2>3
<1>5. QED
  BY <1>1, <1>2, <1>3, <1>4 DEF WriteLoop

\* Removing a waiter leaves a table of waiters.
LEMMA WithoutType ==
    ASSUME TypeOK, NEW id
    PROVE  /\ Without(waiters, id) \in [DOMAIN Without(waiters, id) -> Pending]
           /\ DOMAIN Without(waiters, id) = DOMAIN waiters \ {id}
           /\ \A i \in DOMAIN waiters \ {id} : Without(waiters, id)[i] = waiters[i]
BY DEF TypeOK, DataType, Without

\* So does adding one.
LEMMA WithType ==
    ASSUME TypeOK, NEW n \in ReadLengths, NEW k
    PROVE  /\ With(waiters, k, PendingRead(n))
                 \in [DOMAIN With(waiters, k, PendingRead(n)) -> Pending]
           /\ DOMAIN With(waiters, k, PendingRead(n)) = DOMAIN waiters \cup {k}
           /\ \A i \in DOMAIN waiters \ {k} :
                 With(waiters, k, PendingRead(n))[i] = waiters[i]
           /\ With(waiters, k, PendingRead(n))[k] = PendingRead(n)
<1>1. PendingRead(n) \in Pending
  BY EmptySeq DEF PendingRead, Pending
<1>2. QED
  BY <1>1 DEF TypeOK, DataType, With

\* One round of the loop of read_with_timeout keeps the types.
LEMMA ReadLoopType ==
    ASSUME TypeOK, NEW r \in Readers, NEW c \in ReadCall, ReadLoop(r, c)
    PROVE  TypeOK'
<1> DEFINE p == c.pipe
<1>0. /\ p \in Pipes /\ c.length \in ReadLengths /\ c.length \in Nat /\ c.length > 0
      /\ c.waiter \in Nat /\ r \in Threads /\ r \notin Writers
  BY ReadCallFields, Constants
<1>1. CASE ReadResult(r, c)
  <2>1. waiters[c.waiter].data \in Seq(Byte)
    BY <1>1 DEF ReadResult, HasResult, TypeOK, DataType, Pending
  <2>2. got[r][p] \o waiters[c.waiter].data \in Seq(Byte)
    BY <1>0, <2>1, ConcatProperties DEF TypeOK, DataType
  <2>3. got' \in [Readers -> [Pipes -> Seq(Byte)]]
    BY Zenon, <1>0, <1>1, <2>2 DEF ReadResult, TypeOK, DataType
  <2>4. ThreadType'
    BY Zenon, <1>0, <1>1, ReturnType DEF ReadResult, Outcome
  <2>5. DataType'
    BY ZenonT(30), <1>1, <2>3, WithoutType DEF ReadResult, TypeOK, DataType, pipeVars
  <2>6. QED
    BY <2>4, <2>5 DEF TypeOK
<1>2. CASE ReadGone(r, c)
  <2>1. ThreadType'
    BY <1>0, <1>2, ReturnType DEF ReadGone, Outcome
  <2>2. DataType'
    BY <1>2 DEF ReadGone, TypeOK, DataType, pipeVars, waiterVars
  <2>3. QED
    BY <2>1, <2>2 DEF TypeOK
<1>3. CASE ReadBuffer(r, c)
  <2> DEFINE n == SmallerOf(c.length, Len(buffer[p]))
  <2>1. buffer[p] \in Seq(Byte) /\ Len(buffer[p]) \in Nat /\ got[r][p] \in Seq(Byte)
    BY <1>0, LenProperties DEF TypeOK, DataType
  <2>2. n \in 0..Len(buffer[p])
    BY <1>0, <2>1 DEF SmallerOf
  <2> HIDE DEF n
  <2>3. \A i \in 1..Len(buffer[p]) : buffer[p][i] \in Byte
    BY <2>1, ElementOfSeq
  <2>4. SubSeq(buffer[p], 1, n) \in Seq(Byte)
    <3>1. \A i \in 1..n : buffer[p][i] \in Byte
      BY <2>1, <2>2, <2>3
    <3>2. QED
      BY <2>2, <3>1, SubSeqProperties
  <2>5. SubSeq(buffer[p], n + 1, Len(buffer[p])) \in Seq(Byte)
    <3>1. \A i \in (n + 1)..Len(buffer[p]) : buffer[p][i] \in Byte
      BY <2>1, <2>2, <2>3
    <3>2. QED
      BY <2>1, <2>2, <3>1, SubSeqProperties
  <2>6. got[r][p] \o SubSeq(buffer[p], 1, n) \in Seq(Byte)
    BY <2>1, <2>4, ConcatProperties
  <2>7. /\ got' \in [Readers -> [Pipes -> Seq(Byte)]]
        /\ buffer' \in [Pipes -> Seq(Byte)]
    BY Zenon, <1>0, <1>3, <2>5, <2>6 DEF ReadBuffer, TypeOK, DataType, n
  <2>8. ThreadType'
    BY <1>0, <1>3, ReturnType DEF ReadBuffer, Outcome
  <2>9. DataType'
    BY Zenon, <1>3, <2>7 DEF ReadBuffer, TypeOK, DataType, waiterVars
  <2>10. QED
    BY <2>8, <2>9 DEF TypeOK
<1>4. CASE ReadEof(r, c)
  <2>1. ThreadType'
    BY <1>0, <1>4, ReturnType DEF ReadEof, Outcome
  <2>2. DataType'
    BY Zenon, <1>4, WithoutType DEF ReadEof, TypeOK, DataType, pipeVars
  <2>3. QED
    BY <2>1, <2>2 DEF TypeOK
<1>5. CASE ReadBlock(r, c)
  <2>1. CASE c.waiter # NoWaiter
    <3>1. Wait(r, c) /\ at' = [at EXCEPT ![r] = "waiting"]
      BY <1>5, <2>1 DEF ReadBlock
    <3>2. ThreadType'
      BY Zenon, <1>0, <3>1, WaitType
    <3>3. DataType'
      BY <1>5, <2>1 DEF ReadBlock, TypeOK, DataType, waiterVars
    <3>4. QED
      BY <3>2, <3>3 DEF TypeOK
  <2>2. CASE c.waiter = NoWaiter
    <3>1. /\ Wait(r, [c EXCEPT !.waiter = nextWaiter]) /\ NotifyAll(r, "waiting")
          /\ waiters' = With(waiters, nextWaiter, PendingRead(c.length))
          /\ waiting' = [waiting EXCEPT ![p] = @ \cup {nextWaiter}]
          /\ nextWaiter' = nextWaiter + 1
          /\ UNCHANGED <<created, open, buffer, written, got>>
      BY <1>5, <2>2 DEF ReadBlock
    <3>2. [c EXCEPT !.waiter = nextWaiter] \in ReadCall
      BY Zenon DEF TypeOK, DataType, WaiterId, ReadCall
    <3>3. ThreadType'
      BY <1>0, <3>1, <3>2, WaitType
    <3>4. nextWaiter \in WaiterId /\ nextWaiter + 1 \in WaiterId
      BY DEF TypeOK, DataType, WaiterId
    <3>5. waiters' \in [DOMAIN waiters' -> Pending] /\ DOMAIN waiters' \subseteq WaiterId
      <4>1. waiters' \in [DOMAIN waiters' -> Pending]
            /\ DOMAIN waiters' = DOMAIN waiters \cup {nextWaiter}
        BY Zenon, <1>0, <3>1, WithType
      <4>2. QED
        BY <3>4, <4>1 DEF TypeOK, DataType
    <3>6. waiting' \in [Pipes -> SUBSET WaiterId]
      BY <1>0, <3>1, <3>4 DEF TypeOK, DataType
    <3>7. DataType'
      BY <3>1, <3>4, <3>5, <3>6 DEF TypeOK, DataType
    <3>8. QED
      BY <3>3, <3>7 DEF TypeOK
  <2>3. QED
    BY <2>1, <2>2
<1>6. CASE ReadExpired(r, c)
  <2>1. Return(r, p, "EAGAIN") /\ NotifyAll(r, "idle")
    BY <1>6 DEF ReadExpired, Expire
  <2>2. ThreadType'
    BY <1>0, <2>1, ReturnType DEF Outcome
  <2>3. nextWaiter' \in WaiterId
    BY <1>6 DEF ReadExpired, TypeOK, DataType, WaiterId
  <2>4. DataType'
    BY ZenonT(30), <1>0, <1>6, <2>3, WithoutType
    DEF ReadExpired, Expire, TypeOK, DataType, Unqueued
  <2>5. QED
    BY <2>2, <2>4 DEF TypeOK
<1>7. QED
  BY <1>1, <1>2, <1>3, <1>4, <1>5, <1>6 DEF ReadLoop

\* The type invariant is inductive.
LEMMA NextType ==
    ASSUME TypeOK, Next
    PROVE  TypeOK'
<1>1. ASSUME NEW p \in Pipes, CreatePipe(p) PROVE TypeOK'
  <2>1. ThreadType'
    BY <1>1 DEF CreatePipe, TypeOK, ThreadType, threadVars
  <2>2. DataType'
    BY <1>1 DEF CreatePipe, TypeOK, DataType, waiterVars, Ends
  <2>3. QED
    BY <2>1, <2>2 DEF TypeOK
<1>2. ASSUME NEW p \in Pipes, NEW e \in Ends, Close(p, e) PROVE TypeOK'
  <2>1. ThreadType'
    BY Zenon, <1>2, WakeAllType DEF Close, TypeOK, ThreadType, Threads
  <2>2. waiters' \in [DOMAIN waiters' -> Pending] /\ DOMAIN waiters' \subseteq WaiterId
    <3>1. \A i \in DOMAIN waiters :
            [waiters[i] EXCEPT !.state = "eof", !.data = <<>>] \in Pending
      BY ZenonT(30), EmptySeq DEF TypeOK, DataType, Pending
    <3>2. QED
      BY Zenon, <1>2, <3>1 DEF Close, TypeOK, DataType
  <2>3. buffer' \in [Pipes -> Seq(Byte)] /\ waiting' \in [Pipes -> SUBSET WaiterId]
    BY Zenon, <1>2, EmptySeq DEF Close, TypeOK, DataType
  <2>4. DataType'
    BY Zenon, <1>2, <2>2, <2>3 DEF Close, TypeOK, DataType
  <2>5. QED
    BY <2>1, <2>4 DEF TypeOK
<1>3. ASSUME NEW w \in Writers, NEW p \in Pipes, NEW n \in WriteLengths, NEW nb \in BOOLEAN,
             Write(w, p, n, nb)
      PROVE  TypeOK'
  <2> DEFINE c == [op |-> "write", pipe |-> p, length |-> n, nonblocking |-> nb]
  <2>1. c \in WriteCall
    BY DEF WriteCall
  <2>2. WriteLoop(w, c)
    BY <1>3 DEF Write
  <2>3. QED
    BY <2>1, <2>2, WriteLoopType
<1>4. ASSUME NEW r \in Readers, NEW p \in Pipes, NEW n \in ReadLengths, NEW timed \in Timeouts,
             Read(r, p, n, timed)
      PROVE  TypeOK'
  <2> DEFINE c == [op |-> "read", pipe |-> p, length |-> n, timed |-> timed,
                   waiter |-> NoWaiter]
  <2>1. c \in ReadCall
    BY PipeAssumption DEF ReadCall, NoWaiter
  <2>2. ReadLoop(r, c)
    BY <1>4 DEF Read
  <2>3. QED
    BY <2>1, <2>2, ReadLoopType
<1>5. ASSUME NEW w \in Writers, WriteWake(w) PROVE TypeOK'
  <2>1. call[w] \in WriteCall
    BY <1>5, Constants DEF WriteWake, TypeOK, ThreadType
  <2>2. QED
    BY <1>5, <2>1, WriteLoopType DEF WriteWake
<1>6. ASSUME NEW r \in Readers, ReadWake(r) PROVE TypeOK'
  <2> DEFINE c == IF call[r].waiter \in DOMAIN waiters THEN call[r]
                  ELSE [call[r] EXCEPT !.waiter = NoWaiter]
  <2>1. call[r] \in ReadCall
    BY <1>6, Constants DEF ReadWake, TypeOK, ThreadType
  <2>2. c \in ReadCall
    BY <2>1 DEF ReadCall, NoWaiter
  <2>3. ReadLoop(r, c)
    BY <1>6 DEF ReadWake
  <2>4. QED
    BY <2>2, <2>3, ReadLoopType
<1>7. ASSUME NEW r \in Readers, ReadTimeout(r) PROVE TypeOK'
  <2>1. call[r] \in ReadCall /\ call[r].pipe \in Pipes /\ r \in Threads
    BY <1>7, Constants, ReadCallFields DEF ReadTimeout, TypeOK, ThreadType
  <2>2. Return(r, call[r].pipe, "EAGAIN") /\ NotifyAll(r, "idle")
    BY <1>7 DEF ReadTimeout, Expire
  <2>3. ThreadType'
    BY <2>1, <2>2, ReturnType DEF Outcome
  <2>4. DataType'
    BY Zenon, <1>7, <2>1, WithoutType DEF ReadTimeout, Expire, TypeOK, DataType, Unqueued
  <2>5. QED
    BY <2>3, <2>4 DEF TypeOK
<1>8. ASSUME NEW t \in Threads, SpuriousWake(t) PROVE TypeOK'
  <2>1. ThreadType'
    BY <1>8 DEF SpuriousWake, TypeOK, ThreadType, Threads
  <2>2. DataType'
    BY <1>8 DEF SpuriousWake, TypeOK, DataType, pipeVars, waiterVars
  <2>3. QED
    BY <2>1, <2>2 DEF TypeOK
<1>9. QED
  BY <1>1, <1>2, <1>3, <1>4, <1>5, <1>6, <1>7, <1>8 DEF Next

\* TypeOK holds in every reachable state of the pipe manager.
THEOREM TypeCorrect == Spec => []TypeOK
<1>1. TypeOK /\ UNCHANGED vars => TypeOK'
  BY DEF TypeOK, DataType, ThreadType, vars, pipeVars, waiterVars, threadVars
<1>2. QED
  BY <1>1, InitType, NextType, PTL DEF Spec

---------------------------------------------------------------------------
(***************************************************************************)
(* No wake-up is lost.  NoLostWakeup is not inductive by itself: that a    *)
(* woken reader goes back to sleep with its waiter still queued needs      *)
(* WaitersBacked.                                                          *)
(***************************************************************************)
WakeupInv == TypeOK /\ WaitersBacked /\ NoLostWakeup

\* A reader inside a call has the locals of a read.
LEMMA ReaderCall ==
    ASSUME TypeOK, NEW r \in Readers, at[r] # "idle"
    PROVE  /\ call[r] \in ReadCall /\ call[r].pipe \in Pipes
           /\ call[r].waiter \in Nat /\ r \in Threads
<1>1. call[r] \in ReadCall
  BY DEF TypeOK, ThreadType
<1>2. QED
  BY <1>1, ReadCallFields, Constants

\* What a step of thread t does to the other threads: nobody else changes its
\* call or falls asleep, and if t notifies nobody else stays asleep.
LEMMA OtherThreads ==
    ASSUME TypeOK, NEW t \in Threads, NEW s \in {"idle", "waiting", "woken"}, NEW c,
           call' = [call EXCEPT ![t] = c],
           at' = [at EXCEPT ![t] = s] \/ NotifyAll(t, s)
    PROVE  /\ at'[t] = s /\ call'[t] = c
           /\ \A u \in Threads \ {t} :
                 /\ call'[u] = call[u]
                 /\ at'[u] = "idle" <=> at[u] = "idle"
                 /\ at'[u] = "waiting" => at[u] = "waiting"
                 /\ NotifyAll(t, s) => at'[u] # "waiting"
<1>1. /\ at'[t] = s
      /\ \A u \in Threads \ {t} :
            /\ at'[u] = "idle" <=> at[u] = "idle"
            /\ at'[u] = "waiting" => at[u] = "waiting"
            /\ NotifyAll(t, s) => at'[u] # "waiting"
  BY Zenon, WakeAllType DEF NotifyAll, WakeAll, TypeOK, ThreadType
<1>2. call'[t] = c /\ \A u \in Threads \ {t} : call'[u] = call[u]
  BY DEF TypeOK, ThreadType
<1>3. QED
  BY <1>1, <1>2

\* A thread that notifies and returns leaves nobody asleep.
LEMMA NotifyReturn ==
    ASSUME TypeOK, NEW t \in Threads, call' = [call EXCEPT ![t] = NoCall],
           NotifyAll(t, "idle")
    PROVE  NoLostWakeup'
<1>1. \A u \in Threads : at'[u] # "waiting"
  BY Zenon, OtherThreads
<1>2. QED
  BY <1>1, Constants DEF NoLostWakeup

\* One round of the loop of write_with_mode keeps the invariant.
LEMMA WriteLoopWakeup ==
    ASSUME WakeupInv, NEW w \in Writers, NEW c \in WriteCall, WriteLoop(w, c)
    PROVE  WaitersBacked' /\ NoLostWakeup'
<1> DEFINE p == c.pipe
<1>0. /\ p \in Pipes /\ w \in Threads /\ w \notin Readers
      /\ TypeOK /\ QueueBacked /\ CallsBacked /\ NoLostWakeup
  BY WriteCallFields, Constants DEF WakeupInv, WaitersBacked
<1>1. CASE WriteBroken(w, c)
  <2>1. UNCHANGED <<open, buffer, waiting, waiters, nextWaiter>>
    BY <1>1 DEF WriteBroken, pipeVars, waiterVars
  <2>2. /\ at'[w] = "idle"
        /\ \A u \in Threads \ {w} :
              /\ call'[u] = call[u]
              /\ at'[u] = "idle" <=> at[u] = "idle"
              /\ at'[u] = "waiting" => at[u] = "waiting"
    <3>1. call' = [call EXCEPT ![w] = NoCall] /\ at' = [at EXCEPT ![w] = "idle"]
      BY <1>1 DEF WriteBroken, Quiet, Return
    <3>2. QED
      BY Zenon, <3>1, <1>0, OtherThreads
  <2>3. QueueBacked' /\ CallsBacked'
    BY <1>0, <2>1, <2>2, Constants DEF QueueBacked, CallsBacked, HasResult
  <2>4. NoLostWakeup'
    BY ZenonT(30), <1>0, <2>1, <2>2, Constants
    DEF NoLostWakeup, MustBlock, HasResult, LiveWaits, Accepted, Available
  <2>5. QED
    BY <2>3, <2>4 DEF WaitersBacked
<1>2. CASE WriteHandoff(w, c)
  <2>1. PICK id \in LiveWaits(p) :
          LET n == SmallerOf(waiters[id].length, c.length) IN
          /\ \A other \in LiveWaits(p) : id <= other
          /\ waiting' = [waiting EXCEPT ![p] = {other \in @ : other > id}]
          /\ waiters' = [waiters EXCEPT ![id] =
                           [@ EXCEPT !.state = "data", !.data = Stamps(p, n)]]
    BY Zenon, <1>2 DEF WriteHandoff
  <2>2. /\ call' = [call EXCEPT ![w] = NoCall] /\ NotifyAll(w, "idle")
        /\ UNCHANGED <<open, nextWaiter>>
    BY <1>2 DEF WriteHandoff, Return
  <2>3. NoLostWakeup'
    BY Zenon, <1>0, <2>2, NotifyReturn
  <2>4. \A u \in Threads \ {w} : call'[u] = call[u] /\ (at'[u] = "idle" <=> at[u] = "idle")
    BY Zenon, <1>0, <2>2, OtherThreads
  <2>5. /\ DOMAIN waiters' = DOMAIN waiters
        /\ \A i \in DOMAIN waiters \ {id} : waiters'[i] = waiters[i]
        /\ waiters'[id].state = "data"
    <3>1. waiters[id] \in Pending /\ id \in DOMAIN waiters
      BY <1>0, <2>1 DEF LiveWaits, TypeOK, DataType
    <3>2. QED
      BY Zenon, <1>0, <2>1, <3>1 DEF TypeOK, DataType, Pending
  <2>6. /\ \A q \in Pipes \ {p} : waiting'[q] = waiting[q]
        /\ waiting'[p] = waiting[p] \ {id}
    <3>1. waiting[p] \subseteq WaiterId /\ waiting[p] \subseteq LiveWaits(p)
      BY <1>0 DEF QueueBacked, LiveWaits, TypeOK, DataType
    <3>2. \A other \in waiting[p] : other > id <=> other # id
      BY <1>0, <2>1, <3>1 DEF WaiterId, LiveWaits
    <3>3. QED
      BY <1>0, <2>1, <3>2 DEF TypeOK, DataType
  <2>7. QueueBacked'
    BY <1>0, <2>1, <2>2, <2>5, <2>6 DEF QueueBacked, LiveWaits
  <2>8. CallsBacked'
    <3> SUFFICES ASSUME NEW r \in Readers, at'[r] # "idle"
                 PROVE  /\ call'[r].waiter \in DOMAIN waiters'
                        /\ ~HasResult(call[r])' => call'[r].waiter \in waiting'[call'[r].pipe]
                        /\ \A other \in Readers :
                              at'[other] # "idle" /\ call'[other].waiter = call'[r].waiter
                                 => other = r
      BY DEF CallsBacked
    <3>1. \A u \in Readers : call'[u] = call[u] /\ (at'[u] = "idle" <=> at[u] = "idle")
      BY <1>0, <2>4, Constants
    <3>2. call[r].pipe \in Pipes
      BY Zenon, <1>0, <3>1, ReaderCall
    <3>3. ~HasResult(call[r])' => ~HasResult(call[r]) /\ call[r].waiter # id
      BY <1>0, <3>1, <2>5 DEF HasResult, CallsBacked
    <3>4. QED
      BY SMTT(30), <1>0, <2>5, <2>6, <3>1, <3>2, <3>3 DEF CallsBacked
  <2>9. QED
    BY <2>3, <2>7, <2>8 DEF WaitersBacked
<1>3. CASE WriteBuffer(w, c)
  <2>1. /\ call' = [call EXCEPT ![w] = NoCall] /\ NotifyAll(w, "idle")
        /\ waiting' = [waiting EXCEPT ![p] = {}] /\ LiveWaits(p) = {}
        /\ UNCHANGED <<open, waiters, nextWaiter>>
    BY <1>3 DEF WriteBuffer, waiterVars, Return
  <2>2. waiting' = waiting
    BY <1>0, <2>1 DEF QueueBacked, LiveWaits, TypeOK, DataType
  <2>3. NoLostWakeup'
    BY Zenon, <1>0, <2>1, NotifyReturn
  <2>4. \A u \in Threads \ {w} : call'[u] = call[u] /\ (at'[u] = "idle" <=> at[u] = "idle")
    BY ZenonT(30), <1>0, <2>1, OtherThreads
  <2>5. QueueBacked' /\ CallsBacked'
    <3>1. waiting' = waiting /\ waiters' = waiters /\ open' = open /\ nextWaiter' = nextWaiter
      BY <2>1, <2>2
    <3>2. QueueBacked'
      BY <1>0, <3>1 DEF QueueBacked
    <3>3. CallsBacked'
      BY ZenonT(20), <1>0, <2>4, <3>1, Constants DEF CallsBacked, HasResult
    <3>4. QED
      BY <3>2, <3>3
  <2>6. QED
    BY Zenon, <2>3, <2>5 DEF WaitersBacked
<1>4. CASE WriteFull(w, c)
  <2>1. /\ Ends \subseteq open[p] /\ LiveWaits(p) = {} /\ Accepted(p, c.length) = 0
        /\ waiting' = [waiting EXCEPT ![p] = {}]
        /\ UNCHANGED <<open, buffer, waiters, nextWaiter>>
    BY <1>4 DEF WriteFull, waiterVars
  <2>2. waiting' = waiting
    BY <1>0, <2>1 DEF QueueBacked, LiveWaits, TypeOK, DataType
  <2>3. /\ at'[w] = "waiting" => call'[w] = c
        /\ \A u \in Threads \ {w} :
              /\ call'[u] = call[u]
              /\ at'[u] = "idle" <=> at[u] = "idle"
              /\ at'[u] = "waiting" => at[u] = "waiting"
    <3>1. CASE c.nonblocking
      <4>1. call' = [call EXCEPT ![w] = NoCall] /\ at' = [at EXCEPT ![w] = "idle"]
        BY <1>4, <3>1 DEF WriteFull, Quiet, Return
      <4>2. QED
        BY ZenonT(30), <1>0, <4>1, OtherThreads
    <3>2. CASE ~c.nonblocking
      <4>1. call' = [call EXCEPT ![w] = c] /\ at' = [at EXCEPT ![w] = "waiting"]
        BY ZenonT(30), <1>4, <3>2 DEF WriteFull, Wait
      <4>2. QED
        BY <1>0, <4>1 DEF TypeOK, ThreadType
    <3>3. QED
      BY <3>1, <3>2
  <2>4. QueueBacked' /\ CallsBacked'
    BY <1>0, <2>1, <2>2, <2>3, Constants DEF QueueBacked, CallsBacked, HasResult
  <2>5. NoLostWakeup'
    BY ZenonT(30), <1>0, <2>1, <2>2, <2>3, Constants
    DEF NoLostWakeup, MustBlock, HasResult, LiveWaits, Accepted, Available
  <2>6. QED
    BY <2>4, <2>5 DEF WaitersBacked
<1>5. QED
  BY <1>1, <1>2, <1>3, <1>4 DEF WriteLoop

\* The waiter of a call is nobody else's.
LEMMA OwnWaiter ==
    ASSUME TypeOK, CallsBacked, NEW r \in Readers, NEW c \in ReadCall,
           (at[r] = "idle" /\ c.waiter = NoWaiter) \/ (at[r] # "idle" /\ c = call[r])
    PROVE  \A u \in Readers \ {r} : at[u] # "idle" => call[u].waiter # c.waiter
<1>1. NoWaiter \notin DOMAIN waiters
  BY DEF TypeOK, DataType, WaiterId, NoWaiter
<1>2. QED
  BY <1>1 DEF CallsBacked

\* A reader that returns leaves the other readers' waiters alone.
LEMMA ReaderLeaves ==
    ASSUME TypeOK, CallsBacked, NEW r \in Readers, at'[r] = "idle",
           \A u \in Readers \ {r} :
              call'[u] = call[u] /\ (at'[u] = "idle" <=> at[u] = "idle"),
           \A u \in Readers \ {r} : at[u] # "idle" =>
              LET id == call[u].waiter IN
              /\ id \in DOMAIN waiters' /\ waiters'[id] = waiters[id]
              /\ id \in waiting[call[u].pipe] => id \in waiting'[call[u].pipe]
    PROVE  CallsBacked'
<1> SUFFICES ASSUME NEW u \in Readers, at'[u] # "idle"
             PROVE  /\ call'[u].waiter \in DOMAIN waiters'
                    /\ ~HasResult(call[u])' => call'[u].waiter \in waiting'[call'[u].pipe]
                    /\ \A other \in Readers :
                          at'[other] # "idle" /\ call'[other].waiter = call'[u].waiter
                             => other = u
  BY DEF CallsBacked
<1>1. u # r /\ at[u] # "idle" /\ call'[u] = call[u]
  OBVIOUS
<1>2. ~HasResult(call[u])' => ~HasResult(call[u])
  BY <1>1 DEF HasResult
<1>3. call'[u].waiter \in DOMAIN waiters'
  BY <1>1
<1>4. ~HasResult(call[u])' => call'[u].waiter \in waiting'[call'[u].pipe]
  BY <1>1, <1>2 DEF CallsBacked
<1>5. \A other \in Readers :
         at'[other] # "idle" /\ call'[other].waiter = call'[u].waiter => other = u
  BY ZenonT(30), <1>1 DEF CallsBacked
<1>6. QED
  BY <1>3, <1>4, <1>5

\* A reader that returns without notifying, having taken at most its own
\* waiter out of the table, leaves the others asleep for a reason.
LEMMA QuietLeaves ==
    ASSUME TypeOK, NoLostWakeup, NEW r \in Readers, at'[r] = "idle",
           \A u \in Threads \ {r} :
              call'[u] = call[u] /\ (at'[u] = "waiting" => at[u] = "waiting"),
           UNCHANGED <<open, buffer, waiting>>,
           DOMAIN waiters' \subseteq DOMAIN waiters,
           \A u \in Readers \ {r} : at[u] # "idle" =>
              LET id == call[u].waiter IN
              id \in DOMAIN waiters' /\ waiters'[id] = waiters[id]
    PROVE  NoLostWakeup'
<1>1. ASSUME NEW u \in Readers, at'[u] = "waiting"
      PROVE  MustBlock(call[u])' /\ call'[u].waiter \in waiting'[call'[u].pipe]
  <2>1. u # r /\ at[u] = "waiting" /\ call'[u] = call[u]
    BY <1>1, Constants
  <2>2. MustBlock(call[u]) /\ call[u].waiter \in waiting[call[u].pipe]
    BY SMTT(30), <2>1 DEF NoLostWakeup
  <2>3. QED
    BY Zenon, <2>1, <2>2 DEF MustBlock, HasResult
<1>2. ASSUME NEW w \in Writers, at'[w] = "waiting"
      PROVE  /\ Ends \subseteq open'[call'[w].pipe]
             /\ LiveWaits(call[w].pipe)' = {}
             /\ Accepted(call[w].pipe, call[w].length)' = 0
  <2>1. w # r /\ at[w] = "waiting" /\ call'[w] = call[w]
    BY ZenonT(30), <1>2, Constants
  <2>2. /\ Ends \subseteq open[call[w].pipe]
        /\ LiveWaits(call[w].pipe) = {}
        /\ Accepted(call[w].pipe, call[w].length) = 0
    BY <2>1 DEF NoLostWakeup
  <2>3. QED
    BY <2>1, <2>2 DEF LiveWaits, Accepted, Available
<1>3. QED
  BY Zenon, <1>1, <1>2 DEF NoLostWakeup

\* A deadline that passes keeps the invariant: the waiter leaves the table and
\* the only queue it can be in.
LEMMA ExpireWakeup ==
    ASSUME WakeupInv, NEW r \in Readers, NEW c \in ReadCall, Expire(r, c),
           nextWaiter' \in Nat, nextWaiter' >= nextWaiter,
           (at[r] = "idle" /\ c.waiter = NoWaiter) \/ (at[r] # "idle" /\ c = call[r])
    PROVE  WaitersBacked' /\ NoLostWakeup'
<1> DEFINE p == c.pipe
           id == c.waiter
<1>0. /\ p \in Pipes /\ r \in Threads /\ r \notin Writers
      /\ TypeOK /\ QueueBacked /\ CallsBacked
  BY Zenon, ReadCallFields, Constants DEF WakeupInv, WaitersBacked
<1>a. \A u \in Readers \ {r} : at[u] # "idle" =>
         call[u].waiter # id /\ call[u].waiter \in DOMAIN waiters /\ call[u].pipe \in Pipes
  BY ZenonT(20), <1>0, OwnWaiter, ReaderCall DEF CallsBacked
<1>1. /\ call' = [call EXCEPT ![r] = NoCall] /\ NotifyAll(r, "idle")
      /\ waiters' = Without(waiters, id)
      /\ waiting' = [waiting EXCEPT ![p] = @ \ {id}]
      /\ open' = open
  BY DEF Expire, Return, Unqueued
<1>2. /\ at'[r] = "idle"
      /\ \A u \in Threads \ {r} : call'[u] = call[u] /\ (at'[u] = "idle" <=> at[u] = "idle")
  BY Zenon, <1>0, <1>1, OtherThreads
<1>3. /\ DOMAIN waiters' = DOMAIN waiters \ {id}
      /\ \A i \in DOMAIN waiters \ {id} : waiters'[i] = waiters[i]
  BY Zenon, <1>0, <1>1, WithoutType
<1>4. \A q \in Pipes : id \in waiting[q] => q = p
  <2>1. CASE at[r] = "idle" /\ c.waiter = NoWaiter
    BY Zenon, <1>0, <2>1 DEF TypeOK, DataType, WaiterId, NoWaiter
  <2>2. CASE at[r] # "idle" /\ c = call[r]
    BY ZenonT(30), <1>0, <2>2 DEF CallsBacked, QueueBacked, HasResult
  <2>3. QED
    BY <2>1, <2>2
<1>5. \A q \in Pipes : waiting'[q] = waiting[q] \ {id}
  BY Zenon, <1>0, <1>1, <1>4 DEF TypeOK, DataType
<1>6. QueueBacked'
  <2>1. \A i \in DOMAIN waiters' : i < nextWaiter'
    BY SMTT(30), <1>0, <1>3 DEF QueueBacked, TypeOK, DataType, WaiterId
  <2>2. QED
    BY <1>0, <1>1, <1>3, <1>5, <2>1 DEF QueueBacked
<1>7. CallsBacked'
  <2>1. \A u \in Readers \ {r} : at[u] # "idle" =>
              LET k == call[u].waiter IN
              /\ k \in DOMAIN waiters' /\ waiters'[k] = waiters[k]
              /\ k \in waiting[call[u].pipe] => k \in waiting'[call[u].pipe]
    BY <1>a, <1>3, <1>5
  <2>2. QED
    BY Zenon, <1>0, <1>2, <2>1, Constants, ReaderLeaves
<1>8. NoLostWakeup'
  BY Zenon, <1>0, <1>1, NotifyReturn
<1>9. QED
  BY <1>6, <1>7, <1>8 DEF WaitersBacked

\* One round of the loop of read_with_timeout keeps the invariant, entered
\* anew or with the locals of the call.
LEMMA ReadLoopWakeup ==
    ASSUME WakeupInv, NEW r \in Readers, NEW c \in ReadCall, ReadLoop(r, c),
           (at[r] = "idle" /\ c.waiter = NoWaiter) \/ (at[r] # "idle" /\ c = call[r])
    PROVE  WaitersBacked' /\ NoLostWakeup'
<1> DEFINE p == c.pipe
           id == c.waiter
           Frame == \A u \in Threads \ {r} : /\ call'[u] = call[u]
                                             /\ at'[u] = "idle" <=> at[u] = "idle"
                                             /\ at'[u] = "waiting" => at[u] = "waiting"
<1>0. /\ p \in Pipes /\ r \in Threads /\ r \notin Writers /\ c.length \in ReadLengths
      /\ TypeOK /\ QueueBacked /\ CallsBacked /\ NoLostWakeup
  BY ReadCallFields, Constants DEF WakeupInv, WaitersBacked
<1>a. \A u \in Readers \ {r} : at[u] # "idle" => call[u].waiter # id
  BY Zenon, <1>0, OwnWaiter
<1>b. \A u \in Readers \ {r} : at[u] # "idle" => call[u].waiter \in DOMAIN waiters
  BY <1>0 DEF CallsBacked
<1>1. CASE ReadResult(r, c)
  <2>1. /\ call' = [call EXCEPT ![r] = NoCall] /\ at' = [at EXCEPT ![r] = "idle"]
        /\ waiters' = Without(waiters, id) /\ HasResult(c)
        /\ UNCHANGED <<open, buffer, waiting, nextWaiter>>
    BY <1>1 DEF ReadResult, Return, Quiet, pipeVars
  <2>2. at'[r] = "idle" /\ Frame
    BY ZenonT(30), <1>0, <2>1, OtherThreads
  <2>3. /\ DOMAIN waiters' = DOMAIN waiters \ {id}
        /\ \A i \in DOMAIN waiters \ {id} : waiters'[i] = waiters[i]
    BY Zenon, <1>0, <2>1, WithoutType
  <2>4. QueueBacked'
    <3>1. \A q \in Pipes : id \notin waiting[q]
      BY Zenon, <1>0, <2>1 DEF QueueBacked, HasResult
    <3>2. QED
      BY SMTT(30), <1>0, <2>1, <2>3, <3>1 DEF QueueBacked
  <2>5. CallsBacked'
    BY ZenonT(30), <1>0, <1>a, <1>b, <2>1, <2>2, <2>3, Constants, ReaderLeaves
  <2>6. NoLostWakeup'
    BY ZenonT(30), <1>0, <1>a, <1>b, <2>1, <2>2, <2>3, QuietLeaves
  <2>7. QED
    BY ZenonT(30), <2>4, <2>5, <2>6 DEF WaitersBacked
<1>2. CASE ReadGone(r, c)
  <2>1. /\ call' = [call EXCEPT ![r] = NoCall] /\ at' = [at EXCEPT ![r] = "idle"]
        /\ UNCHANGED <<open, buffer, waiting, waiters, nextWaiter>>
    BY Zenon, <1>2 DEF ReadGone, Return, Quiet, pipeVars, waiterVars
  <2>2. at'[r] = "idle" /\ Frame
    BY ZenonT(30), <1>0, <2>1, OtherThreads
  <2>3. QueueBacked'
    BY <1>0, <2>1 DEF QueueBacked
  <2>4. CallsBacked'
    BY ZenonT(30), <1>0, <1>a, <1>b, <2>1, <2>2, Constants, ReaderLeaves
  <2>5. NoLostWakeup'
    BY ZenonT(30), <1>0, <1>b, <2>1, <2>2, QuietLeaves
  <2>6. QED
    BY <2>3, <2>4, <2>5 DEF WaitersBacked
<1>3. CASE ReadBuffer(r, c)
  <2>1. /\ call' = [call EXCEPT ![r] = NoCall] /\ NotifyAll(r, "idle")
        /\ UNCHANGED <<open, waiting, waiters, nextWaiter>>
    BY <1>3 DEF ReadBuffer, Return, waiterVars
  <2>2. at'[r] = "idle" /\ Frame
    BY Zenon, <1>0, <2>1, OtherThreads
  <2>3. QueueBacked'
    BY ZenonT(30), <1>0, <2>1 DEF QueueBacked
  <2>4. CallsBacked'
    BY <1>0, <1>a, <1>b, <2>1, <2>2, Constants, ReaderLeaves
  <2>5. NoLostWakeup'
    BY ZenonT(30), <1>0, <2>1, NotifyReturn
  <2>6. QED
    BY <2>3, <2>4, <2>5 DEF WaitersBacked
<1>4. CASE ReadEof(r, c)
  <2>1. /\ call' = [call EXCEPT ![r] = NoCall] /\ at' = [at EXCEPT ![r] = "idle"]
        /\ waiters' = Without(waiters, id) /\ ~HasResult(c) /\ "write" \notin open[p]
        /\ UNCHANGED <<open, buffer, waiting, nextWaiter>>
    BY <1>4 DEF ReadEof, Return, Quiet, pipeVars
  <2>2. at'[r] = "idle" /\ Frame
    BY Zenon, <1>0, <2>1, OtherThreads
  <2>3. /\ DOMAIN waiters' = DOMAIN waiters \ {id}
        /\ \A i \in DOMAIN waiters \ {id} : waiters'[i] = waiters[i]
    BY ZenonT(30), <1>0, <2>1, WithoutType
  <2>4. id \notin DOMAIN waiters
    <3>1. waiting[p] = {}
      BY Zenon, <1>0, <2>1 DEF QueueBacked
    <3>2. at[r] = "idle"
      BY ZenonT(30), <1>0, <2>1, <3>1 DEF CallsBacked
    <3>3. QED
      BY <1>0, <3>2 DEF TypeOK, DataType, WaiterId, NoWaiter
  <2>5. QueueBacked'
    BY SMTT(30), <1>0, <2>1, <2>3, <2>4 DEF QueueBacked
  <2>6. CallsBacked'
    BY ZenonT(30), <1>0, <1>a, <1>b, <2>1, <2>2, <2>3, Constants, ReaderLeaves
  <2>7. NoLostWakeup'
    BY <1>0, <1>a, <1>b, <2>1, <2>2, <2>3, QuietLeaves
  <2>8. QED
    BY <2>5, <2>6, <2>7 DEF WaitersBacked
<1>5. CASE ReadBlock(r, c) /\ c.waiter # NoWaiter
  <2>1. /\ call' = [call EXCEPT ![r] = c] /\ at' = [at EXCEPT ![r] = "waiting"]
        /\ MustBlock(c)
        /\ UNCHANGED <<open, buffer, waiting, waiters, nextWaiter>>
    BY <1>5 DEF ReadBlock, Wait, waiterVars
  <2>2. at[r] # "idle" /\ c = call[r]
    BY <1>5
  <2>3. call' = call /\ at'[r] = "waiting" /\ \A u \in Threads \ {r} : at'[u] = at[u]
    BY Zenon, <1>0, <2>1, <2>2 DEF TypeOK, ThreadType
  <2>4. \A u \in Readers : at'[u] # "idle" => at[u] # "idle"
    BY Zenon, <2>2, <2>3, Constants
  <2>5. QueueBacked'
    BY ZenonT(30), <1>0, <2>1 DEF QueueBacked
  <2>6. CallsBacked'
    BY <1>0, <2>1, <2>3, <2>4 DEF CallsBacked, HasResult
  <2>7. id \in waiting[p]
    BY Zenon, <1>0, <2>1, <2>2 DEF CallsBacked, MustBlock
  <2>8. NoLostWakeup'
    <3>1. \A u \in Readers : at'[u] = "waiting" =>
            MustBlock(call[u]) /\ call[u].waiter \in waiting[call[u].pipe]
      BY <1>0, <2>1, <2>2, <2>3, <2>7, Constants DEF NoLostWakeup
    <3>2. \A w \in Writers : at'[w] = "waiting" => at[w] = "waiting"
      BY <1>0, <2>3, Constants
    <3>3. QED
      BY ZenonT(30), <1>0, <2>1, <2>3, <3>1, <3>2
      DEF NoLostWakeup, MustBlock, HasResult, LiveWaits, Accepted, Available
  <2>9. QED
    BY <2>5, <2>6, <2>8 DEF WaitersBacked
<1>6. CASE ReadBlock(r, c) /\ c.waiter = NoWaiter
  <2> DEFINE new == nextWaiter
             d == [c EXCEPT !.waiter = new]
  <2>1. /\ call' = [call EXCEPT ![r] = d] /\ NotifyAll(r, "waiting")
        /\ MustBlock(c)
        /\ waiters' = With(waiters, new, PendingRead(c.length))
        /\ waiting' = [waiting EXCEPT ![p] = @ \cup {new}]
        /\ nextWaiter' = new + 1
        /\ UNCHANGED <<open, buffer>>
    BY <1>6 DEF ReadBlock, Wait
  <2>2. d.waiter = new /\ d.pipe = p
    BY Zenon DEF ReadCall
  <2> HIDE DEF d
  <2>3. /\ at'[r] = "waiting" /\ call'[r] = d
        /\ \A u \in Threads \ {r} : /\ call'[u] = call[u] /\ at'[u] # "waiting"
                                    /\ at'[u] = "idle" <=> at[u] = "idle"
    BY ZenonT(30), <1>0, <2>1, OtherThreads
  <2>4. /\ new \in WaiterId /\ new \notin DOMAIN waiters
        /\ \A q \in Pipes : new \notin waiting[q]
    BY <1>0 DEF QueueBacked, TypeOK, DataType, WaiterId
  <2>5. /\ DOMAIN waiters' = DOMAIN waiters \cup {new}
        /\ \A i \in DOMAIN waiters : waiters'[i] = waiters[i]
        /\ waiters'[new].state = "pending"
    <3>1. LET f == With(waiters, nextWaiter, PendingRead(c.length)) IN
          /\ DOMAIN f = DOMAIN waiters \cup {nextWaiter}
          /\ \A i \in DOMAIN waiters \ {nextWaiter} : f[i] = waiters[i]
          /\ f[nextWaiter] = PendingRead(c.length)
      BY ZenonT(30), <1>0, WithType
    <3>2. PendingRead(c.length).state = "pending"
      BY DEF PendingRead
    <3>3. DOMAIN waiters \ {nextWaiter} = DOMAIN waiters
      BY Zenon, <2>4
    <3>4. waiters' = With(waiters, nextWaiter, PendingRead(c.length))
      BY <2>1
    <3> HIDE DEF p, id, Frame
    <3>5. QED
      BY <3>1, <3>2, <3>3, <3>4
  <2>6. /\ waiting'[p] = waiting[p] \cup {new}
        /\ \A q \in Pipes \ {p} : waiting'[q] = waiting[q]
    BY <1>0, <2>1 DEF TypeOK, DataType
  <2>7. QueueBacked'
    <3>1. \A i \in DOMAIN waiters' : i < nextWaiter'
      BY SMTT(30), <1>0, <2>1, <2>4, <2>5 DEF QueueBacked, TypeOK, DataType, WaiterId
    <3>2. ASSUME NEW q \in Pipes, NEW i \in waiting'[q]
          PROVE  /\ i \in DOMAIN waiters' /\ waiters'[i].state = "pending"
                 /\ \A s \in Pipes : i \in waiting'[s] => s = q
                 /\ "write" \in open'[q]
      <4>1. CASE i = new
        <5>1. q = p
          BY Zenon, <2>4, <2>6, <4>1, <3>2
        <5>2. "write" \in open'[p]
          BY Zenon, <1>0, <2>1 DEF MustBlock
        <5>3. \A s \in Pipes : i \in waiting'[s] => s = p
          BY Zenon, <2>4, <2>6, <4>1
        <5>4. QED
          BY Zenon, <2>5, <4>1, <5>1, <5>2, <5>3
      <4>2. CASE i # new
        <5>1. i \in waiting[q]
          BY Zenon, <2>6, <3>2, <4>2
        <5>2. /\ i \in DOMAIN waiters /\ waiters[i].state = "pending"
              /\ \A s \in Pipes : i \in waiting[s] => s = q
              /\ "write" \in open[q]
          BY Zenon, <1>0, <5>1 DEF QueueBacked
        <5>3. \A s \in Pipes : i \in waiting'[s] => i \in waiting[s]
          BY <2>6, <4>2
        <5>4. open' = open
          BY Zenon, <2>1
        <5>5. QED
          BY Zenon, <2>5, <5>2, <5>3, <5>4
      <4>3. QED
        BY Zenon, <4>1, <4>2
    <3>3. QED
      BY <3>1, <3>2 DEF QueueBacked
  <2>8. CallsBacked'
    <3>1. ASSUME NEW u \in Readers \ {r}, at'[u] # "idle"
          PROVE  /\ call'[u].waiter \in DOMAIN waiters' /\ call'[u].waiter # new
                 /\ ~HasResult(call[u])' => call'[u].waiter \in waiting'[call'[u].pipe]
      <4>1. /\ at[u] # "idle" /\ call'[u] = call[u] /\ call[u].pipe \in Pipes
            /\ call[u].waiter \in DOMAIN waiters
        <5>1. at[u] # "idle" /\ call'[u] = call[u]
          BY ZenonT(30), <2>3, <3>1, Constants
        <5>2. QED
          BY ZenonT(30), <1>0, <5>1, ReaderCall DEF CallsBacked
      <4>2. ~HasResult(call[u])' => ~HasResult(call[u])
        BY <2>5, <4>1 DEF HasResult
      <4>3. ~HasResult(call[u]) => call[u].waiter \in waiting[call[u].pipe]
        BY ZenonT(20), <1>0, <4>1 DEF CallsBacked
      <4>4. waiting[call[u].pipe] \subseteq waiting'[call[u].pipe]
        BY <2>6, <4>1
      <4>5. call[u].waiter \in DOMAIN waiters' /\ call[u].waiter # new
        BY <2>4, <2>5, <4>1
      <4>6. QED
        BY ZenonT(30), <4>1, <4>2, <4>3, <4>4, <4>5
    <3>2. call'[r].waiter = new /\ call'[r].waiter \in waiting'[call'[r].pipe]
      BY Zenon, <2>2, <2>3, <2>6
    <3>3. \A u, v \in Readers \ {r} : at'[u] # "idle" /\ at'[v] # "idle"
                                     /\ call'[u].waiter = call'[v].waiter => u = v
      <4>1. \A u \in Readers \ {r} : call'[u] = call[u] /\ (at'[u] # "idle" => at[u] # "idle")
        BY Zenon, <2>3, Constants
      <4>2. QED
        BY ZenonT(30), <1>0, <4>1 DEF CallsBacked
    <3>4. QED
      BY ZenonT(30), <2>3, <2>5, <3>1, <3>2, <3>3 DEF CallsBacked
  <2>9. NoLostWakeup'
    <3>1. MustBlock(call[r])' /\ call'[r].waiter \in waiting'[call'[r].pipe]
      <4>1. buffer'[p] = <<>> /\ "write" \in open'[p]
        BY Zenon, <2>1 DEF MustBlock
      <4>2. ~HasResult(call[r])'
        BY Zenon, <2>2, <2>3, <2>5 DEF HasResult
      <4>3. QED
        BY ZenonT(30), <2>2, <2>3, <2>6, <4>1, <4>2 DEF MustBlock, HasResult
    <3>2. QED
      BY Zenon, <1>0, <2>3, <3>1, Constants DEF NoLostWakeup
  <2>10. QED
    BY <2>7, <2>8, <2>9 DEF WaitersBacked
<1>7. CASE ReadExpired(r, c)
  <2>1. Expire(r, c) /\ nextWaiter' \in Nat /\ nextWaiter' >= nextWaiter
    BY <1>0, <1>7 DEF ReadExpired, TypeOK, DataType, WaiterId
  <2>2. QED
    BY Zenon, <2>1, ExpireWakeup
<1>8. QED
  BY <1>1, <1>2, <1>3, <1>4, <1>5, <1>6, <1>7 DEF ReadLoop

\* The invariant is inductive.
LEMMA NextWakeup ==
    ASSUME WakeupInv, Next
    PROVE  WakeupInv'
<1>0. TypeOK /\ QueueBacked /\ CallsBacked /\ NoLostWakeup /\ TypeOK'
  BY NextType DEF WakeupInv, WaitersBacked
<1>1. ASSUME NEW p \in Pipes, CreatePipe(p) PROVE WaitersBacked' /\ NoLostWakeup'
  <2>1. /\ UNCHANGED <<buffer, waiting, waiters, nextWaiter, at, call>>
        /\ \A q \in Pipes : open[q] \subseteq open'[q]
    BY Zenon, <1>0, <1>1 DEF CreatePipe, waiterVars, threadVars, TypeOK, DataType
  <2>2. WaitersBacked'
    BY ZenonT(30), <1>0, <2>1 DEF WaitersBacked, QueueBacked, CallsBacked, HasResult
  <2>3. \A r \in Readers : at[r] = "waiting" => call[r].pipe \in Pipes
    BY Zenon, <1>0, ReaderCall
  <2>4. \A w \in Writers : at[w] = "waiting" => call[w].pipe \in Pipes
    BY ZenonT(30), <1>0, WriteCallFields DEF TypeOK, ThreadType
  <2>5. NoLostWakeup'
    BY <1>0, <2>1, <2>3, <2>4
    DEF NoLostWakeup, MustBlock, HasResult, LiveWaits, Accepted, Available
  <2>6. QED
    BY Zenon, <2>2, <2>5
<1>2. ASSUME NEW p \in Pipes, NEW e \in Ends, Close(p, e) PROVE WaitersBacked' /\ NoLostWakeup'
  <2>1. call' = call /\ nextWaiter' = nextWaiter /\ at' = WakeAll
        /\ open' = [open EXCEPT ![p] = @ \ {e}]
    BY Zenon, <1>2 DEF Close
  <2>2. \A t \in Threads : at'[t] # "waiting" /\ (at'[t] = "idle" <=> at[t] = "idle")
    BY Zenon, <1>0, <2>1 DEF WakeAll, TypeOK, ThreadType
  <2>3. NoLostWakeup'
    BY Zenon, <2>2, Constants DEF NoLostWakeup
  <2>4. /\ DOMAIN waiters' = DOMAIN waiters
        /\ \A i \in DOMAIN waiters :
              \/ waiters'[i] = waiters[i]
              \/ e = "write" /\ i \in waiting[p] /\ waiters'[i].state = "eof"
        /\ \A i \in DOMAIN waiters \cap waiting[p] : e = "write" => waiters'[i].state = "eof"
        /\ \A q \in Pipes \ {p} : waiting'[q] = waiting[q]
        /\ waiting'[p] = {} \/ (e = "read" /\ waiting'[p] = waiting[p])
    <3>1. \A i \in DOMAIN waiters : waiters[i] \in Pending
      BY <1>0 DEF TypeOK, DataType
    <3>2. \A i \in DOMAIN waiters :
             [waiters[i] EXCEPT !.state = "eof", !.data = <<>>].state = "eof"
      BY Zenon, <3>1 DEF Pending
    <3>3. CASE e = "read"
      <4>1. waiters' = waiters /\ (waiting' = waiting \/ waiting' = [waiting EXCEPT ![p] = {}])
        BY Zenon, <1>2, <3>3 DEF Close
      <4>2. QED
        BY <1>0, <3>3, <4>1 DEF TypeOK, DataType
    <3>4. CASE e = "write"
      <4>1. /\ waiting' = [waiting EXCEPT ![p] = {}]
            /\ waiters' = [i \in DOMAIN waiters |->
                             IF i \in waiting[p]
                             THEN [waiters[i] EXCEPT !.state = "eof", !.data = <<>>]
                             ELSE waiters[i]]
        BY Zenon, <1>2, <3>4 DEF Close
      <4>2. QED
        BY ZenonT(30), <1>0, <3>2, <3>4, <4>1 DEF TypeOK, DataType
    <3>5. QED
      BY Zenon, <3>3, <3>4 DEF Ends
  <2>5. waiting'[p] = {} => e = "write" \/ waiting[p] = {}
    <3>1. CASE e = "read" /\ open[p] = {e}
      BY <1>0, <3>1 DEF QueueBacked
    <3>2. CASE e = "read" /\ open[p] # {e}
      BY <1>0, <1>2, <3>2 DEF Close
    <3>3. QED
      BY <3>1, <3>2 DEF Ends
  <2>6. QueueBacked'
    <3>1. \A i \in DOMAIN waiters' : i < nextWaiter'
      BY Zenon, <1>0, <2>1, <2>4 DEF QueueBacked
    <3>2. ASSUME NEW q \in Pipes, NEW i \in waiting'[q]
          PROVE  /\ i \in DOMAIN waiters' /\ waiters'[i].state = "pending"
                 /\ \A s \in Pipes : i \in waiting'[s] => s = q
                 /\ "write" \in open'[q]
      <4>1. i \in waiting[q] /\ (q = p => e = "read")
        BY Zenon, <2>4, <3>2
      <4>2. \A s \in Pipes : i \in waiting'[s] => i \in waiting[s]
        BY <2>4
      <4>3. /\ i \in DOMAIN waiters /\ waiters[i].state = "pending"
            /\ \A s \in Pipes : i \in waiting[s] => s = q
            /\ "write" \in open[q]
        BY Zenon, <1>0, <4>1 DEF QueueBacked
      <4>4. waiters'[i] = waiters[i]
        BY Zenon, <2>4, <4>1, <4>3
      <4>5. "write" \in open'[q]
        BY ZenonT(30), <1>0, <2>1, <4>1, <4>3 DEF TypeOK, DataType
      <4>6. QED
        BY Zenon, <2>4, <4>2, <4>3, <4>4, <4>5
    <3>3. QED
      BY Zenon, <3>1, <3>2 DEF QueueBacked
  <2>7. CallsBacked'
    <3>1. ASSUME NEW r \in Readers, at'[r] # "idle", ~HasResult(call[r])'
          PROVE  call[r].waiter \in waiting'[call[r].pipe]
      <4>1. /\ call[r].pipe \in Pipes /\ call[r].waiter \in DOMAIN waiters
            /\ at[r] # "idle" /\ r \in Threads
        BY Zenon, <1>0, <2>2, <3>1, ReaderCall, Constants DEF CallsBacked
      <4>2. waiters'[call[r].waiter].state = "pending"
        BY Zenon, <2>1, <2>4, <3>1, <4>1 DEF HasResult
      <4>3. waiters'[call[r].waiter] = waiters[call[r].waiter]
        BY Zenon, <2>4, <4>1, <4>2
      <4>4. call[r].waiter \in waiting[call[r].pipe]
        BY Zenon, <1>0, <4>1, <4>2, <4>3 DEF CallsBacked, HasResult
      <4>5. ~(e = "write" /\ call[r].waiter \in waiting[p])
        BY Zenon, <2>4, <4>1, <4>2
      <4>6. QED
        BY Zenon, <2>4, <2>5, <4>1, <4>4, <4>5
    <3>2. QED
      BY SMTT(30), <1>0, <2>1, <2>2, <2>4, <3>1, Constants DEF CallsBacked
  <2>8. QED
    BY Zenon, <2>3, <2>6, <2>7 DEF WaitersBacked
<1>3. ASSUME NEW w \in Writers, NEW p \in Pipes, NEW n \in WriteLengths, NEW nb \in BOOLEAN,
             Write(w, p, n, nb)
      PROVE  WaitersBacked' /\ NoLostWakeup'
  <2> DEFINE c == [op |-> "write", pipe |-> p, length |-> n, nonblocking |-> nb]
  <2>1. c \in WriteCall
    BY DEF WriteCall
  <2>2. WriteLoop(w, c)
    BY <1>3 DEF Write
  <2>3. QED
    BY ZenonT(30), <2>1, <2>2, WriteLoopWakeup
<1>4. ASSUME NEW r \in Readers, NEW p \in Pipes, NEW n \in ReadLengths, NEW timed \in Timeouts,
             Read(r, p, n, timed)
      PROVE  WaitersBacked' /\ NoLostWakeup'
  <2> DEFINE c == [op |-> "read", pipe |-> p, length |-> n, timed |-> timed,
                   waiter |-> NoWaiter]
  <2>1. c \in ReadCall
    BY PipeAssumption DEF ReadCall, NoWaiter
  <2>2. ReadLoop(r, c) /\ at[r] = "idle" /\ c.waiter = NoWaiter
    BY <1>4 DEF Read
  <2> HIDE DEF c
  <2>3. QED
    BY ZenonT(30), <2>1, <2>2, ReadLoopWakeup
<1>5. ASSUME NEW w \in Writers, WriteWake(w) PROVE WaitersBacked' /\ NoLostWakeup'
  <2>1. call[w] \in WriteCall
    BY Zenon, <1>0, <1>5, Constants DEF WriteWake, TypeOK, ThreadType
  <2>2. QED
    BY Zenon, <1>5, <2>1, WriteLoopWakeup DEF WriteWake
<1>6. ASSUME NEW r \in Readers, ReadWake(r) PROVE WaitersBacked' /\ NoLostWakeup'
  <2>1. at[r] # "idle" /\ call[r] \in ReadCall
    BY <1>0, <1>6, ReaderCall DEF ReadWake
  <2>2. ReadLoop(r, call[r])
    BY Zenon, <1>0, <1>6, <2>1 DEF ReadWake, CallsBacked
  <2>3. QED
    BY <2>1, <2>2, ReadLoopWakeup
<1>7. ASSUME NEW r \in Readers, ReadTimeout(r) PROVE WaitersBacked' /\ NoLostWakeup'
  <2>1. at[r] # "idle" /\ call[r] \in ReadCall
    BY Zenon, <1>0, <1>7, ReaderCall DEF ReadTimeout
  <2>2. Expire(r, call[r]) /\ nextWaiter' \in Nat /\ nextWaiter' >= nextWaiter
    BY <1>0, <1>7 DEF ReadTimeout, TypeOK, DataType, WaiterId
  <2>3. QED
    BY Zenon, <2>1, <2>2, ExpireWakeup
<1>8. ASSUME NEW t \in Threads, SpuriousWake(t) PROVE WaitersBacked' /\ NoLostWakeup'
  <2>0. /\ UNCHANGED <<open, buffer, waiting, waiters, nextWaiter, call>>
        /\ at[t] = "waiting" /\ at' = [at EXCEPT ![t] = "woken"]
    BY Zenon, <1>8 DEF SpuriousWake, pipeVars, waiterVars
  <2>1. \A u \in Readers \cup Writers : /\ at'[u] = "idle" <=> at[u] = "idle"
                                        /\ at'[u] = "waiting" => at[u] = "waiting"
    BY Zenon, <1>0, <2>0 DEF TypeOK, ThreadType, Threads
  <2>2. WaitersBacked'
    BY ZenonT(30), <1>0, <2>0, <2>1 DEF WaitersBacked, QueueBacked, CallsBacked, HasResult
  <2>3. NoLostWakeup'
    BY Zenon, <1>0, <2>0, <2>1
    DEF NoLostWakeup, MustBlock, HasResult, LiveWaits, Accepted, Available
  <2>4. QED
    BY <2>2, <2>3
<1>9. WaitersBacked' /\ NoLostWakeup'
  BY <1>1, <1>2, <1>3, <1>4, <1>5, <1>6, <1>7, <1>8 DEF Next
<1>10. QED
  BY <1>0, <1>9 DEF WakeupInv

\* No step of any number of readers and writers on any number of pipes leaves
\* a sleeping thread with something to do, and the table of waiters, the
\* queues and the calls in progress agree.
THEOREM NoWakeupIsLost == Spec => [](WaitersBacked /\ NoLostWakeup)
<1>1. Init => WakeupInv
  <2>1. Init => WaitersBacked /\ NoLostWakeup
    BY Constants DEF Init, WaitersBacked, QueueBacked, CallsBacked, NoLostWakeup
  <2>2. QED
    BY Zenon, <2>1, InitType DEF WakeupInv
<1>2. WakeupInv /\ UNCHANGED vars => WakeupInv'
  <2>1. TypeOK /\ UNCHANGED vars => TypeOK'
    BY DEF TypeOK, DataType, ThreadType, vars, pipeVars, waiterVars, threadVars
  <2>2. WaitersBacked /\ UNCHANGED vars => WaitersBacked'
    <3>1. QueueBacked /\ UNCHANGED vars => QueueBacked'
      BY DEF QueueBacked, vars, pipeVars, waiterVars
    <3>2. CallsBacked /\ UNCHANGED vars => CallsBacked'
      BY ZenonT(20) DEF CallsBacked, HasResult, vars, pipeVars, waiterVars, threadVars
    <3>3. QED
      BY <3>1, <3>2 DEF WaitersBacked
  <2>3. NoLostWakeup /\ UNCHANGED vars => NoLostWakeup'
    BY DEF NoLostWakeup, MustBlock, HasResult, LiveWaits, Accepted, Available, vars, pipeVars,
           waiterVars, threadVars
  <2>4. QED
    BY Zenon, <2>1, <2>2, <2>3 DEF WakeupInv
<1>3. WakeupInv => WaitersBacked /\ NoLostWakeup
  BY DEF WakeupInv
<1>4. QED
  BY <1>1, <1>2, <1>3, NextWakeup, PTL DEF Spec

=============================================================================
