---------------------------- MODULE Descriptors ----------------------------
(***************************************************************************)
(* Descriptor tables, open file descriptions and what hangs on them: the   *)
(* fd part of KernelVm (crates/kernel/src/kernel.rs) over FdTableManager   *)
(* and FileDescription (fd_table.rs), the ends registered with the pipe    *)
(* and PTY managers, and the advisory locks (FileLocks).                   *)
(*                                                                         *)
(* Three kinds of threads run.  The API thread takes the VM by &mut, so it *)
(* has one call at a time and no flock is in progress meanwhile.  Flockers *)
(* are inside fd_flock, which takes the VM by & and so only excludes the   *)
(* API thread.  The exit callback of a process runs on a thread of its own *)
(* (here named by the pid) concurrently with all of them.  A step is what  *)
(* happens under one hold of the fd_tables mutex; a check of the limits    *)
(* and the table update it admits are one step where only exits can come   *)
(* in between, since these close descriptors and never open any.           *)
(*                                                                         *)
(* Nothing here depends on which number a descriptor has, so a table is    *)
(* how many of its entries refer to each description.  Pipes and PTYs are  *)
(* both a pair of ends registered with a manager.  Description ids of      *)
(* files, pipes (from 100000) and PTYs (from 200000) are assumed not to    *)
(* meet.                                                                   *)
(***************************************************************************)
EXTENDS Integers, FiniteSets, Functions

CONSTANTS
    Pids,          \* pids, in the order allocate_pid hands them out
    NumStdio,      \* descriptors a fresh table starts with (3 in the code)
    MaxProcesses,  \* max_processes
    MaxDescs,      \* bound on the descriptions ever allocated
    Flockers,      \* threads that call fd_flock
    Scenes         \* the VMs considered (below)

\* A VM: whether max_open_fds is set and so also limits the whole VM, the size
\* of a process's table (max_open_fds or its default), max_pipes or max_ptys, the
\* pids and descriptions in use, and the threads that call fd_flock.
Scene == [limited : BOOLEAN, fds : Nat, pairs : Nat, pids : SUBSET Pids, descs : SUBSET (1..MaxDescs),
          flockers : SUBSET Flockers]

ASSUME DescriptorsAssumption ==
    /\ Pids \subseteq Nat \ {0} /\ IsFiniteSet(Pids)
    /\ NumStdio \in Nat
    /\ MaxProcesses \in Nat /\ MaxDescs \in Nat
    /\ Scenes \subseteq Scene

Descs == 1..MaxDescs
None == 0
PairEnds == {"first", "second"}   \* read and write end, master and slave
Api == 0
Closers == Pids \cup {Api}        \* the exit threads, and the API thread
LockThreads == Closers \cup Flockers
NoCall == [op |-> "none"]
Empty == [d \in Descs |-> 0]

VARIABLES
    status,      \* pid -> "unused", "running", "exited" or "reaped"
    exiting,     \* exited pids whose exit callback has not run yet
    tables,      \* pids that have a descriptor table
    held,        \* pid -> description -> entries of its table that refer to it
    refs,        \* description -> ref_count
    kind,        \* description -> "none" (not allocated), "char", "file" or an end of a pair
    registered,  \* descriptions that are ends in the pipe or PTY manager
    closing,     \* closer -> description -> entries it took out of a table and
                 \* still has to pass to close_special_resource_if_needed
    api,         \* the API call in progress
    terminated,  \* the VM was disposed of
    flock,       \* flocker -> description of the entry it cloned, or None
    scene,       \* one of Scenes
    shared, exclusive, at, request   \* FileLocks

Locks == INSTANCE FileLocks WITH Owners <- Descs, Targets <- {"file"}, Threads <- LockThreads

procVars == <<status, exiting>>
tableVars == <<tables, held, refs, kind>>
lockVars == <<shared, exclusive, at, request>>
vars == <<procVars, tableVars, registered, closing, api, terminated, flock, scene, lockVars>>

Init ==
    /\ status = [p \in Pids |-> "unused"]
    /\ exiting = {} /\ tables = {}
    /\ held = [p \in Pids |-> Empty]
    /\ refs = Empty
    /\ kind = [d \in Descs |-> "none"]
    /\ registered = {}
    /\ closing = [c \in Closers |-> Empty]
    /\ api = NoCall /\ terminated = FALSE
    /\ flock = [th \in Flockers |-> None]
    /\ scene \in Scenes
    /\ Locks!Init

---------------------------------------------------------------------------
\* The entries of a table, and of all of them.
Len(table) == SumFunction(table)
OpenFds == SumFunction([p \in Pids |-> Len(held[p])])
Full(p) == Len(held[p]) >= scene.fds

\* check_open_fds, on a snapshot of all tables.
MutAdmits(n) == scene.limited => OpenFds <= scene.fds
Admits(n) == scene.limited => OpenFds + n <= scene.fds

Unallocated == {d \in scene.descs : kind[d] = "none"}
\* The next n description ids.
Fresh(n) == {d \in Unallocated : Cardinality({e \in Unallocated : e < d}) < n}
\* Pairs are two consecutive ids, and one exists until both ends are closed.
PairCount == Cardinality({d \in Descs : kind[d] = "first" /\ {d, d + 1} \cap registered # {}})
Quiet(c) == closing[c] = Empty /\ at[c] = "idle"
ApiFree ==
    /\ api = NoCall /\ Quiet(Api)
    /\ \A th \in Flockers : flock[th] = None /\ at[th] = "idle"

---------------------------------------------------------------------------
(* spawn_process and create_virtual_process. *)

\* The descriptors the child will inherit are counted under one hold of the
\* mutex.  Parent 0 is no parent.
SpawnStart(parent) ==
    /\ ApiFree /\ ~terminated
    /\ \E p \in scene.pids : status[p] = "unused"
    /\ Cardinality(Unallocated) >= NumStdio
    /\ api' = [op |-> "spawn", parent |-> parent,
               inherited |-> IF parent \in tables THEN Len(held[parent]) ELSE NumStdio]
    /\ UNCHANGED <<procVars, tableVars, registered, closing, terminated, flock, scene, lockVars>>

\* check_process_spawn, on a snapshot taken under the next one.
SpawnAdmit ==
    /\ api.op = "spawn"
    /\ api' = IF /\ Cardinality({p \in Pids : status[p] \in {"running", "exited"}}) < MaxProcesses
                 /\ Admits(api.inherited)
              THEN [api EXCEPT !.op = "fork"] ELSE NoCall
    /\ UNCHANGED <<procVars, tableVars, registered, closing, terminated, flock, scene, lockVars>>

\* FdTableManager::create: fresh descriptions for the standard streams.
Create(p) ==
    LET std == Fresh(NumStdio) IN
    /\ held' = [held EXCEPT ![p] = [d \in Descs |-> IF d \in std THEN 1 ELSE 0]]
    /\ kind' = [d \in Descs |-> IF d \in std THEN "char" ELSE kind[d]]
    /\ refs' = [d \in Descs |-> IF d \in std THEN 1 ELSE refs[d]]

\* ProcessFdTable::fork: every entry of the parent, and a reference for each.
MutFork(parent, p) ==
    /\ held' = [held EXCEPT ![p] = held[parent]]
    /\ UNCHANGED <<kind, refs>>
Fork(parent, p) ==
    /\ held' = [held EXCEPT ![p] = held[parent]]
    /\ refs' = [d \in Descs |-> refs[d] + held[parent][d]]
    /\ UNCHANGED kind

\* register_process.  A parent whose table is gone by now counts as none.
SpawnFork ==
    LET unused == {p \in Pids : status[p] = "unused"}
        child == CHOOSE p \in unused : \A q \in unused : p <= q IN
    /\ api.op = "fork"
    /\ IF api.parent \in tables THEN Fork(api.parent, child) ELSE Create(child)
    /\ tables' = tables \cup {child}
    /\ status' = [status EXCEPT ![child] = "running"]
    /\ api' = NoCall
    /\ UNCHANGED <<exiting, registered, closing, terminated, flock, scene, lockVars>>

---------------------------------------------------------------------------
(* Opening and duplicating. *)

\* fd_open of a regular file.
Open(p) ==
    /\ ApiFree /\ ~terminated /\ p \in tables
    /\ Admits(1) /\ ~Full(p)
    /\ \E d \in Fresh(1) :
          /\ held' = [held EXCEPT ![p][d] = 1]
          /\ kind' = [kind EXCEPT ![d] = "file"]
          /\ refs' = [refs EXCEPT ![d] = 1]
    /\ UNCHANGED <<procVars, tables, registered, closing, api, terminated, flock, scene, lockVars>>

\* open_pipe and open_pty.  When the second open_with fails everything is
\* undone.  When the first fails its error is returned at once: both ends
\* stay registered though no descriptor refers to them.
OpenPair(p) ==
    LET pair == Fresh(2) IN
    /\ ApiFree /\ ~terminated /\ p \in tables
    /\ Admits(2) /\ PairCount < scene.pairs /\ Cardinality(pair) = 2
    /\ kind' = [d \in Descs |-> IF d \notin pair THEN kind[d]
                               ELSE IF d - 1 \in pair THEN "second" ELSE "first"]
    /\ \/ /\ Len(held[p]) + 2 <= scene.fds
          /\ held' = [held EXCEPT ![p] = [d \in Descs |-> IF d \in pair THEN 1 ELSE held[p][d]]]
          /\ refs' = [d \in Descs |-> IF d \in pair THEN 1 ELSE refs[d]]
          /\ registered' = registered \cup pair
       \/ /\ Len(held[p]) + 1 = scene.fds
          /\ UNCHANGED <<held, refs, registered>>
       \/ /\ Full(p)
          /\ registered' = registered \cup pair
          /\ UNCHANGED <<held, refs>>
    /\ UNCHANGED <<procVars, tables, closing, api, terminated, flock, scene, lockVars>>

\* fd_dup, fcntl(F_DUPFD) and fd_open of /dev/fd, and fd_dup2 onto a free fd.
Dup(p, d) ==
    /\ ApiFree /\ p \in tables /\ held[p][d] > 0
    /\ Admits(1) /\ ~Full(p)
    /\ held' = [held EXCEPT ![p][d] = @ + 1]
    /\ refs' = [refs EXCEPT ![d] = @ + 1]
    /\ UNCHANGED <<procVars, tables, kind, registered, closing, api, terminated, flock, scene, lockVars>>

\* The entries of p lose one for old and gain one for new.
Swap(p, old, new) ==
    LET moved(f) == [d \in Descs |-> f[d] + (IF d = new THEN 1 ELSE 0) - (IF d = old THEN 1 ELSE 0)] IN
    /\ held' = [held EXCEPT ![p] = moved(held[p])]
    /\ refs' = moved(refs)

\* fd_dup2 of an fd of d onto another fd, open on e.  The replaced entry is
\* closed after the table is unlocked.
MutDup2(p, d, e) ==
    /\ ApiFree /\ p \in tables
    /\ held[p][d] > 0 /\ held[p][e] > (IF d = e THEN 1 ELSE 0)
    /\ Swap(p, e, d)
    /\ UNCHANGED <<procVars, tables, kind, registered, closing, api, terminated, flock, scene, lockVars>>
Dup2(p, d, e) ==
    /\ ApiFree /\ p \in tables
    /\ held[p][d] > 0 /\ held[p][e] > (IF d = e THEN 1 ELSE 0)
    /\ Swap(p, e, d)
    /\ closing' = [closing EXCEPT ![Api][e] = 1]
    /\ UNCHANGED <<procVars, tables, kind, registered, api, terminated, flock, scene, lockVars>>

---------------------------------------------------------------------------
(* Closing. *)

\* fd_close: out of the table first, then close_special_resource_if_needed.
Close(p, d) ==
    /\ ApiFree /\ p \in tables /\ held[p][d] > 0
    /\ held' = [held EXCEPT ![p][d] = @ - 1]
    /\ refs' = [refs EXCEPT ![d] = @ - 1]
    /\ closing' = [closing EXCEPT ![Api][d] = 1]
    /\ UNCHANGED <<procVars, tables, kind, registered, api, terminated, flock, scene, lockVars>>

\* close_special_resource_if_needed for one entry.  A count that has reached
\* zero stays zero, so reading it is one step with what follows.
MutCloseSpecial(c, d) ==
    /\ Locks!ReleaseOwner(c, d)
    /\ registered' = registered \ {d}
CloseSpecial(c, d) ==
    IF refs[d] = 0
    THEN Locks!ReleaseOwner(c, d) /\ registered' = registered \ {d}
    ELSE UNCHANGED <<registered, lockVars>>

CloseNext(c) ==
    /\ at[c] = "idle"
    /\ \E d \in Descs :
          /\ closing[c][d] > 0
          /\ closing' = [closing EXCEPT ![c][d] = @ - 1]
          /\ CloseSpecial(c, d)
    /\ UNCHANGED <<procVars, tableVars, api, terminated, flock, scene>>

\* The part of cleanup_process_resources under the mutex, run by closer c.
TakeTable(c, p) ==
    /\ closing' = [closing EXCEPT ![c] = held[p]]
    /\ held' = [held EXCEPT ![p] = Empty]
    /\ refs' = [d \in Descs |-> refs[d] - held[p][d]]
    /\ tables' = tables \ {p}

---------------------------------------------------------------------------
(* The end of a process.  mark_exited first publishes the status and runs  *)
(* the exit callback later, without the process table's mutex.             *)

Exit(p) ==
    /\ status[p] = "running"
    /\ status' = [status EXCEPT ![p] = "exited"]
    /\ exiting' = exiting \cup {p}
    /\ UNCHANGED <<tableVars, registered, closing, api, terminated, flock, scene, lockVars>>

ExitCallback(p) ==
    /\ p \in exiting
    /\ exiting' = exiting \ {p}
    /\ TakeTable(p, p)
    /\ UNCHANGED <<status, kind, registered, api, terminated, flock, scene, lockVars>>

\* waitpid returns as soon as the status is there, then cleans up as well.
Waitpid(p) ==
    /\ ApiFree /\ status[p] = "exited"
    /\ status' = [status EXCEPT ![p] = "reaped"]
    /\ api' = [op |-> "reap", pid |-> p]
    /\ UNCHANGED <<exiting, tableVars, registered, closing, terminated, flock, scene, lockVars>>

\* The zombie reaper takes the record out of the table and cleans up nothing.
\* Whether it may (the parent is not alive) is ProcessTable's concern.
ZombieReap(p) ==
    /\ status[p] = "exited"
    /\ status' = [status EXCEPT ![p] = "reaped"]
    /\ UNCHANGED <<exiting, tableVars, registered, closing, api, terminated, flock, scene, lockVars>>

WaitpidCleanup ==
    /\ api.op = "reap"
    /\ TakeTable(Api, api.pid)
    /\ api' = NoCall
    /\ UNCHANGED <<procVars, kind, registered, terminated, flock, scene, lockVars>>

\* dispose and drop: terminate_all runs the exit callbacks of the processes it
\* kills, and the tables left over are cleaned up after it.
DisposeKill ==
    LET running == {p \in Pids : status[p] = "running"} IN
    /\ ApiFree /\ ~terminated
    /\ status' = [p \in Pids |-> IF p \in running THEN "exited" ELSE status[p]]
    /\ exiting' = exiting \cup running
    /\ api' = [op |-> "terminate", killed |-> running]
    /\ UNCHANGED <<tableVars, registered, closing, terminated, flock, scene, lockVars>>

DisposeTables ==
    /\ api.op = "terminate"
    /\ \A p \in api.killed : p \notin exiting /\ Quiet(p)
    /\ api' = [op |-> "dispose", pids |-> tables]
    /\ UNCHANGED <<procVars, tableVars, registered, closing, terminated, flock, scene, lockVars>>

DisposeNext ==
    /\ api.op = "dispose" /\ Quiet(Api)
    /\ \E p \in api.pids :
          /\ TakeTable(Api, p)
          /\ api' = [api EXCEPT !.pids = @ \ {p}]
    /\ UNCHANGED <<procVars, kind, registered, terminated, flock, scene, lockVars>>

DisposeEnd ==
    /\ api.op = "dispose" /\ api.pids = {} /\ Quiet(Api)
    /\ terminated' = TRUE
    /\ api' = NoCall
    /\ UNCHANGED <<procVars, tableVars, registered, closing, flock, scene, lockVars>>

---------------------------------------------------------------------------
(* fd_flock: the entry is cloned under the fd_tables mutex and the lock is *)
(* applied after it is released.                                           *)

FlockEntry(th, p, d) ==
    /\ api = NoCall /\ Quiet(Api)
    /\ flock[th] = None /\ at[th] = "idle"
    /\ p \in tables /\ held[p][d] > 0 /\ kind[d] = "file"
    /\ flock' = [flock EXCEPT ![th] = d]
    /\ UNCHANGED <<procVars, tableVars, registered, closing, api, terminated, scene, lockVars>>

FlockApply(th) ==
    /\ flock[th] # None
    /\ flock' = [flock EXCEPT ![th] = None]
    /\ \/ \E mode \in Locks!Modes, nb \in BOOLEAN :
             Locks!Acquire(th, flock[th], "file", mode, nb)
       \/ Locks!ReleaseOwner(th, flock[th])
    /\ UNCHANGED <<procVars, tableVars, registered, closing, api, terminated, scene>>

LockStep(th) ==
    /\ Locks!AcquireWake(th) \/ Locks!NotifyAll(th)
    /\ UNCHANGED <<procVars, tableVars, registered, closing, api, terminated, flock, scene>>

SpuriousWake(th) ==
    /\ Locks!SpuriousWake(th)
    /\ UNCHANGED <<procVars, tableVars, registered, closing, api, terminated, flock, scene>>

---------------------------------------------------------------------------
ApiStep == SpawnAdmit \/ SpawnFork \/ WaitpidCleanup \/ DisposeTables \/ DisposeNext \/ DisposeEnd

Next ==
    \/ \E p \in {q \in Pids : status[q] # "unused"} \cup {0} : SpawnStart(p)
    \/ \E p \in Pids : Exit(p) \/ ExitCallback(p) \/ Waitpid(p) \/ ZombieReap(p)
    \/ \E p \in Pids : Open(p) \/ OpenPair(p)
    \/ \E p \in Pids, d \in Descs : Dup(p, d) \/ Close(p, d)
    \/ \E p \in Pids, d, e \in Descs : Dup2(p, d, e)
    \/ \E c \in Closers : CloseNext(c)
    \/ \E th \in scene.flockers, p \in Pids, d \in Descs : FlockEntry(th, p, d)
    \/ \E th \in Flockers : FlockApply(th)
    \/ \E th \in LockThreads : LockStep(th)
    \/ \E th \in Flockers : SpuriousWake(th)
    \/ ApiStep \/ DisposeKill

\* Threads that are not blocked are scheduled; nobody has to make another call.
Fairness ==
    /\ WF_vars(ApiStep)
    /\ \A p \in Pids : WF_vars(ExitCallback(p))
    /\ \A c \in Closers : WF_vars(CloseNext(c))
    /\ \A th \in LockThreads : WF_vars(LockStep(th))

Spec == Init /\ [][Next]_vars
FairSpec == Spec /\ Fairness

---------------------------------------------------------------------------
(* Properties. *)

\* Every variable has its type; a process without a table has no descriptors.
TypeOK ==
    /\ status \in [Pids -> {"unused", "running", "exited", "reaped"}]
    /\ exiting \subseteq {p \in Pids : status[p] \in {"exited", "reaped"}}
    /\ tables \subseteq {p \in Pids : status[p] # "unused"}
    /\ held \in [Pids -> [Descs -> Nat]]
    /\ \A p \in Pids \ tables : held[p] = Empty
    /\ refs \in [Descs -> Nat]
    /\ kind \in [Descs -> {"none", "char", "file"} \cup PairEnds]
    /\ registered \subseteq Descs
    /\ closing \in [Closers -> [Descs -> Nat]]
    /\ terminated \in BOOLEAN
    /\ flock \in [Flockers -> Descs \cup {None}]
    /\ Locks!TypeOK

\* A description's reference count is the number of descriptors that refer to
\* it, in all tables, whatever forks, duplicates, closes and exits there were; no
\* table outgrows max_fds, unless by the standard streams it starts with; and the
\* state is well typed.
RefCountExact ==
    /\ TypeOK
    /\ \A p \in Pids : Len(held[p]) <= scene.fds \/ Len(held[p]) <= NumStdio
    /\ \A d \in Descs : refs[d] = SumFunction([p \in Pids |-> held[p][d]])

\* An end of a pipe or PTY is registered as long as a descriptor refers to it:
\* no exit and no close of one copy closes it under the others.
EndsOpenWhileUsed ==
    \A d \in Descs : kind[d] \in PairEnds /\ refs[d] > 0 => d \in registered

\* The last close of an end reaches the pipe or PTY manager, which is what
\* delivers end-of-file to the other side.  Description ids are not used again,
\* so that this is so for each end if time and again no unused one is left.
\* (In a VM without max_open_fds, open_pipe and open_pty in a process whose
\* table is full leave both ends behind.)
LastCloseReachesEnd ==
    []<>(scene.limited => \A d \in registered : refs[d] > 0)

\* Closing one of several descriptors of a description, by fd_close, fd_dup2
\* or an exit, never releases its lock: as long as descriptors are left, only
\* an fd_flock of the description gives the lock up.
LockOutlivesOneClose ==
    [][flock' = flock =>
          \A d \in Locks!Holders("file") : refs[d] > 0 => d \in Locks!Holders("file")']_vars

\* The descriptors open in the VM stay within max_open_fds, though every check
\* of it is made before, and under another hold of the mutex than, the update it
\* admits.  The one exception is a child whose parent exits in between: it gets
\* fresh standard streams in place of the descriptors it was admitted with,
\* which takes a third process to exceed the limit.
LimitKept ==
    [][scene.limited /\ OpenFds <= scene.fds /\ OpenFds' > scene.fds
          => api.op = "fork" /\ api.parent \in Pids \ tables]_vars

\* The locks seen from the descriptors: an exclusive lock has one owner and
\* excludes shared ones, whatever is duplicated, forked or closed.
Exclusion == Locks!Exclusion

\* A sleeping fd_flock is never left behind by the release it waits for, be it a
\* LOCK_UN, a last close or an exit: a holder is left or a notify_all is due.
SleepersBlocked == Locks!SleepersBlocked

\* A blocked fd_flock whose file nobody else holds any more is granted: time and
\* again, every one that is still blocked is so by another description.
Served(th) == at[th] \in {"waiting", "woken"} => Locks!Holders("file") \ {request[th].owner} # {}
Granted == []<>(\A th \in Flockers : Served(th))

\* A closer still has to run close_special_resource_if_needed for d.
Pending(d) == \E c \in Closers : closing[c][d] > 0

\* An advisory lock is held only by a description that is open, or whose last
\* close is still on its way to the lock manager.
LocksReleasedOnLastClose ==
    \A d \in Locks!Holders("file") : refs[d] > 0 \/ Pending(d)
=============================================================================
