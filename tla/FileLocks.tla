------------------------------ MODULE FileLocks ------------------------------
(***************************************************************************)
(* Advisory file locks: FileLockManager in crates/kernel/src/fd_table.rs.  *)
(*                                                                         *)
(* A lock belongs to an open file description (its owner), not to the      *)
(* thread that asked for it.  acquire runs under the manager's mutex until *)
(* it returns or waits on the condition variable, which is one step here.  *)
(* release_owner drops the mutex before it notifies, which makes it two.   *)
(* An entry with no holder and a missing entry are the same state.         *)
(***************************************************************************)
EXTENDS Naturals, FiniteSets

CONSTANTS
    Owners,    \* description ids
    Targets,   \* inodes that can be locked
    Threads    \* threads inside fd_flock or a close

Modes == {"shared", "exclusive"}
NoRequest == [mode |-> "none"]

VARIABLES
    shared,     \* per target, the owners of a shared lock
    exclusive,  \* per target, the owner of the exclusive lock, as a set
    at,         \* per thread: "idle", "waiting" on the condvar, "woken", or
                \* "notifying" (released, notify_all still to come)
    request     \* per thread, the arguments of the acquire in progress

vars == <<shared, exclusive, at, request>>

Holders(t) == shared[t] \cup exclusive[t]

Init ==
    /\ shared = [t \in Targets |-> {}]
    /\ exclusive = [t \in Targets |-> {}]
    /\ at = [th \in Threads |-> "idle"]
    /\ request = [th \in Threads |-> NoRequest]

---------------------------------------------------------------------------
MutCanGrant(o, t, mode) == exclusive[t] \subseteq {o}
CanGrant(o, t, mode) ==
    /\ exclusive[t] \subseteq {o}
    /\ mode = "exclusive" => shared[t] \subseteq {o}

\* A shared grant also ends the owner's exclusive lock, an exclusive one its
\* shared lock.  Neither notifies.
Grant(o, t, mode) ==
    IF mode = "shared"
    THEN /\ exclusive' = [exclusive EXCEPT ![t] = {}]
         /\ shared' = [shared EXCEPT ![t] = @ \cup {o}]
    ELSE /\ shared' = [shared EXCEPT ![t] = @ \ {o}]
         /\ exclusive' = [exclusive EXCEPT ![t] = {o}]

\* One round of the loop of acquire.
AcquireLoop(th, r) ==
    IF CanGrant(r.owner, r.target, r.mode)
    THEN /\ Grant(r.owner, r.target, r.mode)
         /\ at' = [at EXCEPT ![th] = "idle"]
         /\ request' = [request EXCEPT ![th] = NoRequest]
    ELSE /\ IF r.nonblocking   \* EWOULDBLOCK
            THEN /\ at' = [at EXCEPT ![th] = "idle"]
                 /\ request' = [request EXCEPT ![th] = NoRequest]
            ELSE /\ at' = [at EXCEPT ![th] = "waiting"]
                 /\ request' = [request EXCEPT ![th] = r]
         /\ UNCHANGED <<shared, exclusive>>

Acquire(th, o, t, mode, nonblocking) ==
    /\ at[th] = "idle"
    /\ AcquireLoop(th, [owner |-> o, target |-> t, mode |-> mode,
                        nonblocking |-> nonblocking])

AcquireWake(th) ==
    /\ at[th] = "woken"
    /\ AcquireLoop(th, request[th])

\* release_owner: LOCK_UN, or the last close of the description.  It releases
\* the owner's locks on every target, and notifies only if there was one.
MutNextAfterRelease(held) == "idle"
NextAfterRelease(held) == IF held THEN "notifying" ELSE "idle"

ReleaseOwner(th, o) ==
    /\ at[th] = "idle"
    /\ shared' = [t \in Targets |-> shared[t] \ {o}]
    /\ exclusive' = [t \in Targets |-> exclusive[t] \ {o}]
    /\ at' = [at EXCEPT ![th] = NextAfterRelease(\E t \in Targets : o \in Holders(t))]
    /\ UNCHANGED request

NotifyAll(th) ==
    /\ at[th] = "notifying"
    /\ at' = [u \in Threads |-> IF u = th THEN "idle"
                                ELSE IF at[u] = "waiting" THEN "woken" ELSE at[u]]
    /\ UNCHANGED <<shared, exclusive, request>>

\* std::sync::Condvar may wake a thread nobody notified.
SpuriousWake(th) ==
    /\ at[th] = "waiting"
    /\ at' = [at EXCEPT ![th] = "woken"]
    /\ UNCHANGED <<shared, exclusive, request>>

Next ==
    \/ \E th \in Threads, o \in Owners, t \in Targets, mode \in Modes, nb \in BOOLEAN :
          Acquire(th, o, t, mode, nb)
    \/ \E th \in Threads, o \in Owners : ReleaseOwner(th, o)
    \/ \E th \in Threads : AcquireWake(th) \/ NotifyAll(th) \/ SpuriousWake(th)

Spec == Init /\ [][Next]_vars

---------------------------------------------------------------------------
Request == [owner : Owners, target : Targets, mode : Modes, nonblocking : BOOLEAN]

\* Every variable has its type, and a thread has a request exactly while it
\* waits for a lock.
TypeOK ==
    /\ shared \in [Targets -> SUBSET Owners]
    /\ exclusive \in [Targets -> SUBSET Owners]
    /\ at \in [Threads -> {"idle", "waiting", "woken", "notifying"}]
    /\ request \in [Threads -> Request \cup {NoRequest}]
    /\ \A th \in Threads : at[th] \in {"waiting", "woken"} => request[th] \in Request

\* An exclusive lock has one owner and excludes every shared lock, through
\* upgrades, downgrades and re-acquisitions by the same description.
Exclusion ==
    \A t \in Targets :
        /\ \A o, p \in exclusive[t] : o = p
        /\ exclusive[t] # {} => shared[t] = {}

\* No release is missed: as long as a request sleeps, some other description
\* holds its target or a notify_all is on its way.  (A downgrade from
\* exclusive to shared does not notify, so a sleeping shared request may be
\* compatible with the holders it waits for.)
SleepersBlocked ==
    \A th \in Threads : at[th] = "waiting" =>
        \/ Holders(request[th].target) \ {request[th].owner} # {}
        \/ \E u \in Threads : at[u] = "notifying"
=============================================================================
