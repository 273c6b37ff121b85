-------------------------- MODULE FileLocksProofs --------------------------
(***************************************************************************)
(* Proofs about FileLocks, for every set of descriptions, files and        *)
(* threads.                                                                *)
(***************************************************************************)
EXTENDS FileLocks, TLAPS

---------------------------------------------------------------------------
\* One round of acquire keeps the types.
LEMMA AcquireLoopType ==
    ASSUME TypeOK, NEW th \in Threads, NEW r \in Request, AcquireLoop(th, r)
    PROVE  TypeOK'
<1>1. r.owner \in Owners /\ r.target \in Targets
  BY DEF Request
<1>2. shared' \in [Targets -> SUBSET Owners] /\ exclusive' \in [Targets -> SUBSET Owners]
  BY <1>1 DEF AcquireLoop, Grant, TypeOK
<1>3. /\ at' \in [Threads -> {"idle", "waiting", "woken", "notifying"}]
      /\ request' \in [Threads -> Request \cup {NoRequest}]
      /\ \A u \in Threads : at'[u] \in {"waiting", "woken"} => request'[u] \in Request
  <2>1. CASE /\ at' = [at EXCEPT ![th] = "idle"]
             /\ request' = [request EXCEPT ![th] = NoRequest]
    BY <2>1 DEF TypeOK
  <2>2. CASE /\ at' = [at EXCEPT ![th] = "waiting"]
             /\ request' = [request EXCEPT ![th] = r]
    BY <2>2 DEF TypeOK
  <2>3. QED
    BY <2>1, <2>2 DEF AcquireLoop
<1>4. QED
  BY <1>2, <1>3 DEF TypeOK

\* The type invariant is inductive.
LEMMA NextType ==
    ASSUME TypeOK, Next
    PROVE  TypeOK'
<1>1. ASSUME NEW th \in Threads, NEW o \in Owners, NEW t \in Targets, NEW mode \in Modes,
             NEW nb \in BOOLEAN, Acquire(th, o, t, mode, nb)
      PROVE  TypeOK'
  <2> DEFINE r == [owner |-> o, target |-> t, mode |-> mode, nonblocking |-> nb]
  <2>1. r \in Request
    BY DEF Request
  <2>2. AcquireLoop(th, r)
    BY <1>1 DEF Acquire
  <2>3. QED
    BY <2>1, <2>2, AcquireLoopType
<1>2. ASSUME NEW th \in Threads, NEW o \in Owners, ReleaseOwner(th, o) PROVE TypeOK'
  BY <1>2 DEF ReleaseOwner, NextAfterRelease, TypeOK
<1>3. ASSUME NEW th \in Threads, AcquireWake(th) PROVE TypeOK'
  <2>1. request[th] \in Request
    BY <1>3 DEF AcquireWake, TypeOK
  <2>2. QED
    BY <1>3, <2>1, AcquireLoopType DEF AcquireWake
<1>4. ASSUME NEW th \in Threads, NotifyAll(th) PROVE TypeOK'
  BY <1>4 DEF NotifyAll, TypeOK
<1>5. ASSUME NEW th \in Threads, SpuriousWake(th) PROVE TypeOK'
  BY <1>5 DEF SpuriousWake, TypeOK
<1>6. QED
  BY <1>1, <1>2, <1>3, <1>4, <1>5 DEF Next

---------------------------------------------------------------------------
(***************************************************************************)
(* Exclusion and SleepersBlocked are inductive together with the types:    *)
(* that an exclusive grant leaves no shared owner needs that CanGrant saw  *)
(* only the requester, and that a sleeping request keeps its blocker needs *)
(* that a grant never takes a lock away from another description.          *)
(***************************************************************************)
LocksInv == TypeOK /\ Exclusion /\ SleepersBlocked

\* A grant keeps exclusion and takes no lock away from anybody.
LEMMA GrantKeeps ==
    ASSUME TypeOK, Exclusion, NEW o \in Owners, NEW t \in Targets, NEW mode \in Modes,
           CanGrant(o, t, mode), Grant(o, t, mode)
    PROVE  /\ Exclusion'
           /\ \A f \in Targets : Holders(f) \subseteq Holders(f)'
<1>1. CASE mode = "shared"
  <2>1. /\ exclusive' = [exclusive EXCEPT ![t] = {}]
        /\ shared' = [shared EXCEPT ![t] = @ \cup {o}]
        /\ exclusive[t] \subseteq {o}
    BY <1>1 DEF Grant, CanGrant
  <2>2. QED
    BY <2>1 DEF TypeOK, Exclusion, Holders
<1>2. CASE mode = "exclusive"
  <2>1. /\ shared' = [shared EXCEPT ![t] = @ \ {o}]
        /\ exclusive' = [exclusive EXCEPT ![t] = {o}]
        /\ exclusive[t] \subseteq {o} /\ shared[t] \subseteq {o}
    BY <1>2 DEF Grant, CanGrant
  <2>2. QED
    BY <2>1 DEF TypeOK, Exclusion, Holders
<1>3. QED
  BY <1>1, <1>2 DEF Modes

\* One round of acquire keeps both properties, entered anew or on waking.
LEMMA AcquireLoopLocks ==
    ASSUME LocksInv, NEW th \in Threads, NEW r \in Request, at[th] # "notifying",
           AcquireLoop(th, r)
    PROVE  Exclusion' /\ SleepersBlocked'
<1>0. /\ r.owner \in Owners /\ r.target \in Targets /\ r.mode \in Modes
      /\ TypeOK /\ Exclusion /\ SleepersBlocked
  BY DEF Request, LocksInv
<1>1. \A u \in Threads \ {th} : at'[u] = at[u] /\ request'[u] = request[u]
  BY <1>0 DEF AcquireLoop, TypeOK
<1>2. \A u \in Threads : at[u] = "notifying" => at'[u] = "notifying"
  BY <1>1
<1>3. \A u \in Threads : at[u] = "waiting" => request[u].target \in Targets
  BY <1>0 DEF TypeOK, Request
<1>4. Exclusion' /\ \A f \in Targets : Holders(f) \subseteq Holders(f)'
  <2>1. CASE CanGrant(r.owner, r.target, r.mode)
    BY <1>0, <2>1, GrantKeeps DEF AcquireLoop
  <2>2. CASE ~CanGrant(r.owner, r.target, r.mode)
    BY <1>0, <2>2 DEF AcquireLoop, Exclusion, Holders
  <2>3. QED
    BY <2>1, <2>2
<1>5. at'[th] = "waiting" => /\ request'[th] = r
                             /\ Holders(r.target) \ {r.owner} # {}
  <2>1. CASE CanGrant(r.owner, r.target, r.mode)
    BY <1>0, <2>1 DEF AcquireLoop, TypeOK
  <2>2. CASE ~CanGrant(r.owner, r.target, r.mode)
    <3>1. Holders(r.target) \ {r.owner} # {}
      BY <2>2 DEF CanGrant, Holders
    <3>2. at'[th] = "waiting" => request'[th] = r
      BY <1>0, <2>2 DEF AcquireLoop, TypeOK
    <3>3. QED
      BY <3>1, <3>2
  <2>3. QED
    BY <2>1, <2>2
<1>6. SleepersBlocked'
  <2> SUFFICES ASSUME NEW u \in Threads, at'[u] = "waiting"
               PROVE  \/ Holders(request[u].target)' \ {request'[u].owner} # {}
                      \/ \E v \in Threads : at'[v] = "notifying"
    BY DEF SleepersBlocked
  <2>1. CASE u = th
    BY <1>0, <1>4, <1>5, <2>1 DEF Holders
  <2>2. CASE u # th
    <3>1. at[u] = "waiting" /\ request'[u] = request[u]
      BY <1>1, <2>2
    <3>2. CASE \E v \in Threads : at[v] = "notifying"
      BY <1>2, <3>2
    <3>3. CASE Holders(request[u].target) \ {request[u].owner} # {}
      BY <1>3, <1>4, <3>1, <3>3 DEF Holders
    <3>4. QED
      BY <1>0, <3>1, <3>2, <3>3 DEF SleepersBlocked
  <2>3. QED
    BY <2>1, <2>2
<1>7. QED
  BY <1>4, <1>6

\* The invariant is inductive.
LEMMA NextLocks ==
    ASSUME LocksInv, Next
    PROVE  LocksInv'
<1>0. TypeOK /\ Exclusion /\ SleepersBlocked /\ TypeOK'
  BY NextType DEF LocksInv
<1>1. ASSUME NEW th \in Threads, NEW o \in Owners, NEW t \in Targets, NEW mode \in Modes,
             NEW nb \in BOOLEAN, Acquire(th, o, t, mode, nb)
      PROVE  Exclusion' /\ SleepersBlocked'
  <2> DEFINE r == [owner |-> o, target |-> t, mode |-> mode, nonblocking |-> nb]
  <2>1. r \in Request
    BY DEF Request
  <2>2. AcquireLoop(th, r) /\ at[th] # "notifying"
    BY <1>1 DEF Acquire
  <2>3. QED
    BY <2>1, <2>2, AcquireLoopLocks
<1>2. ASSUME NEW th \in Threads, NEW o \in Owners, ReleaseOwner(th, o)
      PROVE  Exclusion' /\ SleepersBlocked'
  <2>1. Exclusion'
    BY <1>0, <1>2 DEF ReleaseOwner, Exclusion
  <2>2. CASE \E t \in Targets : o \in Holders(t)
    <3>1. at'[th] = "notifying"
      BY <1>0, <1>2, <2>2 DEF ReleaseOwner, NextAfterRelease, TypeOK
    <3>2. QED
      BY <2>1, <3>1 DEF SleepersBlocked
  <2>3. CASE ~ \E t \in Targets : o \in Holders(t)
    <3>1. at' = [at EXCEPT ![th] = "idle"] /\ request' = request /\ at[th] = "idle"
      BY <1>2, <2>3 DEF ReleaseOwner, NextAfterRelease
    <3>2. shared' = shared /\ exclusive' = exclusive
      BY <1>0, <1>2, <2>3 DEF ReleaseOwner, Holders, TypeOK
    <3>3. at' = at
      BY <1>0, <3>1 DEF TypeOK
    <3>4. QED
      BY <1>0, <2>1, <3>1, <3>2, <3>3 DEF SleepersBlocked, Holders
  <2>4. QED
    BY <2>2, <2>3
<1>3. ASSUME NEW th \in Threads, AcquireWake(th) PROVE Exclusion' /\ SleepersBlocked'
  <2>1. request[th] \in Request /\ at[th] # "notifying"
    BY <1>0, <1>3 DEF AcquireWake, TypeOK
  <2>2. QED
    BY <1>3, <2>1, AcquireLoopLocks DEF AcquireWake
<1>4. ASSUME NEW th \in Threads, NotifyAll(th) PROVE Exclusion' /\ SleepersBlocked'
  <2>1. Exclusion'
    BY <1>0, <1>4 DEF NotifyAll, Exclusion
  <2>2. \A u \in Threads : at'[u] # "waiting"
    BY <1>0, <1>4 DEF NotifyAll, TypeOK
  <2>3. QED
    BY <2>1, <2>2 DEF SleepersBlocked
<1>5. ASSUME NEW th \in Threads, SpuriousWake(th) PROVE Exclusion' /\ SleepersBlocked'
  <2>1. Exclusion'
    BY <1>0, <1>5 DEF SpuriousWake, Exclusion
  <2>2. \A u \in Threads : /\ at'[u] = "waiting" => at[u] = "waiting"
                           /\ at[u] = "notifying" => at'[u] = "notifying"
    BY <1>0, <1>5 DEF SpuriousWake, TypeOK
  <2>3. SleepersBlocked'
    BY <1>0, <1>5, <2>2 DEF SpuriousWake, SleepersBlocked, Holders
  <2>4. QED
    BY <2>1, <2>3
<1>6. Exclusion' /\ SleepersBlocked'
  BY <1>1, <1>2, <1>3, <1>4, <1>5 DEF Next
<1>7. QED
  BY <1>0, <1>6 DEF LocksInv

\* For every number of descriptions, files and threads: exclusive locks
\* exclude, and no release of a lock is missed by a sleeping request.
THEOREM LocksCorrect == Spec => [](TypeOK /\ Exclusion /\ SleepersBlocked)
<1>1. Init => LocksInv
  BY DEF Init, LocksInv, TypeOK, Exclusion, SleepersBlocked
<1>2. LocksInv /\ UNCHANGED vars => LocksInv'
  BY DEF LocksInv, TypeOK, Exclusion, SleepersBlocked, Holders, vars
<1>3. LocksInv => TypeOK /\ Exclusion /\ SleepersBlocked
  BY DEF LocksInv
<1>4. QED
  BY <1>1, <1>2, <1>3, NextLocks, PTL DEF Spec
=============================================================================
