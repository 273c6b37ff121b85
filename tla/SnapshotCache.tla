--------------------------- MODULE SnapshotCache ---------------------------
(***************************************************************************)
(* The snapshot cache of the V8 runtime                                    *)
(* (crates/v8-runtime/src/snapshot.rs, SnapshotCache::get_or_create).      *)
(*                                                                         *)
(* Session threads ask for the snapshot of a bridge code.  The first one   *)
(* to miss claims the key and creates the snapshot without the cache lock; *)
(* the others wait on the condition variable of its InFlightEntry.  The    *)
(* most recently used entry is the last one.  A snapshot is represented by *)
(* the key of the code it was made from; hashing is assumed injective.     *)
(* The result of an InFlightEntry is kept with each thread that holds it.  *)
(***************************************************************************)
EXTENDS Naturals, Sequences

CONSTANTS
    Threads,     \* threads that call get_or_create
    Keys,        \* hashes of bridge codes
    MaxEntries,  \* capacity of the cache
    None,        \* no thread
    Pending,     \* an InFlightEntry without result
    Failed       \* create_snapshot returned an error

ASSUME CacheAssumption ==
    /\ MaxEntries \in Nat \ {0}
    /\ None \notin Threads
    /\ Pending \notin Keys \cup {Failed}
    /\ Failed \notin Keys

VARIABLES
    entries,   \* CacheInner.entries
    inFlight,  \* CacheInner.in_flight: the thread that creates the key's snapshot
    pc,        \* where each thread is in get_or_create
    key,       \* the hash it asks for
    result     \* what it has: a snapshot, an error, or nothing yet

vars == <<entries, inFlight, pc, key, result>>

Init ==
    /\ entries = <<>>
    /\ inFlight = [k \in Keys |-> None]
    /\ pc = [t \in Threads |-> "idle"]
    /\ key \in [Threads -> Keys]
    /\ result = [t \in Threads |-> Pending]

\* remove(pos) and push: the entry becomes the most recently used one.
MoveToEnd(s, i) ==
    [j \in 1 .. Len(s) |-> IF j < i THEN s[j] ELSE IF j < Len(s) THEN s[j + 1] ELSE s[i]]

\* Insertion evicts the least recently used entry of a full cache.
Inserted(s, k) == Append(IF Len(s) >= MaxEntries THEN Tail(s) ELSE s, k)

GetOrCreate(t, k) ==
    /\ pc[t] = "idle"
    /\ pc' = [pc EXCEPT ![t] = "lookup"]
    /\ key' = [key EXCEPT ![t] = k]
    /\ result' = [result EXCEPT ![t] = Pending]
    /\ UNCHANGED <<entries, inFlight>>

\* Phase 1, under the cache lock: a hit,
Hit(t) ==
    /\ pc[t] = "lookup"
    /\ \E i \in 1 .. Len(entries) :
          /\ entries[i] = key[t]
          /\ entries' = MoveToEnd(entries, i)
    /\ pc' = [pc EXCEPT ![t] = "done"]
    /\ result' = [result EXCEPT ![t] = key[t]]
    /\ UNCHANGED <<inFlight, key>>

Misses(t) == pc[t] = "lookup" /\ \A i \in 1 .. Len(entries) : entries[i] # key[t]

\* ... a creation in flight to wait for,
JoinFlight(t) ==
    /\ Misses(t)
    /\ inFlight[key[t]] # None
    /\ pc' = [pc EXCEPT ![t] = "joined"]
    /\ UNCHANGED <<entries, inFlight, key, result>>

\* A variant that does not look for a creation in flight.
MutFree(k) == TRUE

Free(k) == inFlight[k] = None

\* ... or a claim.
Claim(t) ==
    /\ Misses(t)
    /\ Free(key[t])
    /\ inFlight' = [inFlight EXCEPT ![key[t]] = t]
    /\ pc' = [pc EXCEPT ![t] = "create"]
    /\ UNCHANGED <<entries, key, result>>

\* The wait loop, under the lock of the InFlightEntry.
Wait(t) ==
    /\ pc[t] = "joined"
    /\ pc' = [pc EXCEPT ![t] = IF result[t] = Pending THEN "asleep" ELSE "done"]
    /\ UNCHANGED <<entries, inFlight, key, result>>

\* Phase 2, without the cache lock.
Create(t) ==
    /\ pc[t] = "create"
    /\ \E r \in {key[t], Failed} : result' = [result EXCEPT ![t] = r]
    /\ pc' = [pc EXCEPT ![t] = "publish"]
    /\ UNCHANGED <<entries, inFlight, key>>

\* A variant that publishes to the waiters of every key.
MutWaits(u, t) == pc[u] \in {"joined", "asleep"} /\ result[u] = Pending

\* The threads that hold the InFlightEntry of the creation.
Waits(u, t) == key[u] = key[t] /\ pc[u] \in {"joined", "asleep"} /\ result[u] = Pending

\* A variant without notify_all.
MutWoken(u, t) == FALSE

Woken(u, t) == pc[u] = "asleep" /\ Waits(u, t)

\* Phase 3, under the cache lock: insert, take the claim back, publish, notify.
Publish(t) ==
    /\ pc[t] = "publish"
    /\ entries' = IF result[t] # Failed THEN Inserted(entries, key[t]) ELSE entries
    /\ inFlight' = [inFlight EXCEPT ![key[t]] = None]
    /\ result' = [u \in Threads |-> IF Waits(u, t) THEN result[t] ELSE result[u]]
    /\ pc' = [u \in Threads |-> IF u = t THEN "done" ELSE IF Woken(u, t) THEN "joined" ELSE pc[u]]
    /\ UNCHANGED key

Return(t) ==
    /\ pc[t] = "done"
    /\ pc' = [pc EXCEPT ![t] = "idle"]
    /\ UNCHANGED <<entries, inFlight, key, result>>

Step(t) == Hit(t) \/ JoinFlight(t) \/ Claim(t) \/ Wait(t) \/ Create(t) \/ Publish(t) \/ Return(t)

Next == \E t \in Threads : Step(t) \/ \E k \in Keys : GetOrCreate(t, k)

Spec == Init /\ [][Next]_vars

\* Every thread that is in get_or_create and can step does.
FairSpec == Spec /\ \A t \in Threads : WF_vars(Step(t))

-----------------------------------------------------------------------------
\* Every variable has the type of the field it stands for (SnapshotCache).
TypeOK ==
    /\ entries \in Seq(Keys)
    /\ inFlight \in [Keys -> Threads \cup {None}]
    /\ pc \in [Threads -> {"idle", "lookup", "joined", "asleep", "create", "publish", "done"}]
    /\ key \in [Threads -> Keys]
    /\ result \in [Threads -> Keys \cup {Pending, Failed}]

\* The cache holds at most max_entries snapshots, each key once, and no key
\* whose snapshot is still being created.
CacheExact ==
    /\ Len(entries) <= MaxEntries
    /\ \A i, j \in 1 .. Len(entries) : entries[i] = entries[j] => i = j
    /\ \A k \in Keys : inFlight[k] # None => \A i \in 1 .. Len(entries) : entries[i] # k

\* No snapshot is created twice at once: two threads that create have
\* different keys ("prevents duplicate snapshot creation").
SingleFlight ==
    \A t, u \in Threads :
       pc[t] \in {"create", "publish"} /\ pc[u] \in {"create", "publish"} /\ key[t] = key[u] => t = u

\* A call that returns has the snapshot of its own code or an error, never the
\* placeholder or another code's snapshot.
OwnSnapshot == \A t \in Threads : pc[t] = "done" => result[t] \in {key[t], Failed}

\* A thread sleeps on an InFlightEntry only while some thread is at work on its
\* key: the publication reaches every sleeper, the claim is not given back
\* before it.
NoOversleep ==
    \A t \in Threads :
       pc[t] = "asleep" =>
          /\ result[t] = Pending
          /\ \E u \in Threads : key[u] = key[t] /\ pc[u] \in {"create", "publish"}

\* Every call returns, whether it hits, waits or creates.
CallReturns == \A t \in Threads : pc[t] = "lookup" ~> pc[t] = "done"
=============================================================================
