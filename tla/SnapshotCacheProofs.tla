------------------------ MODULE SnapshotCacheProofs ------------------------
(***************************************************************************)
(* The safety properties of SnapshotCache, for any number of threads and   *)
(* keys and any capacity of the cache.                                     *)
(***************************************************************************)
EXTENDS SnapshotCache, TLAPS, SequenceTheorems

\* The claims: a key is in flight exactly for the thread that creates it.
Claims ==
    \A k \in Keys, t \in Threads :
       inFlight[k] = t <=> pc[t] \in {"create", "publish"} /\ key[t] = k

\* A thread that waits without a result waits for a claim that still stands.
WaitersBacked ==
    \A t \in Threads :
       /\ pc[t] \in {"joined", "asleep"} /\ result[t] = Pending => inFlight[key[t]] # None
       /\ pc[t] = "asleep" => result[t] = Pending

\* What a thread has at each stage of the call.
Results ==
    \A t \in Threads :
       /\ pc[t] = "lookup" => result[t] = Pending
       /\ pc[t] = "joined" => result[t] \in {key[t], Failed, Pending}
       /\ pc[t] \in {"publish", "done"} => result[t] \in {key[t], Failed}

IInv == TypeOK /\ CacheExact /\ Claims /\ WaitersBacked /\ Results

-----------------------------------------------------------------------------
\* Moving an entry to the end permutes the entries.
LEMMA MoveToEndFacts ==
    ASSUME NEW s \in Seq(Keys), NEW i \in 1 .. Len(s),
           \A p, q \in 1 .. Len(s) : s[p] = s[q] => p = q
    PROVE  /\ MoveToEnd(s, i) \in Seq(Keys)
           /\ Len(MoveToEnd(s, i)) = Len(s)
           /\ \A p, q \in 1 .. Len(s) : MoveToEnd(s, i)[p] = MoveToEnd(s, i)[q] => p = q
           /\ \A p \in 1 .. Len(s) : \E q \in 1 .. Len(s) : MoveToEnd(s, i)[p] = s[q]
<1> DEFINE m == MoveToEnd(s, i)
<1> DEFINE at(j) == IF j < i THEN j ELSE IF j < Len(s) THEN j + 1 ELSE i
<1>1. Len(s) \in Nat  OBVIOUS
<1>2. \A j \in 1 .. Len(s) : at(j) \in 1 .. Len(s)
  BY <1>1
<1>3. m = [j \in 1 .. Len(s) |-> s[at(j)]]
  BY DEF MoveToEnd
<1>4. \A j \in 1 .. Len(s) : m[j] = s[at(j)] /\ s[at(j)] \in Keys
  <2> HIDE DEF at
  <2>1. \A j \in 1 .. Len(s) : s[j] \in Keys  OBVIOUS
  <2>2. QED  BY <1>2, <1>3, <2>1 DEF m
<1>5. m \in Seq(Keys) /\ Len(m) = Len(s)
  <2> HIDE DEF at
  <2>1. m \in [1 .. Len(s) -> Keys]  BY <1>3, <1>4
  <2>2. QED  BY <1>1, <2>1, <1>3
<1>6. \A p, q \in 1 .. Len(s) : at(p) = at(q) => p = q
  BY <1>1
<1> QED
  <2> HIDE DEF at, m
  <2>1. \A p, q \in 1 .. Len(s) : m[p] = m[q] => p = q
    BY <1>2, <1>4, <1>6
  <2>2. \A p \in 1 .. Len(s) : \E q \in 1 .. Len(s) : m[p] = s[q]
    BY <1>2, <1>4
  <2>3. QED  BY <1>5, <2>1, <2>2 DEF m

\* Inserting a new key keeps the entries distinct and within the capacity.
LEMMA InsertedFacts ==
    ASSUME NEW s \in Seq(Keys), NEW k \in Keys, Len(s) <= MaxEntries,
           \A p, q \in 1 .. Len(s) : s[p] = s[q] => p = q,
           \A p \in 1 .. Len(s) : s[p] # k
    PROVE  /\ Inserted(s, k) \in Seq(Keys)
           /\ Len(Inserted(s, k)) <= MaxEntries
           /\ \A p, q \in 1 .. Len(Inserted(s, k)) : Inserted(s, k)[p] = Inserted(s, k)[q] => p = q
           /\ \A p \in 1 .. Len(Inserted(s, k)) :
                 Inserted(s, k)[p] = k \/ \E q \in 1 .. Len(s) : Inserted(s, k)[p] = s[q]
<1> DEFINE r == IF Len(s) >= MaxEntries THEN Tail(s) ELSE s
<1> DEFINE d == IF Len(s) >= MaxEntries THEN 1 ELSE 0
<1>1. Len(s) \in Nat /\ MaxEntries \in Nat \ {0}  BY CacheAssumption
<1>2. /\ r \in Seq(Keys)
      /\ Len(r) = Len(s) - d
      /\ Len(r) \in Nat
      /\ \A p \in 1 .. Len(r) : r[p] = s[p + d] /\ p + d \in 1 .. Len(s)
  <2>1. CASE Len(s) >= MaxEntries
    <3>1. s # <<>>  BY <1>1, <2>1
    <3>2. r = Tail(s) /\ d = 1  BY <2>1
    <3>3. Tail(s) \in Seq(Keys) /\ Len(Tail(s)) = Len(s) - 1 BY <3>1
    <3>4. \A p \in 1 .. Len(Tail(s)) : Tail(s)[p] = s[p + 1]  BY <3>1, <3>3, <1>1
    <3>5. QED  BY <1>1, <3>2, <3>3, <3>4, <2>1
  <2>2. CASE ~ (Len(s) >= MaxEntries)
    <3>1. r = s /\ d = 0  BY <2>2
    <3>2. QED  BY <1>1, <3>1
  <2>3. QED  BY <2>1, <2>2
<1>3. Inserted(s, k) = Append(r, k)  BY DEF Inserted
<1>4. Len(r) + 1 <= MaxEntries  BY <1>1, <1>2
<1> HIDE DEF r, d
<1>5. d \in {0, 1}  BY DEF d
<1>6. /\ Append(r, k) \in Seq(Keys)
      /\ Len(Append(r, k)) = Len(r) + 1
      /\ Append(r, k)[Len(r) + 1] = k
      /\ \A p \in 1 .. Len(r) : Append(r, k)[p] = r[p]
  BY <1>2
<1>7. \A p \in 1 .. Len(r) : Append(r, k)[p] = s[p + d] /\ p + d \in 1 .. Len(s)
  BY <1>2, <1>6
<1>8. \A p \in 1 .. Len(r) + 1 : p = Len(r) + 1 \/ p \in 1 .. Len(r)  BY <1>2
<1> DEFINE n == Append(r, k)
<1> HIDE DEF n
<1>9. \A p, q \in 1 .. Len(r) + 1 : n[p] = n[q] => p = q
  <2> SUFFICES ASSUME NEW p \in 1 .. Len(r) + 1, NEW q \in 1 .. Len(r) + 1, n[p] = n[q]
               PROVE  p = q
    OBVIOUS
  <2>1. CASE p = Len(r) + 1 /\ q # Len(r) + 1  BY <2>1, <1>6, <1>7, <1>8 DEF n
  <2>2. CASE q = Len(r) + 1 /\ p # Len(r) + 1  BY <2>2, <1>6, <1>7, <1>8 DEF n
  <2>3. CASE p # Len(r) + 1 /\ q # Len(r) + 1
    <3>1. p \in 1 .. Len(r) /\ q \in 1 .. Len(r)  BY <2>3, <1>8
    <3>2. s[p + d] = s[q + d] /\ p + d \in 1 .. Len(s) /\ q + d \in 1 .. Len(s)
      BY <3>1, <1>7 DEF n
    <3>3. p + d = q + d  BY <3>2
    <3>4. QED  BY <3>3, <3>1, <1>5, <1>2
  <2>4. QED  BY <2>1, <2>2, <2>3
<1>10. \A p \in 1 .. Len(r) + 1 : n[p] = k \/ \E q \in 1 .. Len(s) : n[p] = s[q]
  BY <1>6, <1>7, <1>8 DEF n
<1> QED  BY <1>3, <1>4, <1>6, <1>9, <1>10 DEF n

-----------------------------------------------------------------------------
\* An empty cache has no creations and no waiters.
LEMMA InitIInv == Init => IInv
<1> SUFFICES ASSUME Init PROVE IInv  OBVIOUS
<1>1. TypeOK  BY DEF Init, TypeOK
<1>2. CacheExact  BY CacheAssumption DEF Init, CacheExact
<1>3. Claims /\ WaitersBacked /\ Results  BY CacheAssumption DEF Init, Claims, WaitersBacked, Results
<1> QED  BY <1>1, <1>2, <1>3 DEF IInv

\* A new call changes nothing but the caller's own state, which was idle.
LEMMA GetOrCreatePreserves ==
    ASSUME IInv, NEW t \in Threads, NEW k \in Keys, GetOrCreate(t, k)
    PROVE  IInv'
<1> USE DEF IInv, GetOrCreate
<1>1. TypeOK'  BY DEF TypeOK
<1>2. CacheExact'  BY DEF CacheExact
<1>3. Claims'  BY DEF Claims, TypeOK
<1>4. WaitersBacked'  BY DEF WaitersBacked, TypeOK
<1>5. Results'  BY DEF Results, TypeOK
<1> QED  BY <1>1, <1>2, <1>3, <1>4, <1>5

\* A hit moves an entry to the end of the list.
LEMMA HitPreserves ==
    ASSUME IInv, NEW t \in Threads, Hit(t)
    PROVE  IInv'
<1>1. PICK i \in 1 .. Len(entries) : entries[i] = key[t] /\ entries' = MoveToEnd(entries, i)
  BY DEF Hit
<1>2. /\ MoveToEnd(entries, i) \in Seq(Keys)
      /\ Len(MoveToEnd(entries, i)) = Len(entries)
      /\ \A p, q \in 1 .. Len(entries) : MoveToEnd(entries, i)[p] = MoveToEnd(entries, i)[q] => p = q
      /\ \A p \in 1 .. Len(entries) : \E q \in 1 .. Len(entries) : MoveToEnd(entries, i)[p] = entries[q]
  BY MoveToEndFacts DEF IInv, TypeOK, CacheExact
<1>3. TypeOK'
  BY <1>1, <1>2 DEF IInv, TypeOK, Hit
<1>4. CacheExact'
  <2>1. Len(entries') <= MaxEntries  BY <1>1, <1>2 DEF IInv, CacheExact
  <2>2. \A p, q \in 1 .. Len(entries') : entries'[p] = entries'[q] => p = q  BY <1>1, <1>2
  <2>3. ASSUME NEW k \in Keys, inFlight'[k] # None, NEW p \in 1 .. Len(entries')
        PROVE  entries'[p] # k
    <3>1. inFlight' = inFlight  BY DEF Hit
    <3>2. \A q \in 1 .. Len(entries) : entries[q] # k  BY <2>3, <3>1 DEF IInv, CacheExact
    <3>3. PICK q \in 1 .. Len(entries) : entries'[p] = entries[q]  BY <1>1, <1>2
    <3>4. QED  BY <3>2, <3>3
  <2>4. QED  BY <2>1, <2>2, <2>3 DEF CacheExact
<1>5. Claims'  BY DEF IInv, Claims, TypeOK, Hit
<1>6. WaitersBacked'  BY DEF IInv, WaitersBacked, TypeOK, Hit
<1>7. Results'  BY DEF IInv, Results, TypeOK, Hit
<1> QED  BY <1>3, <1>4, <1>5, <1>6, <1>7 DEF IInv

\* A thread that finds its key in flight waits for the creator.
LEMMA JoinPreserves ==
    ASSUME IInv, NEW t \in Threads, JoinFlight(t)
    PROVE  IInv'
<1> USE DEF IInv, JoinFlight, Misses
<1>1. TypeOK'  BY DEF TypeOK
<1>2. CacheExact'  BY DEF CacheExact
<1>3. Claims'  BY DEF Claims, TypeOK
<1>4. WaitersBacked'  BY DEF WaitersBacked, TypeOK
<1>5. Results'  BY DEF Results, TypeOK
<1> QED  BY <1>1, <1>2, <1>3, <1>4, <1>5

\* The key was neither cached nor in flight: the claim is the only one.
LEMMA ClaimPreserves ==
    ASSUME IInv, NEW t \in Threads, Claim(t)
    PROVE  IInv'
<1> USE DEF IInv, Claim, Misses, Free
<1>1. TypeOK'  BY DEF TypeOK
<1>2. CacheExact'  BY DEF CacheExact, TypeOK
<1>3. Claims'
  <2> SUFFICES ASSUME NEW k \in Keys, NEW u \in Threads
               PROVE  inFlight'[k] = u <=> pc'[u] \in {"create", "publish"} /\ key'[u] = k
    BY DEF Claims
  <2>1. CASE k = key[t]  BY <2>1, CacheAssumption DEF Claims, TypeOK
  <2>2. CASE k # key[t]  BY <2>2 DEF Claims, TypeOK
  <2>3. QED  BY <2>1, <2>2
<1>4. WaitersBacked'  BY CacheAssumption DEF WaitersBacked, TypeOK
<1>5. Results'  BY DEF Results, TypeOK
<1> QED  BY <1>1, <1>2, <1>3, <1>4, <1>5

\* A waiter takes its result, or sleeps.
LEMMA WaitPreserves ==
    ASSUME IInv, NEW t \in Threads, Wait(t)
    PROVE  IInv'
<1> USE DEF IInv, Wait
<1>1. TypeOK'  BY DEF TypeOK
<1>2. CacheExact'  BY DEF CacheExact
<1>3. Claims'  BY DEF Claims, TypeOK
<1>4. WaitersBacked'  BY DEF WaitersBacked, TypeOK
<1>5. Results'  BY DEF Results, TypeOK
<1> QED  BY <1>1, <1>2, <1>3, <1>4, <1>5

\* A creation ends with the snapshot of its key, or fails.
LEMMA CreatePreserves ==
    ASSUME IInv, NEW t \in Threads, Create(t)
    PROVE  IInv'
<1> USE DEF IInv, Create
<1>1. TypeOK'  BY DEF TypeOK
<1>2. CacheExact'  BY DEF CacheExact
<1>3. Claims'  BY DEF Claims, TypeOK
<1>4. WaitersBacked'  BY DEF WaitersBacked, TypeOK
<1>5. Results'  BY DEF Results, TypeOK
<1> QED  BY <1>1, <1>2, <1>3, <1>4, <1>5

\* The publication inserts a key that was in flight, hence not cached, and
\* leaves no waiter of that key without a result.
LEMMA PublishPreserves ==
    ASSUME IInv, NEW t \in Threads, Publish(t)
    PROVE  IInv'
<1> DEFINE k == key[t]
<1>1. /\ k \in Keys /\ inFlight[k] = t
      /\ result[t] \in {k, Failed}
      /\ \A i \in 1 .. Len(entries) : entries[i] # k
  BY CacheAssumption DEF IInv, TypeOK, Claims, Results, CacheExact, Publish
<1>2. /\ Inserted(entries, k) \in Seq(Keys)
      /\ Len(Inserted(entries, k)) <= MaxEntries
      /\ \A p, q \in 1 .. Len(Inserted(entries, k)) :
            Inserted(entries, k)[p] = Inserted(entries, k)[q] => p = q
      /\ \A p \in 1 .. Len(Inserted(entries, k)) :
            Inserted(entries, k)[p] = k \/ \E q \in 1 .. Len(entries) : Inserted(entries, k)[p] = entries[q]
  BY <1>1, InsertedFacts DEF IInv, TypeOK, CacheExact
<1>3. /\ inFlight' = [inFlight EXCEPT ![k] = None]
      /\ entries' \in {entries, Inserted(entries, k)}
      /\ key' = key
  BY DEF Publish
<1>4. TypeOK'
  <2>1. entries' \in Seq(Keys)  BY <1>2, <1>3 DEF IInv, TypeOK
  <2>2. inFlight' \in [Keys -> Threads \cup {None}]  BY <1>3 DEF IInv, TypeOK
  <2>3. key' \in [Threads -> Keys]  BY <1>3 DEF IInv, TypeOK
  <2>4. result' \in [Threads -> Keys \cup {Pending, Failed}]  BY DEF IInv, TypeOK, Publish
  <2>5. pc' \in [Threads -> {"idle", "lookup", "joined", "asleep", "create", "publish", "done"}]
    BY DEF IInv, TypeOK, Publish
  <2>6. QED  BY <2>1, <2>2, <2>3, <2>4, <2>5 DEF TypeOK
<1>5. CacheExact'
  <2>1. Len(entries') <= MaxEntries  BY <1>2, <1>3 DEF IInv, CacheExact
  <2>2. \A p, q \in 1 .. Len(entries') : entries'[p] = entries'[q] => p = q
    BY <1>2, <1>3 DEF IInv, CacheExact
  <2>3. ASSUME NEW j \in Keys, inFlight'[j] # None, NEW p \in 1 .. Len(entries')
        PROVE  entries'[p] # j
    <3>1. j # k /\ inFlight[j] # None  BY <1>1, <1>3, <2>3 DEF IInv, TypeOK
    <3>2. \A q \in 1 .. Len(entries) : entries[q] # j  BY <3>1 DEF IInv, CacheExact
    <3>3. QED  BY <1>2, <1>3, <3>1, <3>2
  <2>4. QED  BY <2>1, <2>2, <2>3 DEF CacheExact
<1>6. \A u \in Threads : pc'[u] = IF u = t THEN "done" ELSE IF Woken(u, t) THEN "joined" ELSE pc[u]
  BY DEF Publish
<1>7. \A u \in Threads : result'[u] = IF Waits(u, t) THEN result[t] ELSE result[u]
  BY DEF Publish
<1>8. Claims'
  <2> SUFFICES ASSUME NEW j \in Keys, NEW u \in Threads
               PROVE  inFlight'[j] = u <=> pc'[u] \in {"create", "publish"} /\ key'[u] = j
    BY DEF Claims
  <2>1. CASE j = k
    <3>1. inFlight'[j] # u  BY <2>1, <1>1, <1>3, CacheAssumption DEF IInv, TypeOK
    <3>2. ~ (pc'[u] \in {"create", "publish"} /\ key'[u] = j)
      BY <2>1, <1>1, <1>3, <1>6 DEF IInv, Claims, Woken
    <3>3. QED  BY <3>1, <3>2
  <2>2. CASE j # k
    <3>1. inFlight'[j] = inFlight[j]  BY <2>2, <1>3 DEF IInv, TypeOK
    <3>2. pc'[u] \in {"create", "publish"} /\ key'[u] = j <=> pc[u] \in {"create", "publish"} /\ key[u] = j
      BY <2>2, <1>3, <1>6 DEF Woken, Waits
    <3>3. QED  BY <3>1, <3>2 DEF IInv, Claims
  <2>3. QED  BY <2>1, <2>2
<1>9. WaitersBacked'
  <2> SUFFICES ASSUME NEW u \in Threads
               PROVE  /\ pc'[u] \in {"joined", "asleep"} /\ result'[u] = Pending => inFlight'[key'[u]] # None
                      /\ pc'[u] = "asleep" => result'[u] = Pending
    BY DEF WaitersBacked
  <2>1. result[t] # Pending  BY <1>1, CacheAssumption
  <2>2. CASE Waits(u, t)
    <3>1. result'[u] # Pending  BY <2>1, <2>2, <1>7
    <3>2. pc'[u] # "asleep"  BY <2>2, <1>6 DEF Woken, Waits
    <3>3. QED  BY <3>1, <3>2
  <2>3. CASE ~ Waits(u, t)
    <3>1. result'[u] = result[u]  BY <2>3, <1>7
    <3>2. pc'[u] \in {"joined", "asleep"} => pc'[u] = pc[u]  BY <2>3, <1>6 DEF Woken
    <3>3. ASSUME pc'[u] \in {"joined", "asleep"}, result'[u] = Pending
          PROVE  inFlight'[key'[u]] # None
      <4>1. key[u] # k  BY <2>3, <3>1, <3>2, <3>3 DEF Waits
      <4>2. inFlight[key[u]] # None  BY <3>1, <3>2, <3>3 DEF IInv, WaitersBacked
      <4>3. QED  BY <4>1, <4>2, <1>3 DEF IInv, TypeOK
    <3>4. pc'[u] = "asleep" => result'[u] = Pending  BY <3>1, <3>2 DEF IInv, WaitersBacked
    <3>5. QED  BY <3>3, <3>4
  <2>4. QED  BY <2>2, <2>3
<1>10. Results'
  <2> SUFFICES ASSUME NEW u \in Threads
               PROVE  /\ pc'[u] = "lookup" => result'[u] = Pending
                      /\ pc'[u] = "joined" => result'[u] \in {key'[u], Failed, Pending}
                      /\ pc'[u] \in {"publish", "done"} => result'[u] \in {key'[u], Failed}
    BY DEF Results
  <2>1. CASE Waits(u, t)  BY <2>1, <1>1, <1>3, <1>6, <1>7 DEF IInv, Results, Waits, Woken, Publish
  <2>2. CASE ~ Waits(u, t)  BY <2>2, <1>1, <1>3, <1>6, <1>7 DEF IInv, Results, Woken
  <2>3. QED  BY <2>1, <2>2
<1> QED  BY <1>4, <1>5, <1>8, <1>9, <1>10 DEF IInv

\* A thread that has its snapshot returns it.
LEMMA ReturnPreserves ==
    ASSUME IInv, NEW t \in Threads, Return(t)
    PROVE  IInv'
<1> USE DEF IInv, Return
<1>1. TypeOK'  BY DEF TypeOK
<1>2. CacheExact'  BY DEF CacheExact
<1>3. Claims'  BY DEF Claims, TypeOK
<1>4. WaitersBacked'  BY DEF WaitersBacked, TypeOK
<1>5. Results'  BY DEF Results, TypeOK
<1> QED  BY <1>1, <1>2, <1>3, <1>4, <1>5

\* Every step of a thread keeps IInv.
LEMMA NextIInv == IInv /\ [Next]_vars => IInv'
<1> SUFFICES ASSUME IInv, [Next]_vars PROVE IInv'  OBVIOUS
<1>1. CASE UNCHANGED vars
  BY <1>1 DEF vars, IInv, TypeOK, CacheExact, Claims, WaitersBacked, Results
<1>2. ASSUME NEW t \in Threads, Step(t) PROVE IInv'
  BY <1>2, HitPreserves, JoinPreserves, ClaimPreserves, WaitPreserves, CreatePreserves,
     PublishPreserves, ReturnPreserves DEF Step
<1>3. ASSUME NEW t \in Threads, NEW k \in Keys, GetOrCreate(t, k) PROVE IInv'
  BY <1>3, GetOrCreatePreserves
<1> QED  BY <1>1, <1>2, <1>3 DEF Next

\* What the invariant says about the properties of the module.
LEMMA IInvImplies == IInv => CacheExact /\ SingleFlight /\ OwnSnapshot /\ NoOversleep
<1> SUFFICES ASSUME IInv PROVE CacheExact /\ SingleFlight /\ OwnSnapshot /\ NoOversleep  OBVIOUS
<1>1. SingleFlight  BY DEF IInv, TypeOK, Claims, SingleFlight
<1>2. OwnSnapshot  BY DEF IInv, Results, OwnSnapshot
<1>3. NoOversleep
  <2> SUFFICES ASSUME NEW t \in Threads, pc[t] = "asleep"
               PROVE  /\ result[t] = Pending
                      /\ \E u \in Threads : key[u] = key[t] /\ pc[u] \in {"create", "publish"}
    BY DEF NoOversleep
  <2>1. result[t] = Pending /\ inFlight[key[t]] # None  BY DEF IInv, WaitersBacked
  <2>2. inFlight[key[t]] \in Threads /\ key[t] \in Keys  BY <2>1 DEF IInv, TypeOK
  <2>3. QED  BY <2>1, <2>2 DEF IInv, Claims
<1> QED  BY <1>1, <1>2, <1>3 DEF IInv

\* The state of the cache and of its callers keeps its type.
THEOREM TypeCorrect == Spec => []TypeOK
<1>1. IInv => TypeOK  BY DEF IInv
<1> QED  BY <1>1, InitIInv, NextIInv, PTL DEF Spec

\* get_or_create keeps the cache exact, creates no snapshot twice at once,
\* returns to every caller the snapshot of its own code or an error, and leaves
\* no waiter asleep after the result is published.
THEOREM SnapshotsShared == Spec => [](CacheExact /\ SingleFlight /\ OwnSnapshot /\ NoOversleep)
<1>1. Init => IInv  BY InitIInv
<1>2. IInv /\ [Next]_vars => IInv'  BY NextIInv
<1>3. IInv => CacheExact /\ SingleFlight /\ OwnSnapshot /\ NoOversleep  BY IInvImplies
<1> QED  BY <1>1, <1>2, <1>3, PTL DEF Spec

\* Whatever the interleaving of the callers, a call that returns has the
\* snapshot of its own code or an error (get_or_create).
THEOREM SnapshotOfOwnCode == Spec => []OwnSnapshot
<1>1. IInv => OwnSnapshot  BY IInvImplies
<1> QED  BY <1>1, InitIInv, NextIInv, PTL DEF Spec
=============================================================================
