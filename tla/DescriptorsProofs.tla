------------------------- MODULE DescriptorsProofs -------------------------
(***************************************************************************)
(* What holds of Descriptors for every number of processes, descriptions   *)
(* and threads.  Descriptors change the file locks only as FileLocks       *)
(* allows, so that what is proved of FileLocks alone holds of the          *)
(* composition.  Reference counts are exact, ends stay open while they are *)
(* used, the limit of descriptors is kept and a lock outlives the close of *)
(* one of several descriptors.                                             *)
(*                                                                         *)
(* The counts are sums of functions with a finite domain, about which the  *)
(* first part proves what the rest needs.  SumFunction is a fold, so that  *)
(* every fact about it takes an induction.  The principles of induction    *)
(* are stated for the SET of the numbers or subsets that have a property,  *)
(* not for a predicate, and so follow from the existence of a least number *)
(* in every non-empty set of naturals.                                     *)
(***************************************************************************)
EXTENDS Descriptors, FiniteSetTheorems, WellFoundedInduction, TLAPS

\* The fold that SumFunction stands for: the sums it of f over the subsets of S,
\* each of which adds some element to the sum over the others.
Pick(s) == CHOOSE x \in s : TRUE
Adds(f, it, s) == IF s = {} THEN 0 ELSE f[Pick(s)] + it[s \ {Pick(s)}]
Iter(f, S) == CHOOSE it : it = [s \in SUBSET S |-> Adds(f, it, s)]
\* The subsets of at most n elements.
Small(S, n) == {s \in SUBSET S : Cardinality(s) <= n}

\* A set of naturals that is not empty has a least element.
LEMMA LeastNat ==
    ASSUME NEW T \in SUBSET Nat, T # {}
    PROVE  \E n \in T : \A m \in T : n <= m
<1>1. PICK n \in T : \A m \in T : ~ (<<m, n>> \in OpToRel(<, Nat))
  BY NatLessThanWellFounded, WFMin, Zenon
<1>2. \A m \in T : ~ (m < n)
  BY Zenon, <1>1 DEF OpToRel
<1>3. QED
  BY <1>2

\* Induction on naturals.
LEMMA NatInd ==
    ASSUME NEW T, 0 \in T, \A n \in Nat : n \in T => n + 1 \in T
    PROVE  \A n \in Nat : n \in T
<1> SUFFICES ASSUME Nat \ T # {} PROVE FALSE
  OBVIOUS
<1>1. PICK n \in Nat \ T : \A m \in Nat \ T : n <= m
  BY Zenon, LeastNat
<1>2. n - 1 \in Nat /\ n - 1 \notin T
  BY <1>1
<1>3. QED
  BY <1>1, <1>2

\* The recursive equation of the fold has a solution, by induction on the size of
\* the subsets it is solved for ...
LEMMA IterExists ==
    ASSUME NEW f, NEW S, IsFiniteSet(S)
    PROVE  \E it : it = [s \in SUBSET S |-> Adds(f, it, s)]
<1> DEFINE T == {n \in Nat : \E it : it = [s \in Small(S, n) |-> Adds(f, it, s)]}
<1>0. \A s \in SUBSET S : IsFiniteSet(s) /\ Cardinality(s) \in Nat /\ Cardinality(s) <= Cardinality(S)
  BY FS_Subset, FS_CardinalityType
<1>1. 0 \in T
  <2>1. \A s \in Small(S, 0) : s = {}
    BY <1>0, FS_EmptySet DEF Small
  <2>2. [s \in Small(S, 0) |-> 0] = [s \in Small(S, 0) |-> Adds(f, [t \in Small(S, 0) |-> 0], s)]
    BY <2>1 DEF Adds
  <2>3. QED
    BY <2>2
<1>2. ASSUME NEW n \in Nat, n \in T PROVE n + 1 \in T
  <2>1. PICK it : it = [s \in Small(S, n) |-> Adds(f, it, s)]
    BY <1>2
  <2> DEFINE jt == [s \in Small(S, n + 1) |-> Adds(f, it, s)]
  <2>2. ASSUME NEW s \in Small(S, n + 1), s # {}
        PROVE  s \ {Pick(s)} \in Small(S, n)
    <3>1. Pick(s) \in s
      BY <2>2 DEF Pick
    <3>2. QED
      BY <2>2, <3>1, <1>0, FS_RemoveElement DEF Small
  <2>3. Small(S, n) \subseteq Small(S, n + 1)
    BY <1>0 DEF Small
  <2>4. \A s \in Small(S, n) : jt[s] = it[s]
    BY <2>1, <2>3
  <2>5. \A s \in Small(S, n + 1) : Adds(f, it, s) = Adds(f, jt, s)
    BY Zenon, <2>2, <2>4 DEF Adds
  <2> HIDE DEF jt
  <2>6. jt = [s \in Small(S, n + 1) |-> Adds(f, jt, s)]
    BY <2>5 DEF jt
  <2>7. QED
    BY <2>6
<1>3. \A n \in Nat : n \in T
  BY Zenon, <1>1, <1>2, NatInd
<1>4. Cardinality(S) \in Nat /\ Small(S, Cardinality(S)) = SUBSET S
  BY <1>0, FS_CardinalityType DEF Small
<1>5. QED
  BY Zenon, <1>3, <1>4

\* ... so that the fold satisfies it ...
LEMMA IterDef ==
    ASSUME NEW f, NEW S, IsFiniteSet(S)
    PROVE  \A s \in SUBSET S : Iter(f, S)[s] = Adds(f, Iter(f, S), s)
<1>1. Iter(f, S) = [s \in SUBSET S |-> Adds(f, Iter(f, S), s)]
  BY IterExists DEF Iter
<1>2. QED
  BY <1>1

\* ... and is what SumFunction computes.
LEMMA SumIsIter ==
    ASSUME NEW f, NEW S
    PROVE  SumFunctionOnSet(f, S) = Iter(f, S)[S]
BY DEF SumFunctionOnSet, FoldFunctionOnSet, MapThenFoldSet, Iter, Adds, Pick

\* The cardinalities of the subsets of a finite set.
LEMMA Cards ==
    ASSUME NEW D, IsFiniteSet(D)
    PROVE  \A s \in SUBSET D : /\ IsFiniteSet(s)
                               /\ Cardinality(s) \in Nat
                               /\ Cardinality(s) = 0 <=> s = {}
                               /\ \A x \in s : Cardinality(s \ {x}) = Cardinality(s) - 1
<1>2. ASSUME NEW s \in SUBSET D PROVE IsFiniteSet(s) /\ Cardinality(s) \in Nat
  BY FS_Subset, FS_CardinalityType
<1>3. ASSUME NEW s \in SUBSET D PROVE Cardinality(s) = 0 <=> s = {}
  BY <1>2, FS_EmptySet
<1>4. ASSUME NEW s \in SUBSET D, NEW x \in s PROVE Cardinality(s \ {x}) = Cardinality(s) - 1
  BY <1>2, FS_RemoveElement, Zenon
<1>5. QED
  BY <1>2, <1>3, <1>4

\* Induction on the subsets of a finite set, one element at a time.
LEMMA SubsetInd ==
    ASSUME NEW D, IsFiniteSet(D), NEW T, {} \in T,
           \A s \in SUBSET D : \A x \in D \ s : s \in T => s \cup {x} \in T
    PROVE  D \in T
<1> DEFINE U == {n \in Nat : \A s \in SUBSET D : Cardinality(s) = n => s \in T}
<1>1. 0 \in U
  BY Zenon, Cards
<1>2. ASSUME NEW n \in Nat, n \in U PROVE n + 1 \in U
  <2> SUFFICES ASSUME NEW s \in SUBSET D, Cardinality(s) = n + 1 PROVE s \in T
    OBVIOUS
  <2>1. s # {}
    BY Cards
  <2>2. PICK x \in s : Cardinality(s \ {x}) = n
    BY Cards, <2>1
  <2>4. s \ {x} \in T
    BY <1>2, <2>2
  <2>5. (s \ {x}) \cup {x} = s /\ x \in D \ (s \ {x})
    OBVIOUS
  <2>6. s \ {x} \in SUBSET D
    OBVIOUS
  <2>7. QED
    BY <2>4, <2>5, <2>6
<1>3. \A n \in Nat : n \in U
  BY Zenon, <1>1, <1>2, NatInd
<1>4. QED
  BY <1>3, Cards

\* The sums over the subsets of D are naturals, and any element may be the one
\* that is added last.
LEMMA PartialSums ==
    ASSUME NEW D, IsFiniteSet(D), NEW f \in [D -> Nat]
    PROVE  /\ Iter(f, D)[{}] = 0
           /\ \A s \in SUBSET D : Iter(f, D)[s] \in Nat
           /\ \A s \in SUBSET D : \A x \in s : Iter(f, D)[s] = f[x] + Iter(f, D)[s \ {x}]
<1> DEFINE it == Iter(f, D)
           Good(s) == \A x \in s : it[s] = f[x] + it[s \ {x}]
           Typed == {n \in Nat : \A s \in SUBSET D : Cardinality(s) = n => it[s] \in Nat}
           Any == {n \in Nat : \A s \in SUBSET D : Cardinality(s) = n => Good(s)}
<1>1. \A s \in SUBSET D : it[s] = Adds(f, it, s)
  BY IterDef
<1> HIDE DEF it
<1>2. it[{}] = 0
  BY Zenon, <1>1 DEF Adds
<1>3. \A s \in SUBSET D : s # {} => \E y \in s : it[s] = f[y] + it[s \ {y}]
  <2> SUFFICES ASSUME NEW s \in SUBSET D, s # {} PROVE \E y \in s : it[s] = f[y] + it[s \ {y}]
    OBVIOUS
  <2>1. Pick(s) \in s
    BY DEF Pick
  <2>2. it[s] = f[Pick(s)] + it[s \ {Pick(s)}]
    BY <1>1 DEF Adds
  <2>3. QED
    BY Zenon, <2>1, <2>2
<1>4. \A s \in SUBSET D : it[s] \in Nat
  <2>1. 0 \in Typed
    <3>1. \A s \in SUBSET D : Cardinality(s) = 0 => s = {}
      BY Cards
    <3>2. QED
      BY <1>2, <3>1
  <2>2. ASSUME NEW n \in Nat, n \in Typed PROVE n + 1 \in Typed
    <3> SUFFICES ASSUME NEW s \in SUBSET D, Cardinality(s) = n + 1 PROVE it[s] \in Nat
      OBVIOUS
    <3>1. s # {}
      BY Cards
    <3>2. PICK y \in s : it[s] = f[y] + it[s \ {y}]
      BY <1>3, <3>1
    <3>3. Cardinality(s \ {y}) = n
      BY Cards
    <3>4. QED
      BY <2>2, <3>2, <3>3
  <2>3. \A n \in Nat : n \in Typed
    BY Zenon, <2>1, <2>2, NatInd
  <2>4. QED
    BY <2>3, Cards
<1>5. \A s \in SUBSET D : Good(s)
  <2>1. 0 \in Any
    BY Cards
  <2>2. ASSUME NEW n \in Nat, n \in Any PROVE n + 1 \in Any
    <3> SUFFICES ASSUME NEW s \in SUBSET D, Cardinality(s) = n + 1, NEW x \in s
                 PROVE  it[s] = f[x] + it[s \ {x}]
      OBVIOUS
    <3>2. PICK y \in s : it[s] = f[y] + it[s \ {y}]
      BY <1>3
    <3>3. CASE x = y
      BY <3>2, <3>3
    <3>4. CASE x # y
      <4>1. Cardinality(s \ {x}) = n /\ Cardinality(s \ {y}) = n
        BY Cards
      <4>2. it[s \ {y}] = f[x] + it[(s \ {y}) \ {x}]
        BY <2>2, <3>4, <4>1
      <4>3. it[s \ {x}] = f[y] + it[(s \ {x}) \ {y}]
        BY <2>2, <3>4, <4>1
      <4>4. (s \ {y}) \ {x} = (s \ {x}) \ {y}
        OBVIOUS
      <4>5. f[x] \in Nat /\ f[y] \in Nat /\ it[(s \ {x}) \ {y}] \in Nat
        BY <1>4
      <4>6. it[s] = f[y] + (f[x] + it[(s \ {x}) \ {y}])
        BY <3>2, <4>2, <4>4
      <4>7. QED
        BY <4>3, <4>5, <4>6
    <3>5. QED
      BY <3>3, <3>4
  <2>3. \A n \in Nat : n \in Any
    BY Zenon, <2>1, <2>2, NatInd
  <2>4. QED
    BY Zenon, <2>3, Cards
<1>6. QED
  BY Zenon, <1>2, <1>4, <1>5 DEF it

\* One more element adds its value.
LEMMA SumAdd ==
    ASSUME NEW D, IsFiniteSet(D), NEW f \in [D -> Nat], NEW s \in SUBSET D, NEW x \in D \ s
    PROVE  Iter(f, D)[s \cup {x}] = f[x] + Iter(f, D)[s]
<1> DEFINE t == s \cup {x}
<1>1. t \in SUBSET D /\ x \in t /\ t \ {x} = s
  OBVIOUS
<1> HIDE DEF t
<1>2. Iter(f, D)[t] = f[x] + Iter(f, D)[s]
  BY <1>1, PartialSums
<1>3. QED
  BY <1>2 DEF t

\* Functions that agree on a set have the same sum over it.
LEMMA SumsAgree ==
    ASSUME NEW D, IsFiniteSet(D), NEW f \in [D -> Nat], NEW g \in [D -> Nat],
           NEW E \in SUBSET D, \A x \in E : f[x] = g[x]
    PROVE  Iter(f, D)[E] = Iter(g, D)[E]
<1> DEFINE T == {s \in SUBSET D : Iter(f, D)[s] = Iter(g, D)[s]}
<1>1. {} \in T
  BY PartialSums
<1>2. ASSUME NEW s \in SUBSET E, NEW x \in E \ s, s \in T PROVE s \cup {x} \in T
  <2>1. s \in SUBSET D /\ x \in D \ s /\ s \cup {x} \in SUBSET D
    OBVIOUS
  <2>2. \A h \in [D -> Nat] : Iter(h, D)[s \cup {x}] = h[x] + Iter(h, D)[s]
    BY <2>1, SumAdd
  <2>3. QED
    BY <1>2, <2>1, <2>2
<1>3. IsFiniteSet(E)
  BY FS_Subset
<1> HIDE DEF T
<1>4. E \in T
  BY Zenon, <1>1, <1>2, <1>3, SubsetInd
<1>5. QED
  BY <1>4 DEF T

\* A sum is any of its terms and the sum of the others.
LEMMA SumSplit ==
    ASSUME NEW D, IsFiniteSet(D), NEW f \in [D -> Nat], NEW x \in D
    PROVE  /\ SumFunction(f) = f[x] + Iter(f, D)[D \ {x}]
           /\ Iter(f, D)[D \ {x}] \in Nat
<1>1. SumFunction(f) = Iter(f, D)[D]
  BY SumIsIter DEF SumFunction
<1>2. Iter(f, D)[D] = f[x] + Iter(f, D)[D \ {x}] /\ Iter(f, D)[D \ {x}] \in Nat
  BY PartialSums
<1>3. QED
  BY <1>1, <1>2

\* A sum of naturals is one, and no smaller than any of them.
LEMMA SumType ==
    ASSUME NEW D, IsFiniteSet(D), NEW f \in [D -> Nat]
    PROVE  /\ SumFunction(f) \in Nat
           /\ \A x \in D : f[x] <= SumFunction(f)
<1>1. SumFunction(f) = Iter(f, D)[D]
  BY SumIsIter DEF SumFunction
<1>2. Iter(f, D)[D] \in Nat
  BY PartialSums
<1>3. ASSUME NEW x \in D PROVE f[x] <= SumFunction(f)
  <2>1. SumFunction(f) = f[x] + Iter(f, D)[D \ {x}] /\ Iter(f, D)[D \ {x}] \in Nat
    BY SumSplit
  <2>2. QED
    BY <2>1
<1>4. QED
  BY <1>1, <1>2, <1>3

\* Changing one value changes the sum by as much.
LEMMA SumChange ==
    ASSUME NEW D, IsFiniteSet(D), NEW f \in [D -> Nat], NEW g \in [D -> Nat], NEW x \in D,
           \A y \in D \ {x} : g[y] = f[y]
    PROVE  SumFunction(g) = SumFunction(f) - f[x] + g[x]
<1>1. SumFunction(f) = f[x] + Iter(f, D)[D \ {x}] /\ Iter(f, D)[D \ {x}] \in Nat
  BY SumSplit
<1>2. SumFunction(g) = g[x] + Iter(g, D)[D \ {x}]
  BY SumSplit
<1>3. Iter(g, D)[D \ {x}] = Iter(f, D)[D \ {x}]
  BY SumsAgree
<1>4. QED
  BY <1>1, <1>2, <1>3

\* Zeros add up to zero.
LEMMA SumOfZeros ==
    ASSUME NEW D, IsFiniteSet(D), NEW f \in [D -> Nat], \A x \in D : f[x] = 0
    PROVE  SumFunction(f) = 0
<1> DEFINE T == {s \in SUBSET D : Iter(f, D)[s] = 0}
<1>1. {} \in T
  BY PartialSums
<1>2. ASSUME NEW s \in SUBSET D, NEW x \in D \ s, s \in T PROVE s \cup {x} \in T
  <2>1. Iter(f, D)[s \cup {x}] = f[x] + Iter(f, D)[s]
    BY SumAdd
  <2>2. QED
    BY <1>2, <2>1
<1> HIDE DEF T
<1>3. D \in T
  BY Zenon, <1>1, <1>2, SubsetInd
<1>4. SumFunction(f) = Iter(f, D)[D]
  BY SumIsIter DEF SumFunction
<1>5. QED
  BY <1>3, <1>4 DEF T

\* Ones in place of the zeros of a set add its cardinality.
LEMMA SumOfOnes ==
    ASSUME NEW D, IsFiniteSet(D), NEW A \in SUBSET D,
           NEW f \in [D -> Nat], \A x \in A : f[x] = 0,
           NEW g \in [D -> Nat], \A x \in A : g[x] = 1, \A x \in D \ A : g[x] = f[x]
    PROVE  SumFunction(g) = SumFunction(f) + Cardinality(A)
<1> DEFINE T == {s \in SUBSET D : Iter(g, D)[s] = Iter(f, D)[s] + Cardinality(s \cap A)}
<1>1. {} \in T
  <2>1. {} \cap A = {} /\ Cardinality({}) = 0
    BY FS_EmptySet
  <2>2. Iter(f, D)[{}] = 0 /\ Iter(g, D)[{}] = 0
    BY PartialSums
  <2>3. QED
    BY <2>1, <2>2
<1>2. ASSUME NEW s \in SUBSET D, NEW x \in D \ s, s \in T PROVE s \cup {x} \in T
  <2> DEFINE t == s \cup {x}
  <2>1. t \in SUBSET D
    OBVIOUS
  <2>2. s \cap A \in SUBSET D
    OBVIOUS
  <2>3. IsFiniteSet(s \cap A) /\ Cardinality(s \cap A) \in Nat
    BY <2>2, Cards
  <2>4. Cardinality(t \cap A) = Cardinality(s \cap A) + (IF x \in A THEN 1 ELSE 0)
    <3>1. CASE x \in A
      <4>1. t \cap A = (s \cap A) \cup {x} /\ x \notin s \cap A
        BY <3>1
      <4>2. Cardinality(t \cap A) = Cardinality(s \cap A) + 1
        BY <2>3, <4>1, FS_AddElement, Zenon
      <4>3. QED
        BY <3>1, <4>2
    <3>2. CASE x \notin A
      <4>1. t \cap A = s \cap A
        BY <3>2
      <4>2. Cardinality(t \cap A) = Cardinality(s \cap A)
        BY <4>1, Zenon
      <4>3. QED
        BY <2>3, <3>2, <4>2
    <3>3. QED
      BY <3>1, <3>2
  <2>5. \A h \in [D -> Nat] : Iter(h, D)[t] = h[x] + Iter(h, D)[s]
    BY SumAdd
  <2>6. \A h \in [D -> Nat] : Iter(h, D)[s] \in Nat /\ h[x] \in Nat
    BY PartialSums
  <2>7. g[x] = f[x] + (IF x \in A THEN 1 ELSE 0)
    OBVIOUS
  <2>8. Iter(g, D)[s] = Iter(f, D)[s] + Cardinality(s \cap A)
    BY <1>2
  <2> HIDE DEF t
  <2>9. Iter(g, D)[t] = Iter(f, D)[t] + Cardinality(t \cap A)
    BY <2>3, <2>4, <2>5, <2>6, <2>7, <2>8
  <2>10. t \in T
    BY <2>1, <2>9
  <2>11. QED
    BY <2>10 DEF t
<1> HIDE DEF T
<1>3. D \in T
  BY Zenon, <1>1, <1>2, SubsetInd
<1>4. D \cap A = A
  OBVIOUS
<1>5. SumFunction(f) = Iter(f, D)[D] /\ SumFunction(g) = Iter(g, D)[D]
  BY SumIsIter DEF SumFunction
<1>6. QED
  BY <1>3, <1>4, <1>5 DEF T

-----------------------------------------------------------------------------
LockProofs == INSTANCE FileLocksProofs WITH
    Owners <- Descs, Targets <- {"file"}, Threads <- LockThreads

\* Flockers are threads of the scene, and each works on a description.
FlockType == scene \in Scenes /\ flock \in [Flockers -> Descs \cup {None}]

\* A step that touches neither the locks nor who is about to apply one.
Calm == flock' = flock /\ scene' = scene /\ UNCHANGED lockVars

\* The steps of processes and tables, and the calls of the API thread.
LEMMA CallsAreCalm ==
    ASSUME NEW p \in Pids \cup {0}, NEW d, NEW e,
           \/ SpawnStart(p) \/ Exit(p) \/ ExitCallback(p) \/ Waitpid(p) \/ ZombieReap(p)
           \/ Open(p) \/ OpenPair(p) \/ Dup(p, d) \/ Close(p, d) \/ Dup2(p, d, e)
    PROVE  Calm
<1>1. CASE SpawnStart(p)
  BY <1>1 DEF SpawnStart, Calm
<1>2. CASE Exit(p) \/ ExitCallback(p) \/ Waitpid(p) \/ ZombieReap(p)
  BY <1>2 DEF Exit, ExitCallback, Waitpid, ZombieReap, Calm
<1>3. CASE Open(p) \/ OpenPair(p)
  BY <1>3 DEF Open, OpenPair, Calm
<1>4. CASE Dup(p, d) \/ Close(p, d) \/ Dup2(p, d, e)
  BY <1>4 DEF Dup, Close, Dup2, Calm
<1>5. QED
  BY <1>1, <1>2, <1>3, <1>4

\* And the continuations of calls that take several steps.
LEMMA ApiStepsAreCalm ==
    ASSUME ApiStep \/ DisposeKill
    PROVE  Calm
<1>1. CASE SpawnAdmit \/ SpawnFork
  BY <1>1 DEF SpawnAdmit, SpawnFork, Calm
<1>2. CASE WaitpidCleanup \/ DisposeTables \/ DisposeNext \/ DisposeEnd \/ DisposeKill
  BY <1>2 DEF WaitpidCleanup, DisposeTables, DisposeNext, DisposeEnd, DisposeKill, Calm
<1>3. QED
  BY <1>1, <1>2 DEF ApiStep

\* Every step either leaves the locks alone or is a step of the lock manager,
\* for a description and by a thread that may take it.
LEMMA StepIsLockStep ==
    ASSUME FlockType, [Next]_vars
    PROVE  FlockType' /\ [Locks!Next]_(Locks!vars)
<1>0. ASSUME Calm PROVE FlockType' /\ [Locks!Next]_(Locks!vars)
  BY <1>0 DEF Calm, FlockType, lockVars, Locks!vars
<1>1. ASSUME NEW c \in Closers, CloseNext(c)
      PROVE  FlockType' /\ [Locks!Next]_(Locks!vars)
  <2>1. PICK d \in Descs : CloseSpecial(c, d)
    BY <1>1 DEF CloseNext
  <2>2. c \in LockThreads /\ flock' = flock /\ scene' = scene
    BY <1>1 DEF CloseNext, LockThreads
  <2>3. Locks!ReleaseOwner(c, d) \/ UNCHANGED lockVars
    BY <2>1 DEF CloseSpecial
  <2>4. QED
    BY <2>2, <2>3 DEF FlockType, lockVars, Locks!vars, Locks!Next
<1>2. ASSUME NEW th \in Flockers, NEW p \in Pids, NEW d \in Descs, FlockEntry(th, p, d)
      PROVE  FlockType' /\ [Locks!Next]_(Locks!vars)
  BY <1>2 DEF FlockEntry, FlockType, lockVars, Locks!vars
<1>3. ASSUME NEW th \in Flockers, FlockApply(th)
      PROVE  FlockType' /\ [Locks!Next]_(Locks!vars)
  <2>1. flock[th] \in Descs /\ th \in LockThreads
    BY <1>3 DEF FlockApply, FlockType, LockThreads
  <2>2. FlockType'
    BY <1>3 DEF FlockApply, FlockType
  <2>3. \/ \E mode \in Locks!Modes, nb \in BOOLEAN :
             Locks!Acquire(th, flock[th], "file", mode, nb)
        \/ Locks!ReleaseOwner(th, flock[th])
    BY <1>3 DEF FlockApply
  <2>4. QED
    BY <2>1, <2>2, <2>3 DEF Locks!Next
<1>4. ASSUME NEW th \in LockThreads, LockStep(th)
      PROVE  FlockType' /\ [Locks!Next]_(Locks!vars)
  BY <1>4 DEF LockStep, FlockType, Locks!Next
<1>5. ASSUME NEW th \in Flockers, SpuriousWake(th)
      PROVE  FlockType' /\ [Locks!Next]_(Locks!vars)
  BY <1>5 DEF SpuriousWake, FlockType, LockThreads, Locks!Next
<1>6. CASE UNCHANGED vars
  BY <1>0, <1>6 DEF Calm, vars
<1>7. CASE Next
  <2>1. scene.flockers \subseteq Flockers
    BY DescriptorsAssumption DEF FlockType, Scene
  <2>2. QED
    BY <2>1, <1>0, <1>1, <1>2, <1>3, <1>4, <1>5, <1>7, CallsAreCalm, ApiStepsAreCalm DEF Next
<1>8. QED
  BY <1>6, <1>7

\* The descriptor layer implements the lock manager's specification: spawn,
\* dup, close, exit, dispose and fd_flock change locks only by whole steps of
\* acquire and release_owner.
THEOREM ImplementsLocks == Spec => Locks!Spec
<1>1. Init => FlockType /\ Locks!Init
  BY DEF Init, FlockType
<1>2. QED
  BY <1>1, StepIsLockStep, PTL DEF Spec, Locks!Spec

\* Hence what is proved of the lock manager holds of the descriptors' locks.
LEMMA LocksHold == Spec => [](Locks!TypeOK /\ Exclusion /\ SleepersBlocked)
<1>1. LockProofs!Spec => [](LockProofs!TypeOK /\ LockProofs!Exclusion /\ LockProofs!SleepersBlocked)
  BY LockProofs!LocksCorrect, PTL DEF LockProofs!LocksCorrect
<1>2. Locks!Init => LockProofs!Init
  BY DEF Locks!Init, LockProofs!Init, Locks!NoRequest, LockProofs!NoRequest
<1>3. [Locks!Next]_(Locks!vars) => [LockProofs!Next]_(LockProofs!vars)
  <2>1. ASSUME NEW th \in LockThreads, NEW r, Locks!AcquireLoop(th, r)
        PROVE  LockProofs!AcquireLoop(th, r)
    BY <2>1 DEF Locks!AcquireLoop, LockProofs!AcquireLoop, Locks!CanGrant, LockProofs!CanGrant,
                Locks!Grant, LockProofs!Grant, Locks!NoRequest, LockProofs!NoRequest
  <2>2. QED
    BY Zenon, <2>1 DEF Locks!Next, LockProofs!Next, Locks!vars, LockProofs!vars,
                Locks!Modes, LockProofs!Modes, Locks!Acquire, LockProofs!Acquire,
                Locks!AcquireWake, LockProofs!AcquireWake,
                Locks!ReleaseOwner, LockProofs!ReleaseOwner, Locks!Holders, LockProofs!Holders,
                Locks!NextAfterRelease, LockProofs!NextAfterRelease,
                Locks!NotifyAll, LockProofs!NotifyAll,
                Locks!SpuriousWake, LockProofs!SpuriousWake
<1>4. LockProofs!Exclusion /\ LockProofs!SleepersBlocked => Exclusion /\ SleepersBlocked
  BY DEF LockProofs!Exclusion, Exclusion, Locks!Exclusion, LockProofs!SleepersBlocked,
         SleepersBlocked, Locks!SleepersBlocked, LockProofs!Holders, Locks!Holders
<1>5. LockProofs!TypeOK => Locks!TypeOK
  BY DEF LockProofs!TypeOK, Locks!TypeOK, LockProofs!Request, Locks!Request, LockProofs!Modes,
         Locks!Modes, LockProofs!NoRequest, Locks!NoRequest
<1>6. QED
  BY <1>1, <1>2, <1>3, <1>4, <1>5, ImplementsLocks, PTL DEF Locks!Spec, LockProofs!Spec

\* Whatever processes do with their descriptors, exclusive locks exclude ...
THEOREM LocksExclude == Spec => []Exclusion
BY LocksHold, PTL

\* ... and a blocked fd_flock misses no release.
THEOREM LocksOfDescriptors == Spec => []SleepersBlocked
BY LocksHold, PTL

---------------------------------------------------------------------------
(***************************************************************************)
(* Reference counts.                                                       *)
(***************************************************************************)

\* The entries that refer to d, in all tables.
Count(d) == SumFunction([p \in Pids |-> held[p][d]])
Counted == \A d \in Descs : refs[d] = Count(d)

TablesType == held \in [Pids -> [Descs -> Nat]] /\ refs \in [Descs -> Nat]

\* The table of p becomes row, and the counts change by as much.
Row(p, row) ==
    /\ held' = [held EXCEPT ![p] = row]
    /\ refs' = [d \in Descs |-> refs[d] + row[d] - held[p][d]]

\* Both domains of the sums are finite.
LEMMA Finite == IsFiniteSet(Pids) /\ IsFiniteSet(Descs)
BY DescriptorsAssumption, FS_Interval DEF Descs

\* The length of a table is a natural number, and so is the sum of them.
LEMMA LenType ==
    ASSUME TablesType
    PROVE  /\ \A p \in Pids : Len(held[p]) \in Nat
           /\ \A p \in Pids, d \in Descs : held[p][d] <= Len(held[p])
           /\ OpenFds \in Nat
           /\ \A p \in Pids : Len(held[p]) <= OpenFds
<1>1. ASSUME NEW p \in Pids
      PROVE  Len(held[p]) \in Nat /\ \A d \in Descs : held[p][d] <= Len(held[p])
  BY Finite, SumType DEF Len, TablesType
<1>2. [p \in Pids |-> Len(held[p])] \in [Pids -> Nat]
  BY <1>1
<1>3. /\ OpenFds \in Nat
      /\ \A p \in Pids : [q \in Pids |-> Len(held[q])][p] <= OpenFds
  BY <1>2, Finite, SumType DEF OpenFds
<1>4. QED
  BY <1>1, <1>3

\* A description has at least as many references as any table has entries for it.
LEMMA HeldCounted ==
    ASSUME TablesType, Counted, NEW p \in Pids, NEW d \in Descs
    PROVE  held[p][d] <= refs[d]
<1> DEFINE f == [q \in Pids |-> held[q][d]]
<1>1. f \in [Pids -> Nat]
  BY DEF TablesType
<1>2. f[p] <= SumFunction(f)
  BY <1>1, Finite, SumType
<1>3. QED
  BY <1>2 DEF Counted, Count

\* A step that replaces a table and adjusts the counts keeps them exact.
LEMMA RowCounts ==
    ASSUME TablesType, Counted, NEW p \in Pids, NEW row \in [Descs -> Nat], Row(p, row)
    PROVE  /\ TablesType' /\ Counted'
           /\ held'[p] = row
           /\ \A q \in Pids \ {p} : held'[q] = held[q]
           /\ OpenFds' = OpenFds - Len(held[p]) + Len(row)
<1>1. /\ held' \in [Pids -> [Descs -> Nat]]
      /\ held'[p] = row
      /\ \A q \in Pids \ {p} : held'[q] = held[q]
  BY DEF TablesType, Row
<1>2. ASSUME NEW d \in Descs PROVE refs'[d] \in Nat /\ refs'[d] = Count(d)'
  <2> DEFINE f == [q \in Pids |-> held[q][d]]
             g == [q \in Pids |-> held'[q][d]]
  <2>1. /\ f \in [Pids -> Nat] /\ g \in [Pids -> Nat]
        /\ f[p] = held[p][d] /\ g[p] = row[d]
        /\ \A q \in Pids \ {p} : g[q] = f[q]
    BY <1>1 DEF TablesType
  <2>2. refs[d] = SumFunction(f) /\ Count(d)' = SumFunction(g)
    BY DEF Counted, Count
  <2>3. refs'[d] = refs[d] + row[d] - held[p][d]
    BY DEF Row
  <2> HIDE DEF f, g
  <2>4. SumFunction(g) = SumFunction(f) - f[p] + g[p]
    BY <2>1, Finite, SumChange
  <2>5. SumFunction(g) \in Nat /\ SumFunction(f) \in Nat
    BY <2>1, Finite, SumType
  <2>6. f[p] \in Nat /\ g[p] \in Nat
    BY <2>1
  <2>7. QED
    BY <2>1, <2>2, <2>3, <2>4, <2>5, <2>6
<1>3. refs' \in [Descs -> Nat]
  BY <1>2 DEF Row
<1>4. OpenFds' = OpenFds - Len(held[p]) + Len(row)
  <2> DEFINE f == [q \in Pids |-> Len(held[q])]
             g == [q \in Pids |-> Len(held'[q])]
  <2>1. \A q \in Pids : Len(held[q]) \in Nat /\ Len(held'[q]) \in Nat
    BY <1>1, Finite, SumType DEF Len, TablesType
  <2>2. /\ f \in [Pids -> Nat] /\ g \in [Pids -> Nat]
        /\ f[p] = Len(held[p]) /\ g[p] = Len(row)
        /\ \A q \in Pids \ {p} : g[q] = f[q]
    BY <1>1, <2>1
  <2>3. OpenFds = SumFunction(f) /\ OpenFds' = SumFunction(g)
    BY DEF OpenFds, Len
  <2> HIDE DEF f, g
  <2>4. SumFunction(g) = SumFunction(f) - f[p] + g[p]
    BY <2>2, Finite, SumChange
  <2>5. QED
    BY <2>2, <2>3, <2>4
<1>5. QED
  BY <1>1, <1>2, <1>3, <1>4 DEF TablesType, Counted

---------------------------------------------------------------------------
\* An allocated description is one with a kind; the others have no reference.
KindType ==
    /\ kind \in [Descs -> {"none", "char", "file"} \cup PairEnds]
    /\ registered \subseteq Descs
Blank == \A d \in Descs : kind[d] = "none" => refs[d] = 0

\* The next n ids are unused ones, and at most n: each has its own number of
\* smaller ones, below n.
LEMMA FreshType ==
    ASSUME scene \in Scenes, NEW n \in Nat
    PROVE  /\ Fresh(n) \subseteq Descs
           /\ \A d \in Fresh(n) : kind[d] = "none"
           /\ Cardinality(Fresh(n)) \in Nat
           /\ Cardinality(Fresh(n)) <= n
<1> DEFINE U == Unallocated
           Below(d) == {e \in U : e < d}
           f == [d \in Fresh(n) |-> Cardinality(Below(d))]
<1>1. U \subseteq Descs /\ U \subseteq Int /\ \A d \in U : kind[d] = "none"
  BY DescriptorsAssumption DEF Unallocated, Scene, Descs
<1>2. IsFiniteSet(U)
  BY Zenon, <1>1, Finite, FS_Subset
<1>3. \A d \in U : IsFiniteSet(Below(d)) /\ Cardinality(Below(d)) \in Nat
  BY <1>2, FS_Subset, FS_CardinalityType
<1>4. Fresh(n) \subseteq U /\ \A d \in Fresh(n) : Cardinality(Below(d)) < n
  BY DEF Fresh
<1>5. ASSUME NEW a \in U, NEW b \in U, a < b PROVE Cardinality(Below(a)) # Cardinality(Below(b))
  <2>1. a \in Int /\ b \in Int /\ \A e \in U : e \in Int
    BY <1>1
  <2>2. a \in Below(b) /\ a \notin Below(a) /\ \A e \in U : e < a => e < b
    BY <1>5, <2>1
  <2>3. Below(a) \in SUBSET Below(b) /\ Below(a) # Below(b)
    BY <2>2
  <2>4. QED
    BY Zenon, <1>3, <2>3, FS_Subset
<1>6. f \in [Fresh(n) -> 0..(n - 1)]
  BY <1>3, <1>4
<1>7. \A a, b \in Fresh(n) : f[a] = f[b] => a = b
  <2>1. \A a, b \in U : a \in Int /\ b \in Int /\ (a # b => a < b \/ b < a)
    BY <1>1
  <2>2. \A a, b \in U : Cardinality(Below(a)) = Cardinality(Below(b)) => a = b
    BY <1>5, <2>1
  <2>3. QED
    BY <1>4, <2>2
<1>8. f \in Injection(Fresh(n), 0..(n - 1))
  BY Zenon, <1>6, <1>7 DEF Injection, IsInjective
<1>9. IsFiniteSet(0..(n - 1)) /\ Cardinality(0..(n - 1)) = n
  BY FS_Interval
<1>10. Cardinality(Fresh(n)) <= n
  BY <1>8, <1>9, FS_Injection
<1>11. IsFiniteSet(Fresh(n))
  BY <1>2, <1>4, FS_Subset
<1>12. QED
  BY Zenon, <1>1, <1>4, <1>10, <1>11, FS_CardinalityType

\* A table that gets one entry for each of a set of unused descriptions.
LEMMA OnesRow ==
    ASSUME TablesType, Counted, Blank, NEW p \in Pids,
           NEW A \in SUBSET Descs, \A d \in A : kind[d] = "none", NEW row,
           row = [d \in Descs |-> IF d \in A THEN 1 ELSE held[p][d]],
           held' = [held EXCEPT ![p] = row],
           refs' = [d \in Descs |-> IF d \in A THEN 1 ELSE refs[d]]
    PROVE  /\ row \in [Descs -> Nat] /\ Row(p, row)
           /\ Len(row) = Len(held[p]) + Cardinality(A)
<1>1. \A d \in A : refs[d] = 0 /\ held[p][d] = 0
  BY HeldCounted DEF Blank, TablesType
<1>2. /\ row \in [Descs -> Nat] /\ held[p] \in [Descs -> Nat] /\ refs \in [Descs -> Nat]
      /\ \A d \in A : row[d] = 1
      /\ \A d \in Descs \ A : row[d] = held[p][d]
  BY DEF TablesType
<1>3. \A d \in Descs : (IF d \in A THEN 1 ELSE refs[d]) = refs[d] + row[d] - held[p][d]
  BY <1>1, <1>2
<1>4. refs' = [d \in Descs |-> refs[d] + row[d] - held[p][d]]
  BY <1>3
<1>5. SumFunction(row) = SumFunction(held[p]) + Cardinality(A)
  BY <1>1, <1>2, Finite, SumOfOnes
<1>6. QED
  BY <1>2, <1>4, <1>5 DEF Row, Len

---------------------------------------------------------------------------
\* What each update of the tables does to the table it changes and its length.
LEMMA EmptyRow == Empty \in [Descs -> Nat] /\ Len(Empty) = 0
BY Finite, SumOfZeros DEF Empty, Len

\* A duplicate makes the table one longer ...
LEMMA DupRow ==
    ASSUME TablesType, NEW p \in Pids, NEW d \in Descs,
           held' = [held EXCEPT ![p][d] = @ + 1], refs' = [refs EXCEPT ![d] = @ + 1]
    PROVE  \E row \in [Descs -> Nat] : Row(p, row) /\ Len(row) = Len(held[p]) + 1
<1> DEFINE row == [held[p] EXCEPT ![d] = held[p][d] + 1]
<1>1. held[p] \in [Descs -> Nat] /\ row \in [Descs -> Nat] /\ refs \in [Descs -> Nat]
  BY DEF TablesType
<1>2. Row(p, row)
  <2>1. held' = [held EXCEPT ![p] = row]
    OBVIOUS
  <2>2. refs' \in [Descs -> Int] /\ \A e \in Descs : refs'[e] = refs[e] + row[e] - held[p][e]
    BY <1>1
  <2>3. QED
    BY Zenon, <2>1, <2>2 DEF Row
<1>3. row[d] = held[p][d] + 1 /\ \A e \in Descs \ {d} : row[e] = held[p][e]
  BY <1>1
<1> HIDE DEF row
<1>4. SumFunction(row) = SumFunction(held[p]) - held[p][d] + row[d] /\ SumFunction(held[p]) \in Nat
  BY <1>1, <1>3, Finite, SumChange, SumType
<1>5. QED
  BY <1>1, <1>2, <1>3, <1>4 DEF Len

\* ... a close one shorter ...
LEMMA CloseRow ==
    ASSUME TablesType, NEW p \in Pids, NEW d \in Descs, held[p][d] > 0,
           held' = [held EXCEPT ![p][d] = @ - 1], refs' = [refs EXCEPT ![d] = @ - 1]
    PROVE  \E row \in [Descs -> Nat] : Row(p, row) /\ Len(row) = Len(held[p]) - 1
<1> DEFINE row == [held[p] EXCEPT ![d] = held[p][d] - 1]
<1>1. held[p] \in [Descs -> Nat] /\ row \in [Descs -> Nat] /\ refs \in [Descs -> Nat]
  BY DEF TablesType
<1>2. Row(p, row)
  <2>1. held' = [held EXCEPT ![p] = row]
    OBVIOUS
  <2>2. refs' \in [Descs -> Int] /\ \A e \in Descs : refs'[e] = refs[e] + row[e] - held[p][e]
    BY <1>1
  <2>3. QED
    BY Zenon, <2>1, <2>2 DEF Row
<1>3. row[d] = held[p][d] - 1 /\ \A e \in Descs \ {d} : row[e] = held[p][e]
  BY <1>1
<1> HIDE DEF row
<1>4. SumFunction(row) = SumFunction(held[p]) - held[p][d] + row[d] /\ SumFunction(held[p]) \in Nat
  BY <1>1, <1>3, Finite, SumChange, SumType
<1>5. QED
  BY <1>1, <1>2, <1>3, <1>4 DEF Len

\* ... dup2 leaves its length alone ...
LEMMA SwapRow ==
    ASSUME TablesType, NEW p \in Pids, NEW old \in Descs, NEW new \in Descs, held[p][old] > 0,
           Swap(p, old, new)
    PROVE  \E row \in [Descs -> Nat] : Row(p, row) /\ Len(row) = Len(held[p])
<1> DEFINE gain == [held[p] EXCEPT ![new] = held[p][new] + 1]
           row == [d \in Descs |-> held[p][d] + (IF d = new THEN 1 ELSE 0)
                                              - (IF d = old THEN 1 ELSE 0)]
<1>1. /\ held[p] \in [Descs -> Nat] /\ refs \in [Descs -> Nat]
      /\ gain \in [Descs -> Nat] /\ row \in [Descs -> Nat]
  BY DEF TablesType
<1>2. Row(p, row)
  BY <1>1 DEF Row, Swap
<1>3. gain[new] = held[p][new] + 1 /\ \A e \in Descs \ {new} : gain[e] = held[p][e]
  BY <1>1
<1>4. row[old] = gain[old] - 1 /\ \A e \in Descs \ {old} : row[e] = gain[e]
  BY <1>1
<1> HIDE DEF row, gain
<1>5. SumFunction(gain) = SumFunction(held[p]) - held[p][new] + gain[new]
  BY <1>1, <1>3, Finite, SumChange
<1>6. SumFunction(row) = SumFunction(gain) - gain[old] + row[old]
  BY <1>1, <1>4, Finite, SumChange
<1>7. SumFunction(held[p]) \in Nat
  BY <1>1, Finite, SumType
<1>8. SumFunction(row) = SumFunction(held[p])
  BY <1>1, <1>3, <1>4, <1>5, <1>6, <1>7
<1>9. QED
  BY <1>1, <1>2, <1>8 DEF Len

\* ... and taking the whole table empties it.
LEMMA TakeRow ==
    ASSUME TablesType, NEW p \in Pids, NEW c, TakeTable(c, p)
    PROVE  Row(p, Empty)
BY EmptyRow DEF TakeTable, Row, TablesType, Empty

---------------------------------------------------------------------------
(***************************************************************************)
(* The inductive invariant.                                                *)
(***************************************************************************)

\* No table is longer than allocate_fd lets it grow, or than it was created.
Fits == \A p \in Pids : Len(held[p]) <= scene.fds \/ Len(held[p]) <= NumStdio

\* Tables, descriptions and ends.
TableInv ==
    /\ scene \in Scenes
    /\ TablesType /\ Counted /\ Fits
    /\ KindType /\ Blank /\ EndsOpenWhileUsed

\* Processes and their tables.
ProcsType ==
    /\ status \in [Pids -> {"unused", "running", "exited", "reaped"}]
    /\ exiting \subseteq {p \in Pids : status[p] \in {"exited", "reaped"}}
    /\ tables \subseteq {p \in Pids : status[p] # "unused"}
    /\ \A p \in Pids \ tables : held[p] = Empty

\* The API call in progress.  While it spawns, there is a pid left for the child.
Spawning == api.op \in {"spawn", "fork"}
ApiType ==
    \/ api = NoCall
    \/ /\ api \in [op : {"spawn", "fork"}, parent : Pids \cup {0}, inherited : Nat]
       /\ \E p \in Pids : status[p] = "unused"
    \/ api \in [op : {"reap"}, pid : Pids]
    \/ api \in [op : {"terminate"}, killed : SUBSET Pids]
    \/ api \in [op : {"dispose"}, pids : SUBSET Pids]

\* The descriptors a spawn counted are still enough for its parent's table, and
\* once it is admitted there is room for them.
Promised ==
    Spawning =>
        /\ api.parent \in tables => Len(held[api.parent]) <= api.inherited
        /\ api.parent = 0 => api.inherited = NumStdio
        /\ api.op = "fork" /\ scene.limited => OpenFds + api.inherited <= scene.fds

Inv ==
    /\ TableInv /\ ProcsType
    /\ closing \in [Closers -> [Descs -> Nat]]
    /\ terminated \in BOOLEAN
    /\ FlockType
    /\ ApiType /\ Promised

\* What LimitKept says of one step.
Within == scene.limited /\ OpenFds <= scene.fds /\ OpenFds' > scene.fds
              => api.op = "fork" /\ api.parent \in Pids \ tables

\* What a scene says of limits, processes and threads.
LEMMA SceneType ==
    ASSUME scene \in Scenes
    PROVE  /\ scene.fds \in Nat /\ scene.limited \in BOOLEAN
           /\ scene.pids \subseteq Pids /\ scene.flockers \subseteq Flockers
BY DescriptorsAssumption DEF Scene

\* A table that is replaced keeps the invariant of the tables, if it is not too
\* long and gets no entry for a description without a reference.
LEMMA RowKeeps ==
    ASSUME TableInv, NEW p \in Pids, NEW row \in [Descs -> Nat], Row(p, row),
           scene' = scene, kind' = kind, registered' = registered,
           \A d \in Descs : row[d] > held[p][d] => refs[d] > 0,
           Len(row) <= Len(held[p]) \/ Len(row) <= scene.fds \/ Len(row) <= NumStdio
    PROVE  TableInv'
<1>1. /\ TablesType' /\ Counted'
      /\ held'[p] = row /\ \A q \in Pids \ {p} : held'[q] = held[q]
  BY RowCounts DEF TableInv
<1>2. Fits'
  <2>1. Len(held[p]) \in Nat /\ Len(row) \in Nat /\ scene.fds \in Nat /\ NumStdio \in Nat
    BY LenType, Finite, SumType, SceneType, DescriptorsAssumption DEF TableInv, Len
  <2>2. \A q \in Pids : Len(held[q]) <= scene.fds \/ Len(held[q]) <= NumStdio
    BY DEF TableInv, Fits
  <2>3. Len(row) <= scene.fds \/ Len(row) <= NumStdio
    BY <2>1, <2>2
  <2>4. \A q \in Pids : Len(held'[q]) <= scene.fds \/ Len(held'[q]) <= NumStdio
    BY <1>1, <2>2, <2>3
  <2>5. QED
    BY <2>4 DEF Fits, Len
<1>3. \A d \in Descs : refs'[d] > 0 => refs[d] > 0
  <2> SUFFICES ASSUME NEW d \in Descs, refs'[d] > 0 PROVE refs[d] > 0
    OBVIOUS
  <2>1. refs'[d] = refs[d] + row[d] - held[p][d]
    BY DEF Row
  <2>2. refs[d] \in Nat /\ held[p][d] \in Nat /\ row[d] \in Nat
    BY DEF TableInv, TablesType
  <2>3. QED
    BY <2>1, <2>2
<1>4. \A d \in Descs : refs[d] \in Nat /\ refs'[d] \in Nat
  BY <1>1 DEF TableInv, TablesType
<1>5. KindType' /\ Blank' /\ EndsOpenWhileUsed'
  BY <1>3, <1>4 DEF TableInv, KindType, Blank, EndsOpenWhileUsed
<1>6. QED
  BY Zenon, <1>1, <1>2, <1>5 DEF TableInv

\* dup keeps the invariant of the tables and the limit,
LEMMA DupKeeps ==
    ASSUME TableInv, NEW p \in Pids, NEW d \in Descs, Dup(p, d)
    PROVE  TableInv' /\ Within
<1>0. TablesType /\ Counted /\ scene \in Scenes /\ scene' = scene /\ UNCHANGED <<kind, registered>>
  BY DEF TableInv, Dup
<1>1. PICK row \in [Descs -> Nat] : Row(p, row) /\ Len(row) = Len(held[p]) + 1
  BY Zenon, <1>0, DupRow DEF Dup
<1>2. Len(held[p]) \in Nat /\ OpenFds \in Nat /\ scene.fds \in Nat
  BY <1>0, LenType, SceneType
<1>3. Len(row) <= scene.fds
  BY <1>1, <1>2 DEF Dup, Full
<1>4. ASSUME NEW e \in Descs, row[e] > held[p][e] PROVE refs[e] > 0
  <2>1. held' = [held EXCEPT ![p][d] = @ + 1] /\ held' = [held EXCEPT ![p] = row]
    BY Zenon, <1>1 DEF Dup, Row
  <2>2. row[e] = held'[p][e] /\ (e # d => held'[p][e] = held[p][e])
    BY <2>1, <1>0 DEF TablesType
  <2>3. held[p][e] \in Nat /\ refs[e] \in Nat /\ row[e] \in Nat
    BY <1>0 DEF TablesType
  <2>4. e = d
    BY <1>4, <2>2, <2>3
  <2>5. held[p][d] <= refs[d] /\ held[p][d] > 0
    BY <1>0, HeldCounted DEF Dup
  <2>6. QED
    BY <2>3, <2>4, <2>5
<1>5. TableInv'
  BY <1>0, <1>1, <1>3, <1>4, RowKeeps
<1>6. OpenFds' = OpenFds - Len(held[p]) + Len(row)
  BY <1>0, <1>1, RowCounts
<1>7. scene.limited => OpenFds + 1 <= scene.fds
  BY DEF Dup, Admits
<1>8. QED
  BY <1>1, <1>2, <1>5, <1>6, <1>7 DEF Within

\* so does close,
LEMMA CloseKeeps ==
    ASSUME TableInv, NEW p \in Pids, NEW d \in Descs, Close(p, d)
    PROVE  TableInv' /\ Within
<1>0. TablesType /\ Counted /\ scene \in Scenes /\ scene' = scene /\ UNCHANGED <<kind, registered>>
  BY DEF TableInv, Close
<1>1. PICK row \in [Descs -> Nat] : Row(p, row) /\ Len(row) = Len(held[p]) - 1
  BY Zenon, <1>0, CloseRow DEF Close
<1>2. Len(held[p]) \in Nat /\ OpenFds \in Nat /\ scene.fds \in Nat
  BY <1>0, LenType, SceneType
<1>3. Len(row) <= Len(held[p])
  BY <1>1, <1>2
<1>4. \A e \in Descs : ~ (row[e] > held[p][e])
  <2>1. held' = [held EXCEPT ![p][d] = @ - 1] /\ held' = [held EXCEPT ![p] = row]
    BY Zenon, <1>1 DEF Close, Row
  <2>2. \A e \in Descs : row[e] = held'[p][e] /\ held'[p][e] <= held[p][e]
    BY <2>1, <1>0 DEF TablesType
  <2>3. \A e \in Descs : held[p][e] \in Nat /\ row[e] \in Nat
    BY <1>0 DEF TablesType
  <2>4. QED
    BY <2>2, <2>3
<1>5. TableInv'
  BY <1>0, <1>1, <1>3, <1>4, RowKeeps
<1>6. OpenFds' = OpenFds - Len(held[p]) + Len(row)
  BY <1>0, <1>1, RowCounts
<1>7. QED
  BY <1>1, <1>2, <1>5, <1>6 DEF Within

\* and so does dup2.
LEMMA Dup2Keeps ==
    ASSUME TableInv, NEW p \in Pids, NEW d \in Descs, NEW e \in Descs, Dup2(p, d, e)
    PROVE  TableInv' /\ Within
<1>0. TablesType /\ Counted /\ scene \in Scenes /\ scene' = scene /\ UNCHANGED <<kind, registered>>
  BY DEF TableInv, Dup2
<1>1. held[p][d] > 0 /\ held[p][e] > 0 /\ Swap(p, e, d)
  BY <1>0 DEF Dup2, TablesType
<1>2. PICK row \in [Descs -> Nat] : Row(p, row) /\ Len(row) = Len(held[p])
  BY <1>0, <1>1, SwapRow
<1>3. Len(held[p]) \in Nat /\ OpenFds \in Nat /\ scene.fds \in Nat
  BY <1>0, LenType, SceneType
<1>4. ASSUME NEW c \in Descs, row[c] > held[p][c] PROVE refs[c] > 0
  <2>1. /\ held' = [held EXCEPT ![p] = row]
        /\ held' = [held EXCEPT ![p] = [f \in Descs |-> held[p][f] + (IF f = d THEN 1 ELSE 0)
                                                              - (IF f = e THEN 1 ELSE 0)]]
    BY Zenon, <1>1, <1>2 DEF Swap, Row
  <2>2. row[c] = held[p][c] + (IF c = d THEN 1 ELSE 0) - (IF c = e THEN 1 ELSE 0)
    BY <2>1, <1>0 DEF TablesType
  <2>3. held[p][c] \in Nat /\ refs[c] \in Nat
    BY <1>0 DEF TablesType
  <2>4. c = d
    BY <1>4, <2>2, <2>3
  <2>5. held[p][d] <= refs[d]
    BY <1>0, HeldCounted
  <2>6. QED
    BY <1>1, <2>3, <2>4, <2>5
<1>5. TableInv'
  BY <1>0, <1>2, <1>3, <1>4, RowKeeps
<1>6. OpenFds' = OpenFds - Len(held[p]) + Len(row)
  BY <1>0, <1>2, RowCounts
<1>7. QED
  BY <1>2, <1>3, <1>5, <1>6 DEF Within

\* Taking a table away shortens it and lengthens no other.
LEMMA TakeKeeps ==
    ASSUME TableInv, NEW p \in Pids, NEW c, TakeTable(c, p),
           scene' = scene, kind' = kind, registered' = registered
    PROVE  /\ TableInv' /\ Within
           /\ held'[p] = Empty
           /\ \A q \in Pids \ {p} : held'[q] = held[q]
           /\ OpenFds' \in Nat /\ OpenFds' <= OpenFds
<1>0. TablesType /\ Counted /\ scene \in Scenes
  BY DEF TableInv
<1>1. Row(p, Empty) /\ Empty \in [Descs -> Nat] /\ Len(Empty) = 0
  BY <1>0, TakeRow, EmptyRow
<1>2. /\ Len(held[p]) \in Nat /\ OpenFds \in Nat /\ scene.fds \in Nat
      /\ Len(held[p]) <= OpenFds
  BY <1>0, LenType, SceneType
<1>3. \A e \in Descs : ~ (Empty[e] > held[p][e])
  BY <1>0 DEF Empty, TablesType
<1>4. TableInv'
  BY <1>1, <1>2, <1>3, RowKeeps
<1>5. OpenFds' = OpenFds - Len(held[p]) + Len(Empty)
  BY <1>0, <1>1, RowCounts
<1>6. OpenFds' \in Nat /\ OpenFds' <= OpenFds /\ Within
  BY <1>1, <1>2, <1>5 DEF Within
<1>7. held'[p] = Empty /\ \A q \in Pids \ {p} : held'[q] = held[q]
  BY <1>0, <1>1, RowCounts
<1>8. QED
  BY <1>4, <1>6, <1>7

\* A process without a table gets a copy of another's ...
LEMMA ForkKeeps ==
    ASSUME TableInv, NEW parent \in Pids, NEW p \in Pids, held[p] = Empty, Fork(parent, p),
           scene' = scene, registered' = registered
    PROVE  /\ TableInv'
           /\ OpenFds' = OpenFds + Len(held[parent])
<1>0. TablesType /\ Counted /\ scene \in Scenes /\ kind' = kind
  BY DEF TableInv, Fork
<1>1. held[parent] \in [Descs -> Nat] /\ \A d \in Descs : held[p][d] = 0
  BY <1>0 DEF TablesType, Empty
<1>2. Row(p, held[parent])
  <2>1. held' = [held EXCEPT ![p] = held[parent]] /\ refs' = [d \in Descs |-> refs[d] + held[parent][d]]
    BY DEF Fork
  <2>2. \A d \in Descs : refs[d] + held[parent][d] = refs[d] + held[parent][d] - held[p][d]
    BY <1>0, <1>1 DEF TablesType
  <2>3. QED
    BY <2>1, <2>2 DEF Row
<1>3. /\ Len(held[p]) = 0 /\ Len(held[parent]) \in Nat /\ OpenFds \in Nat
      /\ scene.fds \in Nat /\ NumStdio \in Nat
  BY <1>0, LenType, SceneType, EmptyRow, DescriptorsAssumption
<1>4. Len(held[parent]) <= scene.fds \/ Len(held[parent]) <= NumStdio
  BY DEF TableInv, Fits
<1>5. ASSUME NEW d \in Descs, held[parent][d] > held[p][d] PROVE refs[d] > 0
  <2>1. held[parent][d] <= refs[d] /\ held[parent][d] \in Nat /\ refs[d] \in Nat
    BY <1>0, HeldCounted DEF TablesType
  <2>2. QED
    BY <1>1, <1>5, <2>1
<1>6. TableInv'
  BY <1>0, <1>1, <1>2, <1>4, <1>5, RowKeeps
<1>7. OpenFds' = OpenFds - Len(held[p]) + Len(held[parent])
  BY <1>0, <1>1, <1>2, RowCounts
<1>8. QED
  BY <1>3, <1>6, <1>7

\* ... or entries for descriptions that were unused.
LEMMA OnesKeep ==
    ASSUME TableInv, NEW p \in Pids,
           NEW A \in SUBSET Descs, \A d \in A : kind[d] = "none",
           held' = [held EXCEPT ![p] = [d \in Descs |-> IF d \in A THEN 1 ELSE held[p][d]]],
           refs' = [d \in Descs |-> IF d \in A THEN 1 ELSE refs[d]],
           KindType', \A d \in Descs \ A : kind'[d] = kind[d],
           \A d \in A : kind'[d] # "none" /\ (kind'[d] \in PairEnds => d \in registered'),
           registered \subseteq registered', scene' = scene,
           \/ Len(held[p]) + Cardinality(A) <= scene.fds
           \/ Len(held[p]) + Cardinality(A) <= NumStdio
    PROVE  /\ TableInv'
           /\ OpenFds' = OpenFds + Cardinality(A)
<1> DEFINE row == [d \in Descs |-> IF d \in A THEN 1 ELSE held[p][d]]
<1>0. TablesType /\ Counted /\ Blank /\ scene \in Scenes
  BY DEF TableInv
<1>1. row \in [Descs -> Nat] /\ Row(p, row) /\ Len(row) = Len(held[p]) + Cardinality(A)
  BY Zenon, <1>0, OnesRow
<1> HIDE DEF row
<1>2. /\ TablesType' /\ Counted'
      /\ held'[p] = row
      /\ \A q \in Pids \ {p} : held'[q] = held[q]
      /\ OpenFds' = OpenFds - Len(held[p]) + Len(row)
  BY Zenon, <1>0, <1>1, RowCounts
<1>3. Fits'
  <2>1. \A q \in Pids : Len(held[q]) <= scene.fds \/ Len(held[q]) <= NumStdio
    BY DEF TableInv, Fits
  <2>2. \A q \in Pids : Len(held'[q]) <= scene.fds \/ Len(held'[q]) <= NumStdio
    BY Zenon, <1>1, <1>2, <2>1
  <2>3. QED
    BY <2>2 DEF Fits, Len
<1>4. \A d \in Descs : refs[d] \in Nat /\ refs'[d] = IF d \in A THEN 1 ELSE refs[d]
  BY <1>0 DEF TablesType
<1>5. Blank'
  BY <1>4 DEF TableInv, Blank
<1>6. EndsOpenWhileUsed'
  BY <1>4 DEF TableInv, EndsOpenWhileUsed
<1>7. Len(held[p]) \in Nat /\ OpenFds \in Nat /\ Cardinality(A) \in Nat
  BY Zenon, <1>0, LenType, Finite, FS_Subset, FS_CardinalityType
<1>8. QED
  BY SMTT(30), <1>1, <1>2, <1>3, <1>5, <1>6, <1>7 DEF TableInv

\* A new table with the standard streams keeps the invariant.
LEMMA CreateKeeps ==
    ASSUME TableInv, NEW p \in Pids, held[p] = Empty, Create(p),
           scene' = scene, registered' = registered
    PROVE  /\ TableInv'
           /\ OpenFds' \in Nat /\ OpenFds' <= OpenFds + NumStdio
<1>0. scene \in Scenes /\ NumStdio \in Nat /\ TablesType /\ KindType
  BY DescriptorsAssumption DEF TableInv
<1>1. PICK std : std = Fresh(NumStdio)
  OBVIOUS
<1>2. /\ std \in SUBSET Descs
      /\ \A d \in std : kind[d] = "none"
      /\ Cardinality(std) \in Nat /\ Cardinality(std) <= NumStdio
  BY <1>0, <1>1, FreshType
<1>3. /\ held' = [held EXCEPT ![p] = [d \in Descs |-> IF d \in std THEN 1 ELSE 0]]
      /\ kind' = [d \in Descs |-> IF d \in std THEN "char" ELSE kind[d]]
      /\ refs' = [d \in Descs |-> IF d \in std THEN 1 ELSE refs[d]]
  BY Zenon, <1>1 DEF Create
<1>4. \A d \in Descs : held[p][d] = 0
  BY DEF Empty
<1>5. held' = [held EXCEPT ![p] = [d \in Descs |-> IF d \in std THEN 1 ELSE held[p][d]]]
  BY Zenon, <1>3, <1>4
<1>6. /\ KindType' /\ \A d \in Descs \ std : kind'[d] = kind[d]
      /\ \A d \in std : kind'[d] = "char"
  BY <1>0, <1>2, <1>3 DEF KindType
<1>7. \A d \in std : kind'[d] # "none" /\ ~ (kind'[d] \in PairEnds)
  BY <1>6 DEF PairEnds
<1>8. Len(held[p]) = 0 /\ OpenFds \in Nat
  BY <1>0, EmptyRow, LenType
<1>9. Len(held[p]) + Cardinality(std) <= NumStdio
  BY <1>0, <1>2, <1>8
<1>10. TableInv' /\ OpenFds' = OpenFds + Cardinality(std)
  BY Zenon, <1>2, <1>3, <1>5, <1>6, <1>7, <1>9, OnesKeep
<1>11. QED
  BY <1>0, <1>2, <1>8, <1>10

\* open keeps the invariant of the tables and the limit,
LEMMA OpenKeeps ==
    ASSUME TableInv, NEW p \in Pids, Open(p)
    PROVE  TableInv' /\ Within
<1>0. /\ scene \in Scenes /\ scene' = scene /\ registered' = registered
      /\ TablesType /\ KindType
  BY DEF TableInv, Open
<1>1. PICK d \in Fresh(1) : /\ held' = [held EXCEPT ![p][d] = 1]
                            /\ kind' = [kind EXCEPT ![d] = "file"]
                            /\ refs' = [refs EXCEPT ![d] = 1]
  BY Zenon DEF Open
<1>2. d \in Descs /\ kind[d] = "none" /\ {d} \in SUBSET Descs
  BY <1>0, FreshType
<1>3. /\ held' = [held EXCEPT ![p] = [e \in Descs |-> IF e \in {d} THEN 1 ELSE held[p][e]]]
      /\ refs' = [e \in Descs |-> IF e \in {d} THEN 1 ELSE refs[e]]
  BY Zenon, <1>0, <1>1, <1>2 DEF TablesType
<1>4. /\ KindType' /\ \A e \in Descs \ {d} : kind'[e] = kind[e]
      /\ kind'[d] = "file" /\ ~ ("file" \in PairEnds)
  BY <1>0, <1>1, <1>2 DEF KindType, PairEnds
<1>5. Cardinality({d}) = 1
  BY Zenon, FS_Singleton
<1>6. Len(held[p]) \in Nat /\ scene.fds \in Nat /\ OpenFds \in Nat
  BY <1>0, LenType, SceneType
<1>7. Len(held[p]) + Cardinality({d}) <= scene.fds
  BY <1>5, <1>6 DEF Open, Full
<1>8. TableInv' /\ OpenFds' = OpenFds + Cardinality({d})
  BY <1>0, <1>2, <1>3, <1>4, <1>7, OnesKeep
<1>9. scene.limited => OpenFds + 1 <= scene.fds
  BY DEF Open, Admits
<1>10. QED
  BY <1>5, <1>6, <1>8, <1>9 DEF Within

\* A step that leaves tables and counts alone.
LEMMA SameTables ==
    ASSUME TableInv, UNCHANGED <<held, refs, scene>>
    PROVE  TablesType' /\ Counted' /\ Fits' /\ Within
<1>1. TablesType' /\ Counted'
  BY DEF TableInv, TablesType, Counted, Count
<1>2. Fits'
  BY DEF TableInv, Fits, Len
<1>3. OpenFds' = OpenFds
  BY DEF OpenFds, Len
<1>4. OpenFds \in Nat /\ scene.fds \in Nat
  BY LenType, SceneType DEF TableInv
<1>5. QED
  BY <1>1, <1>2, <1>3, <1>4 DEF Within

\* and so do the calls that open the two ends of a pipe or a PTY.
LEMMA OpenPairKeeps ==
    ASSUME TableInv, NEW p \in Pids, OpenPair(p)
    PROVE  TableInv' /\ Within
<1>0. scene \in Scenes /\ scene' = scene /\ TablesType /\ KindType /\ Blank /\ EndsOpenWhileUsed
  BY DEF TableInv, OpenPair
<1>1. PICK pair : pair = Fresh(2)
  OBVIOUS
<1>2. pair \in SUBSET Descs /\ \A d \in pair : kind[d] = "none"
  BY <1>0, <1>1, FreshType
<1>3. /\ kind' = [d \in Descs |-> IF d \notin pair THEN kind[d]
                                  ELSE IF d - 1 \in pair THEN "second" ELSE "first"]
      /\ Cardinality(pair) = 2
      /\ scene.limited => OpenFds + 2 <= scene.fds
  BY <1>1 DEF OpenPair, Admits
<1>4. /\ kind' \in [Descs -> {"none", "char", "file"} \cup PairEnds]
      /\ \A d \in Descs \ pair : kind'[d] = kind[d]
      /\ \A d \in pair : kind'[d] \in PairEnds /\ kind'[d] # "none"
  BY <1>0, <1>2, <1>3 DEF KindType, PairEnds
<1>5. CASE /\ Len(held[p]) + 2 <= scene.fds
           /\ held' = [held EXCEPT ![p] = [d \in Descs |-> IF d \in pair THEN 1 ELSE held[p][d]]]
           /\ refs' = [d \in Descs |-> IF d \in pair THEN 1 ELSE refs[d]]
           /\ registered' = registered \cup pair
  <2>1. KindType'
    BY <1>0, <1>2, <1>4, <1>5 DEF KindType
  <2>2. Len(held[p]) + Cardinality(pair) <= scene.fds
    BY <1>3, <1>5
  <2>3. registered \subseteq registered' /\ \A d \in pair : d \in registered'
    BY <1>5
  <2>4. TableInv' /\ OpenFds' = OpenFds + Cardinality(pair)
    BY <1>0, <1>2, <1>4, <1>5, <2>1, <2>2, <2>3, OnesKeep
  <2>5. OpenFds \in Nat /\ scene.fds \in Nat
    BY <1>0, LenType, SceneType
  <2>6. QED
    BY <1>3, <2>4, <2>5 DEF Within
<1>6. CASE /\ UNCHANGED <<held, refs>>
           /\ registered' = registered \/ registered' = registered \cup pair
  <2>1. \A d \in pair : refs'[d] = 0
    BY <1>0, <1>2, <1>6 DEF Blank
  <2>2. KindType'
    BY <1>0, <1>2, <1>4, <1>6 DEF KindType
  <2>3. Blank'
    BY <1>0, <1>4, <1>6 DEF Blank
  <2>4. EndsOpenWhileUsed'
    BY <1>0, <1>4, <1>6, <2>1 DEF EndsOpenWhileUsed
  <2>5. QED
    BY <1>0, <1>6, <2>2, <2>3, <2>4, SameTables DEF TableInv
<1>7. QED
  BY <1>1, <1>5, <1>6 DEF OpenPair

\* register_process has a pid for the child, and no table under it yet.
LEMMA ChildFree ==
    ASSUME ProcsType, \E p \in Pids : status[p] = "unused"
    PROVE  LET unused == {p \in Pids : status[p] = "unused"}
               child == CHOOSE p \in unused : \A q \in unused : p <= q
           IN  child \in Pids /\ status[child] = "unused" /\ child \notin tables /\ held[child] = Empty
<1> DEFINE unused == {p \in Pids : status[p] = "unused"}
           child == CHOOSE p \in unused : \A q \in unused : p <= q
<1>1. unused \in SUBSET Nat /\ unused # {}
  BY Zenon, DescriptorsAssumption
<1>2. \E p \in unused : \A q \in unused : p <= q
  BY Zenon, <1>1, LeastNat
<1>3. child \in unused
  BY <1>2
<1>4. child \notin tables
  BY <1>3 DEF ProcsType
<1> HIDE DEF child
<1>5. QED
  BY <1>3, <1>4 DEF ProcsType, child

\* The second half of spawn keeps the invariant, whether the parent still has a
\* table to fork or has gone meanwhile.
LEMMA SpawnForkKeeps ==
    ASSUME Inv, SpawnFork
    PROVE  TableInv' /\ ProcsType' /\ Within
<1>0. /\ TableInv /\ ProcsType /\ Promised /\ scene \in Scenes /\ TablesType
      /\ api.op = "fork" /\ Spawning /\ api.parent \in Pids \cup {0} /\ api.inherited \in Nat
      /\ \E p \in Pids : status[p] = "unused"
  BY DEF Inv, TableInv, ApiType, NoCall, SpawnFork, Spawning
<1>1. PICK child \in Pids :
         /\ status[child] = "unused" /\ child \notin tables /\ held[child] = Empty
         /\ IF api.parent \in tables THEN Fork(api.parent, child) ELSE Create(child)
         /\ tables' = tables \cup {child}
         /\ status' = [status EXCEPT ![child] = "running"]
  BY Zenon, <1>0, ChildFree DEF SpawnFork
<1>2. scene' = scene /\ registered' = registered /\ exiting' = exiting
  BY DEF SpawnFork
<1>3. OpenFds \in Nat /\ scene.fds \in Nat /\ NumStdio \in Nat
  BY <1>0, LenType, SceneType, DescriptorsAssumption
<1>4. ProcsType'
  <2>1. \A q \in Pids \ {child} : held'[q] = held[q]
    <3>1. \E row : held' = [held EXCEPT ![child] = row]
      BY <1>1 DEF Fork, Create
    <3>2. QED
      BY <1>0, <3>1 DEF TablesType
  <2>2. QED
    BY <1>0, <1>1, <1>2, <2>1 DEF ProcsType
<1>5. CASE api.parent \in tables
  <2>1. api.parent \in Pids /\ Fork(api.parent, child)
    BY <1>0, <1>1, <1>5 DEF ProcsType
  <2>2. TableInv' /\ OpenFds' = OpenFds + Len(held[api.parent])
    BY <1>0, <1>1, <1>2, <2>1, ForkKeeps
  <2>3. Len(held[api.parent]) <= api.inherited /\ Len(held[api.parent]) \in Nat
    BY <1>0, <1>5, <2>1, LenType DEF Promised
  <2>4. scene.limited => OpenFds + api.inherited <= scene.fds
    BY <1>0 DEF Promised
  <2>5. QED
    BY <1>0, <1>3, <1>4, <2>2, <2>3, <2>4 DEF Within
<1>6. CASE api.parent \notin tables
  <2>1. TableInv' /\ OpenFds' \in Nat /\ OpenFds' <= OpenFds + NumStdio
    BY <1>0, <1>1, <1>2, <1>6, CreateKeeps
  <2>2. CASE api.parent = 0
    <3>1. scene.limited => OpenFds + NumStdio <= scene.fds
      BY <1>0, <2>2 DEF Promised
    <3>2. QED
      BY <1>3, <1>4, <2>1, <3>1 DEF Within
  <2>3. CASE api.parent \in Pids
    BY <1>0, <1>6, <1>4, <2>1, <2>3 DEF Within
  <2>4. QED
    BY <1>0, <2>2, <2>3
<1>7. QED
  BY <1>5, <1>6

\* close_special_resource_if_needed takes an end away only without references.
LEMMA CloseNextKeeps ==
    ASSUME TableInv, NEW c \in Closers, CloseNext(c)
    PROVE  TableInv' /\ Within
<1>0. UNCHANGED <<held, refs, kind, scene>>
  BY DEF CloseNext, tableVars
<1>1. PICK d \in Descs : CloseSpecial(c, d)
  BY DEF CloseNext
<1>2. registered' = registered \/ (refs[d] = 0 /\ registered' = registered \ {d})
  BY <1>1 DEF CloseSpecial
<1>3. KindType' /\ Blank'
  BY <1>0, <1>2 DEF TableInv, KindType, Blank
<1>4. EndsOpenWhileUsed'
  BY <1>0, <1>2 DEF TableInv, EndsOpenWhileUsed
<1>5. QED
  BY <1>0, <1>3, <1>4, SameTables DEF TableInv

\* A step that leaves tables, descriptions and ends alone.
Idle == UNCHANGED <<held, refs, kind, registered, scene>>
\* It keeps the invariant of the tables.
LEMMA IdleKeeps ==
    ASSUME TableInv, Idle
    PROVE  TableInv' /\ Within
BY SameTables DEF TableInv, Idle, KindType, Blank, EndsOpenWhileUsed

\* A table is taken away by the exit callback, waitpid and dispose.
LEMMA Takes ==
    ASSUME Inv, (\E p \in Pids : ExitCallback(p)) \/ WaitpidCleanup \/ DisposeNext
    PROVE  \E p \in Pids, c \in Closers : /\ TakeTable(c, p)
                                          /\ UNCHANGED <<status, kind, registered, terminated, scene>>
                                          /\ exiting' \subseteq exiting
<1>1. ASSUME NEW p \in Pids, ExitCallback(p) PROVE TakeTable(p, p) /\ p \in Closers
  BY <1>1 DEF ExitCallback, Closers
<1>2. ASSUME WaitpidCleanup PROVE TakeTable(Api, api.pid) /\ api.pid \in Pids /\ Api \in Closers
  BY <1>2 DEF WaitpidCleanup, Inv, ApiType, NoCall, Closers
<1>3. ASSUME DisposeNext PROVE \E p \in Pids : TakeTable(Api, p) /\ Api \in Closers
  <2>1. PICK p \in api.pids : TakeTable(Api, p)
    BY <1>3 DEF DisposeNext
  <2>2. api.pids \subseteq Pids
    BY <1>3 DEF DisposeNext, Inv, ApiType, NoCall
  <2>3. QED
    BY <2>1, <2>2 DEF Closers
<1>4. UNCHANGED <<status, kind, registered, terminated, scene>> /\ exiting' \subseteq exiting
  BY DEF ExitCallback, WaitpidCleanup, DisposeNext, procVars
<1>5. QED
  BY <1>1, <1>2, <1>3, <1>4

\* Every step keeps the invariant of the tables and stays within the limit.
LEMMA TablesStep ==
    ASSUME Inv, Next
    PROVE  TableInv' /\ Within
<1>0. TableInv
  BY DEF Inv
<1>1. CASE \E p \in Pids : Open(p) \/ OpenPair(p)
  BY <1>0, <1>1, OpenKeeps, OpenPairKeeps
<1>2. CASE \E p \in Pids, d \in Descs : Dup(p, d) \/ Close(p, d)
  BY <1>0, <1>2, DupKeeps, CloseKeeps
<1>3. CASE \E p \in Pids, d, e \in Descs : Dup2(p, d, e)
  BY <1>0, <1>3, Dup2Keeps
<1>4. CASE \E c \in Closers : CloseNext(c)
  BY <1>0, <1>4, CloseNextKeeps
<1>5. CASE (\E p \in Pids : ExitCallback(p)) \/ WaitpidCleanup \/ DisposeNext
  <2>1. PICK p \in Pids, c \in Closers : TakeTable(c, p) /\ UNCHANGED <<kind, registered, scene>>
    BY <1>5, Takes
  <2>2. QED
    BY <1>0, <2>1, TakeKeeps
<1>6. CASE SpawnFork
  BY <1>6, SpawnForkKeeps
<1>7. CASE \/ \E p \in Pids \cup {0} : SpawnStart(p)
           \/ \E p \in Pids : Exit(p) \/ Waitpid(p) \/ ZombieReap(p)
           \/ SpawnAdmit \/ DisposeTables \/ DisposeEnd \/ DisposeKill
  <2>1. Idle
    BY <1>7 DEF SpawnStart, Exit, Waitpid, ZombieReap, SpawnAdmit, DisposeTables, DisposeEnd,
                DisposeKill, Idle, tableVars
  <2>2. QED
    BY <1>0, <2>1, IdleKeeps
<1>8. CASE \/ \E th \in scene.flockers, p \in Pids, d \in Descs : FlockEntry(th, p, d)
           \/ \E th \in Flockers : FlockApply(th) \/ SpuriousWake(th)
           \/ \E th \in LockThreads : LockStep(th)
  <2>1. Idle
    BY Zenon, <1>8 DEF FlockEntry, FlockApply, LockStep, SpuriousWake, Idle, tableVars
  <2>2. QED
    BY <1>0, <2>1, IdleKeeps
<1>9. QED
  BY Zenon, <1>1, <1>2, <1>3, <1>4, <1>5, <1>6, <1>7, <1>8 DEF Next, ApiStep

\* A process without a table has no descriptors.
LEMMA ProcsStep ==
    ASSUME Inv, Next
    PROVE  ProcsType'
<1>0. ProcsType /\ TablesType /\ TableInv
  BY DEF Inv, TableInv
<1>1. CASE \E p \in Pids : Open(p) \/ OpenPair(p)
  <2>1. PICK p \in tables : \E row : held' = [held EXCEPT ![p] = row] \/ held' = held
    BY <1>1 DEF Open, OpenPair
  <2>2. UNCHANGED <<status, exiting, tables>>
    BY <1>1 DEF Open, OpenPair, procVars
  <2>3. QED
    BY <1>0, <2>1, <2>2 DEF ProcsType, TablesType
<1>2. CASE \E p \in Pids, d, e \in Descs : Dup(p, d) \/ Close(p, d) \/ Dup2(p, d, e)
  <2>1. PICK p \in tables : \E row : held' = [held EXCEPT ![p] = row]
    BY <1>2 DEF Dup, Close, Dup2, Swap
  <2>2. UNCHANGED <<status, exiting, tables>>
    BY <1>2 DEF Dup, Close, Dup2, procVars
  <2>3. QED
    BY <1>0, <2>1, <2>2 DEF ProcsType, TablesType
<1>3. CASE (\E p \in Pids : ExitCallback(p)) \/ WaitpidCleanup \/ DisposeNext
  <2>1. PICK p \in Pids, c \in Closers : /\ TakeTable(c, p)
                                         /\ UNCHANGED <<status, kind, registered, scene>>
                                         /\ exiting' \subseteq exiting
    BY <1>3, Takes
  <2>2. held'[p] = Empty /\ \A q \in Pids \ {p} : held'[q] = held[q]
    BY <1>0, <2>1, TakeKeeps
  <2>3. QED
    BY <1>0, <2>1, <2>2 DEF ProcsType, TakeTable
<1>4. CASE SpawnFork
  BY <1>4, SpawnForkKeeps
<1>5. CASE \E p \in Pids : Exit(p) \/ Waitpid(p) \/ ZombieReap(p)
  BY <1>0, <1>5 DEF Exit, Waitpid, ZombieReap, tableVars, ProcsType
<1>6. CASE DisposeKill
  BY <1>0, <1>6 DEF DisposeKill, tableVars, ProcsType
<1>7. CASE \/ \E p \in Pids \cup {0} : SpawnStart(p)
           \/ SpawnAdmit \/ DisposeTables \/ DisposeEnd
           \/ \E c \in Closers : CloseNext(c)
           \/ \E th \in scene.flockers, p \in Pids, d \in Descs : FlockEntry(th, p, d)
           \/ \E th \in Flockers : FlockApply(th) \/ SpuriousWake(th)
           \/ \E th \in LockThreads : LockStep(th)
  <2>1. UNCHANGED <<status, exiting, tables, held>>
    BY <1>7 DEF SpawnStart, SpawnAdmit, DisposeTables, DisposeEnd, CloseNext, FlockEntry, FlockApply,
                LockStep, SpuriousWake, tableVars, procVars
  <2>2. QED
    BY <1>0, <2>1 DEF ProcsType
<1>8. QED
  BY Zenon, <1>1, <1>2, <1>3, <1>4, <1>5, <1>6, <1>7 DEF Next, ApiStep

\* What a closer still has to pass on.
LEMMA ClosingStep ==
    ASSUME Inv, Next
    PROVE  closing' \in [Closers -> [Descs -> Nat]] /\ terminated' \in BOOLEAN
<1>0. /\ closing \in [Closers -> [Descs -> Nat]] /\ terminated \in BOOLEAN
      /\ TablesType /\ Api \in Closers
  BY DEF Inv, TableInv, Closers
<1>1. CASE \E p \in Pids, d, e \in Descs : Close(p, d) \/ Dup2(p, d, e)
  BY <1>0, <1>1 DEF Close, Dup2
<1>2. CASE \E c \in Closers : CloseNext(c)
  BY <1>0, <1>2 DEF CloseNext
<1>3. CASE (\E p \in Pids : ExitCallback(p)) \/ WaitpidCleanup \/ DisposeNext
  <2>1. PICK p \in Pids, c \in Closers : TakeTable(c, p) /\ terminated' = terminated
    BY <1>3, Takes
  <2>2. QED
    BY <1>0, <2>1 DEF TakeTable, TablesType
<1>4. CASE \/ \E p \in Pids \cup {0} : SpawnStart(p)
           \/ \E p \in Pids : Open(p) \/ OpenPair(p) \/ Exit(p) \/ Waitpid(p) \/ ZombieReap(p)
           \/ \E p \in Pids, d \in Descs : Dup(p, d)
  BY Zenon, <1>0, <1>4 DEF SpawnStart, Open, OpenPair, Exit, Waitpid, ZombieReap, Dup
<1>5. CASE SpawnAdmit \/ SpawnFork \/ DisposeTables \/ DisposeEnd \/ DisposeKill
  BY Zenon, <1>0, <1>5 DEF SpawnAdmit, SpawnFork, DisposeTables, DisposeEnd, DisposeKill
<1>6. CASE \/ \E th \in scene.flockers, p \in Pids, d \in Descs : FlockEntry(th, p, d)
           \/ \E th \in Flockers : FlockApply(th) \/ SpuriousWake(th)
           \/ \E th \in LockThreads : LockStep(th)
  BY Zenon, <1>0, <1>6 DEF FlockEntry, FlockApply, LockStep, SpuriousWake
<1>7. QED
  BY Zenon, <1>1, <1>2, <1>3, <1>4, <1>5, <1>6 DEF Next, ApiStep

\* The API thread's call, and the pid set aside for a child.
LEMMA ApiTypeStep ==
    ASSUME Inv, Next
    PROVE  ApiType'
<1>0. ApiType /\ ProcsType /\ TablesType /\ NumStdio \in Nat
  BY DescriptorsAssumption DEF Inv, TableInv
<1>1. ASSUME NEW p \in Pids \cup {0}, p # 0 => status[p] # "unused", SpawnStart(p)
      PROVE  ApiType'
  <2>1. (IF p \in tables THEN Len(held[p]) ELSE NumStdio) \in Nat
    BY <1>0, LenType DEF ProcsType
  <2>2. \E q \in Pids : status[q] = "unused"
    BY <1>1, SceneType DEF SpawnStart, Inv, TableInv
  <2>3. QED
    BY Zenon, <1>1, <2>1, <2>2 DEF SpawnStart, ApiType, procVars
<1>2. CASE SpawnAdmit
  BY <1>0, <1>2 DEF SpawnAdmit, ApiType, NoCall, procVars
<1>3. CASE SpawnFork \/ WaitpidCleanup \/ DisposeEnd
  BY Zenon, <1>3 DEF SpawnFork, WaitpidCleanup, DisposeEnd, ApiType
<1>4. CASE DisposeTables \/ DisposeKill
  BY <1>0, <1>4 DEF DisposeTables, DisposeKill, ApiType, ProcsType
<1>5. CASE DisposeNext
  BY <1>0, <1>5 DEF DisposeNext, ApiType, NoCall
<1>6. CASE \E p \in Pids : Waitpid(p)
  BY <1>6 DEF Waitpid, ApiType
<1>7. CASE \E p \in Pids : Exit(p) \/ ZombieReap(p)
  <2>1. api' = api /\ \A q \in Pids : status[q] = "unused" => status'[q] = "unused"
    BY <1>0, <1>7 DEF Exit, ZombieReap, ProcsType
  <2>2. QED
    BY <1>0, <2>1 DEF ApiType
<1>8. CASE \/ \E p \in Pids : Open(p) \/ OpenPair(p) \/ ExitCallback(p)
           \/ \E p \in Pids, d, e \in Descs : Dup(p, d) \/ Close(p, d) \/ Dup2(p, d, e)
           \/ \E c \in Closers : CloseNext(c)
  <2>1. UNCHANGED <<api, status>>
    BY Zenon, <1>8 DEF Open, OpenPair, ExitCallback, Dup, Close, Dup2, CloseNext, procVars
  <2>2. QED
    BY <1>0, <2>1 DEF ApiType
<1>9. CASE \/ \E th \in scene.flockers, p \in Pids, d \in Descs : FlockEntry(th, p, d)
           \/ \E th \in Flockers : FlockApply(th) \/ SpuriousWake(th)
           \/ \E th \in LockThreads : LockStep(th)
  <2>1. UNCHANGED <<api, status>>
    BY Zenon, <1>9 DEF FlockEntry, FlockApply, LockStep, SpuriousWake, procVars
  <2>2. QED
    BY <1>0, <2>1 DEF ApiType
<1>10. QED
  BY Zenon, <1>1, <1>2, <1>3, <1>4, <1>5, <1>6, <1>7, <1>8, <1>9, DescriptorsAssumption DEF Next, ApiStep

\* While a spawn is in progress only exits change tables, and they free
\* descriptors.
LEMMA PromisedStep ==
    ASSUME Inv, Next
    PROVE  Promised'
<1>0. /\ Promised /\ ApiType /\ ProcsType /\ TableInv /\ TablesType /\ scene \in Scenes
      /\ NumStdio \in Nat
  BY DescriptorsAssumption DEF Inv, TableInv
<1>1. ASSUME UNCHANGED <<api, tables, held, scene>> PROVE Promised'
  BY Zenon, <1>0, <1>1 DEF Promised, Spawning, OpenFds, Len
<1>2. ASSUME api' = NoCall \/ api'.op \in {"reap", "terminate", "dispose"} PROVE Promised'
  BY <1>2 DEF Promised, Spawning, NoCall
<1>3. ASSUME NEW p \in Pids \cup {0}, SpawnStart(p) PROVE Promised'
  <2>1. /\ api' = [op |-> "spawn", parent |-> p,
                   inherited |-> IF p \in tables THEN Len(held[p]) ELSE NumStdio]
        /\ UNCHANGED <<tables, held, scene>>
    BY <1>3 DEF SpawnStart, tableVars
  <2>2. p \in tables => p \in Pids /\ p # 0 /\ Len(held[p]) \in Nat
    BY Zenon, <1>0, LenType, DescriptorsAssumption DEF ProcsType
  <2>3. p \in tables => Len(held'[p]) <= Len(held[p])
    BY <2>1, <2>2
  <2>4. QED
    BY <2>1, <2>2, <2>3 DEF Promised, Spawning, Len
<1>4. CASE SpawnAdmit
  <2>1. UNCHANGED <<tables, held, scene>>
    BY <1>4 DEF SpawnAdmit, tableVars
  <2>2. CASE api' = NoCall
    BY <1>2, <2>2
  <2>3. CASE Admits(api.inherited) /\ api' = [api EXCEPT !.op = "fork"]
    <3>1. api.op = "spawn" /\ Spawning /\ api \in [op : {"spawn", "fork"}, parent : Pids \cup {0}, inherited : Nat]
      BY <1>0, <1>4 DEF SpawnAdmit, ApiType, NoCall, Spawning
    <3>2. api'.op = "fork" /\ api'.parent = api.parent /\ api'.inherited = api.inherited
      BY <2>3, <3>1
    <3>3. /\ api.parent \in tables => Len(held[api.parent]) <= api.inherited
          /\ api.parent = 0 => api.inherited = NumStdio
          /\ scene.limited => OpenFds + api.inherited <= scene.fds
      BY <1>0, <2>3, <3>1 DEF Promised, Admits
    <3>4. OpenFds' = OpenFds
      BY <2>1 DEF OpenFds, Len
    <3>5. QED
      BY <2>1, <3>2, <3>3, <3>4 DEF Promised, Len
  <2>4. QED
    BY <1>4, <2>2, <2>3 DEF SpawnAdmit
<1>5. ASSUME NEW p \in Pids, ExitCallback(p) PROVE Promised'
  <2>1. TakeTable(p, p) /\ UNCHANGED <<api, kind, registered, scene>>
    BY <1>5 DEF ExitCallback
  <2>2. /\ held'[p] = Empty /\ \A q \in Pids \ {p} : held'[q] = held[q]
        /\ OpenFds' <= OpenFds /\ OpenFds' \in Nat
    BY <1>0, <2>1, TakeKeeps
  <2>3. tables' = tables \ {p}
    BY <2>1 DEF TakeTable
  <2>4. OpenFds \in Nat /\ scene.fds \in Nat
    BY <1>0, LenType, SceneType
  <2>5. Spawning => api.inherited \in Nat
    BY <1>0 DEF ApiType, Spawning, NoCall
  <2>6. \A q \in tables' : held'[q] = held[q] /\ q \in tables
    BY <1>0, <2>2, <2>3 DEF ProcsType
  <2>7. QED
    BY <1>0, <2>1, <2>2, <2>4, <2>5, <2>6 DEF Promised, Spawning, Len
<1>6. CASE SpawnFork \/ WaitpidCleanup \/ DisposeEnd \/ DisposeTables \/ DisposeKill
  <2>1. CASE SpawnFork \/ WaitpidCleanup \/ DisposeEnd
    <3>1. api' = NoCall
      BY Zenon, <2>1 DEF SpawnFork, WaitpidCleanup, DisposeEnd
    <3>2. QED
      BY Zenon, <1>2, <3>1
  <2>2. CASE DisposeTables
    <3>1. api' = [op |-> "dispose", pids |-> tables]
      BY Zenon, <2>2 DEF DisposeTables
    <3>2. api'.op = "dispose"
      BY <3>1
    <3>3. QED
      BY <1>2, <3>2
  <2>3. CASE DisposeKill
    <3>1. PICK running : api' = [op |-> "terminate", killed |-> running]
      BY Zenon, <2>3 DEF DisposeKill
    <3>2. api'.op = "terminate"
      BY <3>1
    <3>3. QED
      BY <1>2, <3>2
  <2>4. QED
    BY Zenon, <1>6, <2>1, <2>2, <2>3
<1>7. CASE DisposeNext
  <2>1. api'.op = "dispose"
    BY <1>0, <1>7 DEF DisposeNext, ApiType, NoCall
  <2>2. QED
    BY <1>2, <2>1
<1>8. CASE \E p \in Pids : Waitpid(p)
  BY <1>2, <1>8 DEF Waitpid
<1>9. CASE \/ \E p \in Pids : Open(p) \/ OpenPair(p)
           \/ \E p \in Pids, d, e \in Descs : Dup(p, d) \/ Close(p, d) \/ Dup2(p, d, e)
  BY Zenon, <1>2, <1>9 DEF Open, OpenPair, Dup, Close, Dup2, ApiFree
<1>10. CASE \/ \E p \in Pids : Exit(p) \/ ZombieReap(p)
            \/ \E c \in Closers : CloseNext(c)
            \/ \E th \in scene.flockers, p \in Pids, d \in Descs : FlockEntry(th, p, d)
            \/ \E th \in Flockers : FlockApply(th) \/ SpuriousWake(th)
            \/ \E th \in LockThreads : LockStep(th)
  BY Zenon, <1>1, <1>10 DEF Exit, ZombieReap, CloseNext, FlockEntry, FlockApply, LockStep, SpuriousWake,
                     tableVars
<1>11. QED
  BY Zenon, <1>3, <1>4, <1>5, <1>6, <1>7, <1>8, <1>9, <1>10 DEF Next, ApiStep

\* The invariant holds at first,
LEMMA InitInv ==
    ASSUME Init
    PROVE  Inv
<1>0. /\ held = [p \in Pids |-> Empty] /\ refs = Empty /\ kind = [d \in Descs |-> "none"]
      /\ scene \in Scenes /\ api = NoCall /\ registered = {}
  BY DEF Init
<1>1. Empty \in [Descs -> Nat] /\ Len(Empty) = 0 /\ \A d \in Descs : Empty[d] = 0
  BY EmptyRow DEF Empty
<1>2. TablesType
  BY <1>0, <1>1 DEF TablesType
<1>3. ASSUME NEW d \in Descs PROVE refs[d] = Count(d)
  <2> DEFINE f == [p \in Pids |-> held[p][d]]
  <2>1. f \in [Pids -> Nat] /\ \A p \in Pids : f[p] = 0
    BY <1>0, <1>1
  <2>2. SumFunction(f) = 0
    BY <2>1, Finite, SumOfZeros
  <2>3. QED
    BY <1>0, <1>1, <2>2 DEF Count
<1>4. Fits
  BY <1>0, <1>1, DescriptorsAssumption DEF Fits
<1>5. KindType /\ Blank /\ EndsOpenWhileUsed
  BY <1>0, <1>1 DEF KindType, Blank, EndsOpenWhileUsed
<1>6. TableInv
  BY <1>0, <1>2, <1>3, <1>4, <1>5 DEF TableInv, Counted
<1>7. ProcsType
  BY DEF Init, ProcsType
<1>8. /\ closing \in [Closers -> [Descs -> Nat]] /\ terminated \in BOOLEAN
      /\ FlockType /\ ApiType
  BY Zenon, <1>1 DEF Init, FlockType, ApiType
<1>9. Promised
  BY <1>0 DEF Promised, Spawning, NoCall
<1>10. QED
  BY <1>6, <1>7, <1>8, <1>9 DEF Inv

\* every step keeps it and the limit,
LEMMA NextInv ==
    ASSUME Inv, [Next]_vars
    PROVE  Inv' /\ (Within \/ UNCHANGED vars)
<1>1. FlockType'
  BY StepIsLockStep DEF Inv
<1>2. CASE Next
  BY <1>1, <1>2, TablesStep, ProcsStep, ClosingStep, ApiTypeStep, PromisedStep DEF Inv
<1>3. CASE UNCHANGED vars
  <2>1. /\ UNCHANGED <<status, exiting, tables, closing, api, terminated, flock, scene>>
        /\ UNCHANGED <<held, refs, kind, registered>>
    BY <1>3 DEF vars, procVars, tableVars
  <2>2. TableInv'
    BY <2>1, IdleKeeps DEF Inv, Idle
  <2>3. ProcsType' /\ ApiType'
    BY Zenon, <2>1 DEF Inv, ProcsType, ApiType
  <2>4. Promised'
    BY <2>1 DEF Inv, Promised, Spawning, OpenFds, Len
  <2>5. QED
    BY <1>1, <1>3, <2>1, <2>2, <2>3, <2>4 DEF Inv
<1>4. QED
  BY <1>2, <1>3

\* and so it always holds.
LEMMA InvHolds == Spec => []Inv
BY InitInv, NextInv, PTL DEF Spec

\* For every number of processes and descriptions: however forks, duplicates,
\* closes, exits and disposal interleave, a description's reference count is
\* exactly the number of descriptors that refer to it, and tables keep within
\* their size.
THEOREM RefCountsExact == Spec => []RefCountExact
<1>1. Inv /\ Locks!TypeOK => RefCountExact
  BY DEF Inv, TableInv, TablesType, Counted, Count, Fits, KindType, ProcsType, FlockType,
         RefCountExact, TypeOK
<1>2. QED
  BY <1>1, InvHolds, LocksHold, PTL

\* Hence an end of a pipe or PTY is never closed under a descriptor that is
\* left.
THEOREM EndsStayOpen == Spec => []EndsOpenWhileUsed
<1>1. Inv => EndsOpenWhileUsed
  BY DEF Inv, TableInv
<1>2. QED
  BY <1>1, InvHolds, PTL

\* max_open_fds is exceeded only by a child whose parent exited while it was
\* being spawned.
THEOREM LimitRespected == Spec => LimitKept
<1>1. ASSUME Inv, [Next]_vars
      PROVE  [scene.limited /\ OpenFds <= scene.fds /\ OpenFds' > scene.fds
                 => api.op = "fork" /\ api.parent \in Pids \ tables]_vars
  BY <1>1, NextInv DEF Within
<1>2. QED
  BY <1>1, InvHolds, PTL DEF Spec, LimitKept

\* A step that is not a fd_flock never takes a lock from a description that
\* still has descriptors.
LEMMA LocksSurviveStep ==
    ASSUME Locks!TypeOK, FlockType, [Next]_vars, flock' = flock,
           NEW d \in Locks!Holders("file"), refs[d] > 0
    PROVE  d \in Locks!Holders("file")'
<1>0. ASSUME UNCHANGED <<shared, exclusive>> PROVE d \in Locks!Holders("file")'
  BY <1>0 DEF Locks!Holders
<1>1. ASSUME NEW c \in Closers, CloseNext(c) PROVE d \in Locks!Holders("file")'
  <2>1. PICK e \in Descs : CloseSpecial(c, e)
    BY <1>1 DEF CloseNext
  <2>2. CASE refs[e] = 0 /\ Locks!ReleaseOwner(c, e)
    BY <2>2 DEF Locks!ReleaseOwner, Locks!Holders
  <2>3. CASE UNCHANGED lockVars
    BY <1>0, <2>3 DEF lockVars
  <2>4. QED
    BY <2>1, <2>2, <2>3 DEF CloseSpecial
<1>2. ASSUME NEW th \in Flockers, FlockApply(th) PROVE FALSE
  BY <1>2 DEF FlockApply, FlockType
<1>3. ASSUME NEW th \in LockThreads, LockStep(th) PROVE d \in Locks!Holders("file")'
  <2>1. CASE Locks!NotifyAll(th)
    BY <1>0, <2>1 DEF Locks!NotifyAll
  <2>2. CASE Locks!AcquireWake(th)
    <3>1. PICK r : r = request[th] /\ r \in Locks!Request /\ Locks!AcquireLoop(th, r)
      BY <2>2 DEF Locks!AcquireWake, Locks!TypeOK
    <3>2. r.target = "file" /\ r.mode \in {"shared", "exclusive"}
      BY Zenon, <3>1 DEF Locks!Request, Locks!Modes
    <3>3. CASE Locks!CanGrant(r.owner, "file", r.mode) /\ Locks!Grant(r.owner, "file", r.mode)
      BY SMTT(30), <3>2, <3>3 DEF Locks!CanGrant, Locks!Grant, Locks!Holders, Locks!TypeOK
    <3>4. CASE UNCHANGED <<shared, exclusive>>
      BY <1>0, <3>4
    <3>5. QED
      BY <3>1, <3>2, <3>3, <3>4 DEF Locks!AcquireLoop
  <2>3. QED
    BY <1>3, <2>1, <2>2 DEF LockStep
<1>4. ASSUME NEW th \in Flockers, SpuriousWake(th) PROVE d \in Locks!Holders("file")'
  BY <1>0, <1>4 DEF SpuriousWake, Locks!SpuriousWake
<1>5. ASSUME NEW th, NEW p, NEW e, FlockEntry(th, p, e) PROVE d \in Locks!Holders("file")'
  BY <1>0, <1>5 DEF FlockEntry, lockVars
<1>6. ASSUME Calm PROVE d \in Locks!Holders("file")'
  BY <1>0, <1>6 DEF Calm, lockVars
<1>7. CASE Next
  BY Zenon, <1>1, <1>2, <1>3, <1>4, <1>5, <1>6, <1>7, CallsAreCalm, ApiStepsAreCalm DEF Next
<1>8. CASE UNCHANGED vars
  BY <1>0, <1>8 DEF vars, lockVars
<1>9. QED
  BY <1>7, <1>8

\* A lock outlives every close but the last of its description.
THEOREM LocksSurvive == Spec => LockOutlivesOneClose
<1>1. ASSUME Locks!TypeOK, Inv, [Next]_vars
      PROVE  [flock' = flock => \A d \in Locks!Holders("file") :
                                   refs[d] > 0 => d \in Locks!Holders("file")']_vars
  BY <1>1, LocksSurviveStep DEF Inv
<1>2. QED
  BY <1>1, InvHolds, LocksHold, PTL DEF Spec, LockOutlivesOneClose
=============================================================================
