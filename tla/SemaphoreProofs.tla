-------------------------- MODULE SemaphoreProofs ---------------------------
(***************************************************************************)
(* Proofs about the semaphore, for every finite set of threads and every   *)
(* number of tokens: it never lets too many threads in.                    *)
(***************************************************************************)
EXTENDS Semaphore, FiniteSetTheorems, TLAPS

Calling == At("calling")
Asking == At("waiting") \cup At("woken")

(***************************************************************************)
(* The inductive invariant.  CallsBounded alone is not inductive: that a   *)
(* count which is not negative leaves a token for the thread that tests it *)
(* follows from what the count counts.                                     *)
(***************************************************************************)
IInv ==
    /\ pc \in [Threads -> {"idle", "waiting", "woken", "calling"}]
    /\ count \in Int
    /\ CountExact
    /\ CallsBounded

-----------------------------------------------------------------------------
(***************************************************************************)
(* Any set of threads is finite, so that its cardinality is a number.      *)
(***************************************************************************)
LEMMA ThreadSetsFinite ==
    ASSUME NEW S \in SUBSET Threads
    PROVE  IsFiniteSet(S) /\ Cardinality(S) \in Nat
BY SemaphoreAssumption, FS_Subset, FS_CardinalityType

(***************************************************************************)
(* The effect on a count of one thread entering or leaving a set.          *)
(***************************************************************************)
LEMMA CountInsert ==
    ASSUME NEW S \in SUBSET Threads, NEW t \in Threads, t \notin S
    PROVE  Cardinality(S \cup {t}) = Cardinality(S) + 1
BY ThreadSetsFinite, FS_AddElement

\* A thread that leaves a set is counted off.
LEMMA CountRemove ==
    ASSUME NEW S \in SUBSET Threads, NEW t \in Threads, t \in S
    PROVE  Cardinality(S \ {t}) = Cardinality(S) - 1
BY ThreadSetsFinite, FS_RemoveElement

(***************************************************************************)
(* The two counted sets and what IInv says of them.                        *)
(***************************************************************************)
LEMMA CountedSets ==
    /\ Calling \in SUBSET Threads /\ Cardinality(Calling) \in Nat
    /\ Asking \in SUBSET Threads /\ Cardinality(Asking) \in Nat
    /\ CountExact <=> count = value - Cardinality(Calling) - Cardinality(Asking)
    /\ CallsBounded <=> Cardinality(Calling) =< value
<1>1. Calling \in SUBSET Threads /\ Asking \in SUBSET Threads
  BY DEF Calling, Asking, At
<1> QED
  BY <1>1, ThreadSetsFinite DEF CountExact, CallsBounded, Calling, Asking

(***************************************************************************)
(* semaphore_P lets a thread in only if a token is left for it.            *)
(***************************************************************************)
LEMMA PStep ==
    ASSUME IInv, NEW t \in Threads, semaphore_P(t)
    PROVE  IInv'
<1> USE SemaphoreAssumption DEF IInv
<1>1. pc' \in [Threads -> {"idle", "waiting", "woken", "calling"}] /\ count' \in Int
  BY DEF semaphore_P
<1>2. CASE count' < 0
  <2>1. Calling' = Calling /\ Asking' = Asking \cup {t} /\ t \notin Asking
    BY <1>2 DEF semaphore_P, Calling, Asking, At
  <2>2. Cardinality(Asking') = Cardinality(Asking) + 1
    BY <2>1, CountedSets, CountInsert
  <2> QED
    BY <1>1, <2>1, <2>2, CountedSets DEF semaphore_P, CountExact, CallsBounded, Calling, Asking
<1>3. CASE ~(count' < 0)
  <2>1. Asking' = Asking /\ Calling' = Calling \cup {t} /\ t \notin Calling
    BY <1>3 DEF semaphore_P, Calling, Asking, At
  <2>2. Cardinality(Calling') = Cardinality(Calling) + 1
    BY <2>1, CountedSets, CountInsert
  <2>3. count' = value - Cardinality(Calling') - Cardinality(Asking')
    BY <2>1, <2>2, CountedSets DEF semaphore_P
  <2>4. Cardinality(Calling') =< value
    BY <1>1, <1>3, <2>1, <2>2, <2>3, CountedSets
  <2> QED
    BY <1>1, <2>3, <2>4 DEF CountExact, CallsBounded, Calling, Asking
<1> QED
  BY <1>2, <1>3

(***************************************************************************)
(* A woken thread goes on only if a token is left for it.                  *)
(***************************************************************************)
LEMMA ResumeStep ==
    ASSUME IInv, NEW t \in Threads, semaphore_P_Resume(t)
    PROVE  IInv'
<1> USE SemaphoreAssumption DEF IInv
<1>1. pc' \in [Threads -> {"idle", "waiting", "woken", "calling"}] /\ count' = count
  BY DEF semaphore_P_Resume
<1>2. CASE count < 0
  <2>1. Calling' = Calling /\ Asking' = Asking
    BY <1>2 DEF semaphore_P_Resume, Calling, Asking, At
  <2> QED
    BY <1>1, <2>1, CountedSets, Zenon DEF CountExact, CallsBounded, Calling, Asking
<1>3. CASE ~(count < 0)
  <2>1. /\ Asking' = Asking \ {t} /\ t \in Asking
        /\ Calling' = Calling \cup {t} /\ t \notin Calling
    BY <1>3 DEF semaphore_P_Resume, Calling, Asking, At
  <2>2. /\ Cardinality(Calling') = Cardinality(Calling) + 1
        /\ Cardinality(Asking') = Cardinality(Asking) - 1
    BY <2>1, CountedSets, CountInsert, CountRemove
  <2>3. /\ count' = value - Cardinality(Calling') - Cardinality(Asking')
        /\ Cardinality(Asking') \in Nat
    BY <1>1, <2>1, <2>2, CountedSets, ThreadSetsFinite
  <2>4. Cardinality(Calling') =< value
    BY <1>1, <1>3, <2>2, <2>3, CountedSets
  <2> QED
    BY <1>1, <2>3, <2>4 DEF CountExact, CallsBounded, Calling, Asking
<1> QED
  BY <1>2, <1>3

(***************************************************************************)
(* semaphore_V gives one token back, whether or not it wakes a thread.     *)
(***************************************************************************)
LEMMA VStep ==
    ASSUME IInv, NEW t \in Threads, semaphore_V(t)
    PROVE  IInv'
<1> USE SemaphoreAssumption DEF IInv
<1>1. pc' \in [Threads -> {"idle", "waiting", "woken", "calling"}] /\ count' = count + 1
  BY DEF semaphore_V, At
<1>2. Calling' = Calling \ {t} /\ t \in Calling /\ Asking' = Asking
  <2>1. CASE \E u \in At("waiting") : pc' = [pc EXCEPT ![t] = "idle", ![u] = "woken"]
    BY <2>1 DEF semaphore_V, Calling, Asking, At
  <2>2. CASE pc' = [pc EXCEPT ![t] = "idle"]
    BY <2>2 DEF semaphore_V, Calling, Asking, At
  <2> QED
    BY <2>1, <2>2 DEF semaphore_V
<1>3. Cardinality(Calling') = Cardinality(Calling) - 1
  BY <1>2, CountedSets, CountRemove
<1>4. /\ count' = value - Cardinality(Calling') - Cardinality(Asking')
      /\ Cardinality(Calling') =< value
  BY <1>1, <1>2, <1>3, CountedSets
<1> QED
  BY <1>1, <1>4 DEF CountExact, CallsBounded, Calling, Asking

\* A spurious wake-up changes no count.
LEMMA SpuriousStep ==
    ASSUME IInv, NEW t \in Threads, SpuriousWakeup(t)
    PROVE  IInv'
<1>1. Calling' = Calling /\ Asking' = Asking
  BY DEF IInv, SpuriousWakeup, Calling, Asking, At
<1> QED
  BY <1>1, Zenon DEF IInv, SpuriousWakeup, CountExact, CallsBounded, Calling, Asking

-----------------------------------------------------------------------------
(***************************************************************************)
(* IInv holds in every reachable state of the semaphore.                   *)
(***************************************************************************)
THEOREM SpecIInv == Spec => []IInv
<1>1. Init => IInv
  <2> SUFFICES ASSUME Init PROVE IInv
    OBVIOUS
  <2>1. Calling = {} /\ Asking = {}
    BY DEF Init, Calling, Asking, At
  <2>2. Cardinality(Calling) = 0 /\ Cardinality(Asking) = 0
    BY <2>1, FS_EmptySet
  <2> QED
    BY <2>2, CountedSets, SemaphoreAssumption DEF Init, IInv
<1>2. IInv /\ [Next]_vars => IInv'
  <2> SUFFICES ASSUME IInv, [Next]_vars PROVE IInv'
    OBVIOUS
  <2>1. CASE UNCHANGED vars
    BY <2>1 DEF vars, IInv, CountExact, CallsBounded, At
  <2>2. CASE Next
    BY <2>2, PStep, ResumeStep, VStep, SpuriousStep DEF Next
  <2> QED
    BY <2>1, <2>2
<1> QED
  BY <1>1, <1>2, PTL DEF Spec

(***************************************************************************)
(* The variables of the semaphore keep their types.                        *)
(***************************************************************************)
THEOREM SemaphoreTypes == Spec => []TypeOK
<1>1. IInv => TypeOK
  <2> SUFFICES ASSUME IInv PROVE TypeOK
    OBVIOUS
  <2>1. Calling \cap Asking = {} /\ Calling \cup Asking \in SUBSET Threads
    BY CountedSets DEF Calling, Asking, At
  <2>2. IsFiniteSet(Calling) /\ IsFiniteSet(Asking)
    BY CountedSets, ThreadSetsFinite
  <2>3. Cardinality(Calling \cup Asking) = Cardinality(Calling) + Cardinality(Asking)
    <3>1. Cardinality(Calling \cap Asking) = 0
      BY <2>1, FS_EmptySet
    <3>2. Cardinality(Calling \cup Asking)
            = Cardinality(Calling) + Cardinality(Asking) - Cardinality(Calling \cap Asking)
      BY <2>2, FS_Union
    <3> QED
      BY <3>1, <3>2, CountedSets
  <2>4. Cardinality(Calling \cup Asking) =< Cardinality(Threads)
    BY <2>1, SemaphoreAssumption, FS_Subset
  <2>5. Cardinality(Threads) \in Nat
    BY SemaphoreAssumption, FS_CardinalityType
  <2> QED
    BY <2>3, <2>4, <2>5, CountedSets, SemaphoreAssumption DEF IInv, TypeOK
<1> QED
  BY <1>1, SpecIInv, PTL

(***************************************************************************)
(* sem->count always counts the tokens and the threads that want one.      *)
(***************************************************************************)
THEOREM CountAlwaysExact == Spec => []CountExact
BY SpecIInv, PTL DEF IInv

(***************************************************************************)
(* TakeTokenFSCall limits the number of simultaneous file system calls.    *)
(***************************************************************************)
THEOREM CallsAlwaysBounded == Spec => []CallsBounded
BY SpecIInv, PTL DEF IInv
=============================================================================
