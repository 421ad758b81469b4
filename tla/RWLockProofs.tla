---------------------------- MODULE RWLockProofs ----------------------------
(***************************************************************************)
(* Proofs about the readers/writer lock, for every finite set of threads,  *)
(* every number of acquisitions, with and without spurious wakeups.        *)
(***************************************************************************)
EXTENDS RWLock, FiniteSetTheorems, TLAPS

Reading == At("reading")
ReadWaiting == At("rwait") \cup At("rwoken")
Writing == At("writing")
WriteWaiting == At("wwait") \cup At("wwoken")

(***************************************************************************)
(* The inductive invariant: the counters are exact, and nobody who sleeps  *)
(* on a condition variable is forgotten.                                   *)
(***************************************************************************)
IInv ==
    /\ TypeOK
    /\ CountersExact
    /\ nbw_active =< 1
    /\ NoForgottenReader
    /\ NoForgottenWriter

-----------------------------------------------------------------------------
(***************************************************************************)
(* Any set of threads is finite, so that its cardinality is a number.      *)
(***************************************************************************)
LEMMA ThreadSetsFinite ==
    ASSUME NEW S \in SUBSET Threads
    PROVE  IsFiniteSet(S) /\ Cardinality(S) \in Nat /\ (Cardinality(S) = 0 <=> S = {})
BY RWLockAssumption, FS_Subset, FS_CardinalityType, FS_EmptySet

(***************************************************************************)
(* The effect on a count of one thread entering or leaving a set.          *)
(***************************************************************************)
LEMMA CountInsert ==
    ASSUME NEW S \in SUBSET Threads, NEW t \in Threads, t \notin S
    PROVE  Cardinality(S \cup {t}) = Cardinality(S) + 1
BY ThreadSetsFinite, FS_AddElement

\* A thread that leaves a set is counted off.
LEMMA CountRemove ==
    ASSUME NEW S \in SUBSET Threads, NEW t \in Threads, t \in S
    PROVE  Cardinality(S \ {t}) = Cardinality(S) - 1
BY ThreadSetsFinite, FS_RemoveElement

(***************************************************************************)
(* What the four counters count, with the counting sets named.             *)
(***************************************************************************)
LEMMA CountersExactSets ==
    CountersExact <=> /\ nbr_active = Cardinality(Reading)
                      /\ nbr_waiting = Cardinality(ReadWaiting)
                      /\ nbw_active = Cardinality(Writing)
                      /\ nbw_waiting = Cardinality(WriteWaiting)
BY DEF CountersExact, Reading, ReadWaiting, Writing, WriteWaiting

\* The sets that the four counters count are sets of threads.
LEMMA SetsOfThreads ==
    /\ Reading \in SUBSET Threads
    /\ ReadWaiting \in SUBSET Threads
    /\ Writing \in SUBSET Threads
    /\ WriteWaiting \in SUBSET Threads
BY DEF Reading, ReadWaiting, Writing, WriteWaiting, At

(***************************************************************************)
(* A thread waits on condRead only if nbr_waiting is positive, and on      *)
(* condWrite only if nbw_waiting is: the tests of V_r, V_w and             *)
(* rw_lock_downgrade miss no sleeper.                                      *)
(***************************************************************************)
LEMMA WaitersAreCounted ==
    ASSUME IInv
    PROVE  /\ At("rwait") # {} => nbr_waiting > 0
           /\ At("wwait") # {} => nbw_waiting > 0
<1>1. nbr_waiting = 0 => ReadWaiting = {}
  BY CountersExactSets, SetsOfThreads, ThreadSetsFinite DEF IInv
<1>2. nbw_waiting = 0 => WriteWaiting = {}
  BY CountersExactSets, SetsOfThreads, ThreadSetsFinite DEF IInv
<1> QED
  BY <1>1, <1>2 DEF IInv, TypeOK, ReadWaiting, WriteWaiting

\* rw_lock_init makes a lock that nobody holds or waits for.
THEOREM InitIInv == Init => IInv
<1> SUFFICES ASSUME Init PROVE IInv
  OBVIOUS
<1>1. TypeOK
  BY RWLockAssumption DEF Init, TypeOK, PC
<1>2. Reading = {} /\ ReadWaiting = {} /\ Writing = {} /\ WriteWaiting = {}
  BY DEF Init, Reading, ReadWaiting, Writing, WriteWaiting, At
<1>3. CountersExact
  BY <1>2, CountersExactSets, FS_EmptySet DEF Init
<1>4. nbw_active =< 1
  BY DEF Init
<1>5. NoForgottenReader /\ NoForgottenWriter
  BY DEF Init, NoForgottenReader, NoForgottenWriter, At
<1> QED
  BY <1>1, <1>3, <1>4, <1>5 DEF IInv

(***************************************************************************)
(* One lemma per operation: how it moves threads between the counted sets, *)
(* that it keeps the counters exact and that it forgets no sleeper.        *)
(***************************************************************************)
LEMMA P_rStep ==
    ASSUME IInv, NEW t \in Threads, P_r(t)
    PROVE  IInv'
<1> USE DEF IInv
<1>1. TypeOK'
  BY RWLockAssumption DEF P_r, Ask, TypeOK, PC
<1>2. Writing' = Writing /\ WriteWaiting' = WriteWaiting /\ At("wwait")' = At("wwait")
  BY DEF P_r, Ask, TypeOK, Writing, WriteWaiting, At
<1>3. CASE nbw_active > 0 \/ nbw_waiting > 0
  <2>1. Reading' = Reading /\ ReadWaiting' = ReadWaiting \cup {t} /\ t \notin ReadWaiting
    BY <1>3 DEF P_r, Ask, TypeOK, Reading, ReadWaiting, At
  <2>2. CountersExact'
    BY <1>2, <1>3, <2>1, CountersExactSets, SetsOfThreads, CountInsert, Zenon
    DEF P_r, CountersExact, Reading, ReadWaiting, Writing, WriteWaiting
  <2>3. NoForgottenReader' /\ NoForgottenWriter'
    BY <1>2, <1>3 DEF P_r, Ask, TypeOK, NoForgottenReader, NoForgottenWriter, At
  <2> QED
    BY <1>1, <2>2, <2>3 DEF P_r
<1>4. CASE ~(nbw_active > 0 \/ nbw_waiting > 0)
  <2>1. Reading' = Reading \cup {t} /\ t \notin Reading /\ ReadWaiting' = ReadWaiting
    BY <1>4 DEF P_r, Ask, TypeOK, Reading, ReadWaiting, At
  <2>2. CountersExact'
    BY <1>2, <1>4, <2>1, CountersExactSets, SetsOfThreads, CountInsert, Zenon
    DEF P_r, CountersExact, Reading, ReadWaiting, Writing, WriteWaiting
  <2>3. NoForgottenReader' /\ NoForgottenWriter'
    BY <1>4 DEF P_r, Ask, TypeOK, NoForgottenReader, NoForgottenWriter, At
  <2> QED
    BY <1>1, <1>4, <2>2, <2>3 DEF P_r
<1> QED
  BY <1>3, <1>4

\* A woken reader enters.
LEMMA P_r_ResumeStep ==
    ASSUME IInv, NEW t \in Threads, P_r_Resume(t)
    PROVE  IInv'
<1> USE DEF IInv
<1>1. /\ Reading' = Reading \cup {t} /\ t \notin Reading
      /\ ReadWaiting' = ReadWaiting \ {t} /\ t \in ReadWaiting
      /\ Writing' = Writing
      /\ WriteWaiting' = WriteWaiting
  BY DEF P_r_Resume, TypeOK, Reading, ReadWaiting, Writing, WriteWaiting, At
<1>2. Cardinality(ReadWaiting \ {t}) \in Nat
  BY ThreadSetsFinite, SetsOfThreads
<1>3. CountersExact'
  BY <1>1, CountersExactSets, SetsOfThreads, CountInsert, CountRemove, Zenon
  DEF P_r_Resume, CountersExact, Reading, ReadWaiting, Writing, WriteWaiting
<1>4. TypeOK'
  BY <1>1, <1>2, CountRemove, SetsOfThreads, CountersExactSets DEF P_r_Resume, TypeOK, PC
<1>5. NoForgottenReader' /\ NoForgottenWriter'
  BY DEF P_r_Resume, TypeOK, NoForgottenReader, NoForgottenWriter, At
<1> QED
  BY <1>3, <1>4, <1>5 DEF P_r_Resume

(***************************************************************************)
(* A signal moves at most one sleeping writer to the woken ones: the       *)
(* counted sets change only by what the caller t does.                     *)
(***************************************************************************)
LEMMA SignalCondWriteMoves ==
    ASSUME TypeOK, NEW t \in Threads, NEW l \in {"idle", "reading"},
           pc[t] \in {"reading", "writing"}, SignalCondWrite(t, l)
    PROVE  /\ pc' \in [Threads -> PC]
           /\ pc'[t] = l
           /\ WriteWaiting' = WriteWaiting
           /\ At("wwait") # {} => At("wwoken")' # {}
           /\ At("rwait")' = At("rwait")
           /\ ReadWaiting' = ReadWaiting
           /\ \A v \in Threads \ {t} : /\ pc'[v] = "reading" <=> pc[v] = "reading"
                                       /\ pc'[v] = "writing" <=> pc[v] = "writing"
<1>1. CASE At("wwait") = {}
  BY <1>1 DEF SignalCondWrite, TypeOK, PC, WriteWaiting, ReadWaiting, At
<1>2. CASE At("wwait") # {}
  <2>1. PICK u \in At("wwait") : pc' = [pc EXCEPT ![t] = l, ![u] = "wwoken"]
    BY <1>2 DEF SignalCondWrite
  <2>2. u \in Threads /\ pc[u] = "wwait" /\ u # t
    BY DEF At
  <2> QED
    BY <2>1, <2>2 DEF TypeOK, PC, WriteWaiting, ReadWaiting, At
<1> QED
  BY <1>1, <1>2

(***************************************************************************)
(* A broadcast empties the queue of condRead.                              *)
(***************************************************************************)
LEMMA BroadcastCondReadMoves ==
    ASSUME TypeOK, NEW t \in Threads, NEW l \in {"idle", "reading"},
           pc[t] = "writing", BroadcastCondRead(t, l)
    PROVE  /\ pc' \in [Threads -> PC]
           /\ pc'[t] = l
           /\ WriteWaiting' = WriteWaiting
           /\ At("wwait")' = At("wwait")
           /\ At("wwoken")' = At("wwoken")
           /\ At("rwait")' = {}
           /\ ReadWaiting' = ReadWaiting
           /\ \A v \in Threads \ {t} : /\ pc'[v] = "reading" <=> pc[v] = "reading"
                                       /\ pc'[v] = "writing" <=> pc[v] = "writing"
<1>1. \A u \in Threads : pc'[u] = IF u = t THEN l
                                  ELSE IF pc[u] = "rwait" THEN "rwoken" ELSE pc[u]
  BY DEF BroadcastCondRead
<1>2. pc' \in [Threads -> PC]
  BY DEF BroadcastCondRead, TypeOK, PC
<1> QED
  BY <1>1, <1>2 DEF TypeOK, WriteWaiting, ReadWaiting, At

\* The last reader wakes a writer.
LEMMA V_rStep ==
    ASSUME IInv, NEW t \in Threads, V_r(t)
    PROVE  IInv'
<1> USE DEF IInv
<1>1. /\ pc' \in [Threads -> PC]
      /\ Reading' = Reading \ {t} /\ t \in Reading
      /\ Writing' = Writing
      /\ ReadWaiting' = ReadWaiting
      /\ WriteWaiting' = WriteWaiting
      /\ At("rwait")' = At("rwait")
  <2>1. CASE nbr_active' = 0 /\ nbw_waiting > 0
    BY <2>1, SignalCondWriteMoves, Zenon DEF V_r, Reading, Writing, At
  <2>2. CASE ~(nbr_active' = 0 /\ nbw_waiting > 0)
    BY <2>2 DEF V_r, TypeOK, PC, Reading, Writing, ReadWaiting, WriteWaiting, At
  <2> QED
    BY <2>1, <2>2
<1>2. CountersExact'
  BY <1>1, CountersExactSets, SetsOfThreads, CountRemove, Zenon
  DEF V_r, CountersExact, Reading, ReadWaiting, Writing, WriteWaiting
<1>3. nbr_active' \in Nat
  BY <1>1, CountersExactSets, SetsOfThreads, CountRemove, ThreadSetsFinite, SMTT(30) DEF V_r
<1>4. TypeOK'
  BY <1>1, <1>3 DEF V_r, TypeOK
<1>5. NoForgottenReader'
  BY <1>1 DEF V_r, NoForgottenReader
<1>6. NoForgottenWriter'
  <2>1. CASE nbr_active' = 0 /\ nbw_waiting > 0
    <3>1. SignalCondWrite(t, "idle") /\ pc[t] = "reading"
      BY <2>1, Zenon DEF V_r
    <3>2. At("wwait") # {} => At("wwoken")' # {}
      BY <3>1, SignalCondWriteMoves
    <3>3. At("wwait")' # {} => At("wwait") # {}
      BY <3>1 DEF SignalCondWrite, TypeOK, At
    <3> QED
      BY <3>2, <3>3 DEF NoForgottenWriter
  <2>2. CASE nbr_active' = 0 /\ ~(nbw_waiting > 0)
    BY <2>2, WaitersAreCounted DEF V_r, TypeOK, NoForgottenWriter, At
  <2>3. CASE nbr_active' # 0
    BY <2>3, <1>3 DEF NoForgottenWriter
  <2> QED
    BY <2>1, <2>2, <2>3
<1> QED
  BY <1>2, <1>4, <1>5, <1>6 DEF V_r

\* A writer enters a free lock or waits.
LEMMA P_wStep ==
    ASSUME IInv, NEW t \in Threads, P_w(t)
    PROVE  IInv'
<1> USE DEF IInv
<1>1. TypeOK'
  BY RWLockAssumption DEF P_w, Ask, TypeOK, PC
<1>2. Reading' = Reading /\ ReadWaiting' = ReadWaiting /\ At("rwait")' = At("rwait")
  BY DEF P_w, Ask, TypeOK, Reading, ReadWaiting, At
<1>3. CASE nbr_active > 0 \/ nbw_active > 0
  <2>1. Writing' = Writing /\ WriteWaiting' = WriteWaiting \cup {t} /\ t \notin WriteWaiting
    BY <1>3 DEF P_w, Ask, TypeOK, Writing, WriteWaiting, At
  <2>2. CountersExact'
    BY <1>2, <1>3, <2>1, CountersExactSets, SetsOfThreads, CountInsert, Zenon
    DEF P_w, CountersExact, Reading, ReadWaiting, Writing, WriteWaiting
  <2>3. NoForgottenReader' /\ NoForgottenWriter'
    BY <1>2, <1>3 DEF P_w, TypeOK, NoForgottenReader, NoForgottenWriter
  <2> QED
    BY <1>1, <1>3, <2>2, <2>3 DEF P_w
<1>4. CASE ~(nbr_active > 0 \/ nbw_active > 0)
  <2>1. Writing' = Writing \cup {t} /\ t \notin Writing /\ WriteWaiting' = WriteWaiting
    BY <1>4 DEF P_w, Ask, TypeOK, Writing, WriteWaiting, At
  <2>2. CountersExact'
    BY <1>2, <1>4, <2>1, CountersExactSets, SetsOfThreads, CountInsert, Zenon
    DEF P_w, CountersExact, Reading, ReadWaiting, Writing, WriteWaiting
  <2>3. nbw_active' = 1
    BY <1>4 DEF P_w, TypeOK
  <2>4. NoForgottenReader' /\ NoForgottenWriter'
    BY <2>3 DEF NoForgottenReader, NoForgottenWriter
  <2> QED
    BY <1>1, <2>2, <2>3, <2>4
<1> QED
  BY <1>3, <1>4

\* A woken writer tests again, and enters or waits.
LEMMA P_w_ResumeStep ==
    ASSUME IInv, NEW t \in Threads, P_w_Resume(t)
    PROVE  IInv'
<1> USE DEF IInv
<1>1. Reading' = Reading /\ ReadWaiting' = ReadWaiting /\ At("rwait")' = At("rwait")
  BY DEF P_w_Resume, TypeOK, Reading, ReadWaiting, At
<1>2. CASE nbr_active > 0 \/ nbw_active > 0
  <2>1. Writing' = Writing /\ WriteWaiting' = WriteWaiting
    BY <1>2 DEF P_w_Resume, TypeOK, Writing, WriteWaiting, At
  <2>2. CountersExact'
    BY <1>1, <1>2, <2>1, CountersExactSets, Zenon
    DEF P_w_Resume, CountersExact, Reading, ReadWaiting, Writing, WriteWaiting
  <2>3. TypeOK' /\ NoForgottenReader' /\ NoForgottenWriter'
    BY <1>1, <1>2 DEF P_w_Resume, TypeOK, PC, NoForgottenReader, NoForgottenWriter
  <2> QED
    BY <1>2, <2>2, <2>3 DEF P_w_Resume
<1>3. CASE ~(nbr_active > 0 \/ nbw_active > 0)
  <2>1. /\ Writing' = Writing \cup {t} /\ t \notin Writing
        /\ WriteWaiting' = WriteWaiting \ {t} /\ t \in WriteWaiting
    BY <1>3 DEF P_w_Resume, TypeOK, Writing, WriteWaiting, At
  <2>2. CountersExact'
    BY <1>1, <1>3, <2>1, CountersExactSets, SetsOfThreads, CountInsert, CountRemove, ZenonT(30)
    DEF P_w_Resume, CountersExact, Reading, ReadWaiting, Writing, WriteWaiting
  <2>3. nbw_active' = 1
    BY <1>3 DEF P_w_Resume, TypeOK
  <2>4. nbw_waiting' \in Nat
    <3>1. nbw_waiting' = nbw_waiting - 1
      BY <1>3 DEF P_w_Resume
    <3>2. Cardinality(WriteWaiting \ {t}) \in Nat
      BY SetsOfThreads, ThreadSetsFinite
    <3> QED
      BY <2>1, <3>1, <3>2, CountersExactSets, SetsOfThreads, CountRemove
  <2>5. TypeOK'
    BY <1>3, <2>3, <2>4 DEF P_w_Resume, TypeOK, PC
  <2>6. NoForgottenReader' /\ NoForgottenWriter'
    BY <2>3 DEF NoForgottenReader, NoForgottenWriter
  <2> QED
    BY <2>2, <2>3, <2>5, <2>6
<1> QED
  BY <1>2, <1>3

\* A leaving writer wakes one waiting writer, or else all waiting readers.
LEMMA V_wStep ==
    ASSUME IInv, NEW t \in Threads, V_w(t)
    PROVE  IInv'
<1> USE DEF IInv
<1>1. /\ pc' \in [Threads -> PC]
      /\ Reading' = Reading
      /\ Writing' = Writing \ {t} /\ t \in Writing
      /\ ReadWaiting' = ReadWaiting
      /\ WriteWaiting' = WriteWaiting
      /\ nbw_waiting > 0 \/ At("rwait")' = {}
      /\ At("wwait")' = {} \/ At("wwoken")' # {}
  <2>1. CASE nbw_waiting > 0
    <3>1. SignalCondWrite(t, "idle") /\ pc[t] = "writing"
      BY <2>1 DEF V_w, TypeOK
    <3>2. At("wwait")' # {} => At("wwait") # {}
      BY <3>1 DEF SignalCondWrite, TypeOK, At
    <3> QED
      BY <2>1, <3>1, <3>2, SignalCondWriteMoves DEF Reading, Writing, At
  <2>2. CASE nbw_waiting = 0 /\ nbr_waiting > 0
    <3>1. BroadcastCondRead(t, "idle") /\ pc[t] = "writing"
      BY <2>2 DEF V_w, TypeOK
    <3>2. At("wwait") = {}
      BY <2>2, WaitersAreCounted
    <3> QED
      BY <3>1, <3>2, BroadcastCondReadMoves DEF Reading, Writing, At
  <2>3. CASE nbw_waiting = 0 /\ nbr_waiting = 0
    <3>1. At("wwait") = {} /\ At("rwait") = {}
      BY <2>3, WaitersAreCounted
    <3>2. pc' = [pc EXCEPT ![t] = "idle"] /\ pc[t] = "writing"
      BY <2>3 DEF V_w
    <3> QED
      BY <3>1, <3>2 DEF TypeOK, PC, Reading, Writing, ReadWaiting, WriteWaiting, At
  <2> QED
    BY <2>1, <2>2, <2>3 DEF TypeOK
<1>2. CountersExact'
  BY <1>1, CountersExactSets, SetsOfThreads, CountRemove, Zenon
  DEF V_w, CountersExact, Reading, ReadWaiting, Writing, WriteWaiting
<1>3. nbw_active' \in Nat
  BY <1>1, CountersExactSets, SetsOfThreads, CountRemove, ThreadSetsFinite, SMTT(30) DEF V_w
<1>4. TypeOK'
  BY <1>1, <1>3 DEF V_w, TypeOK
<1>5. NoForgottenReader' /\ NoForgottenWriter'
  BY <1>1 DEF V_w, NoForgottenReader, NoForgottenWriter
<1> QED
  BY <1>2, <1>3, <1>4, <1>5 DEF V_w, TypeOK

\* A writer becomes a reader and wakes the waiting readers.
LEMMA DowngradeStep ==
    ASSUME IInv, NEW t \in Threads, rw_lock_downgrade(t)
    PROVE  IInv'
<1> USE DEF IInv
<1>1. /\ pc' \in [Threads -> PC]
      /\ Reading' = Reading \cup {t} /\ t \notin Reading
      /\ Writing' = Writing \ {t} /\ t \in Writing
      /\ ReadWaiting' = ReadWaiting
      /\ WriteWaiting' = WriteWaiting
      /\ At("rwait")' = {}
  <2>1. CASE nbr_waiting > 0
    <3>1. BroadcastCondRead(t, "reading") /\ pc[t] = "writing"
      BY <2>1 DEF rw_lock_downgrade
    <3> QED
      BY <3>1, BroadcastCondReadMoves DEF Reading, Writing, At
  <2>2. CASE ~(nbr_waiting > 0)
    <3>1. At("rwait") = {}
      BY <2>2, WaitersAreCounted
    <3>2. pc' = [pc EXCEPT ![t] = "reading"] /\ pc[t] = "writing"
      BY <2>2 DEF rw_lock_downgrade
    <3> QED
      BY <3>1, <3>2 DEF TypeOK, PC, Reading, Writing, ReadWaiting, WriteWaiting, At
  <2> QED
    BY <2>1, <2>2
<1>2. CountersExact'
  BY <1>1, CountersExactSets, SetsOfThreads, CountInsert, CountRemove, Zenon
  DEF rw_lock_downgrade, CountersExact, Reading, ReadWaiting, Writing, WriteWaiting
<1>3. nbw_active' \in Nat
  BY <1>1, CountersExactSets, SetsOfThreads, CountRemove, ThreadSetsFinite
  DEF rw_lock_downgrade
<1>4. TypeOK'
  BY <1>1, <1>3 DEF rw_lock_downgrade, TypeOK
<1>5. NoForgottenReader' /\ NoForgottenWriter'
  BY <1>1 DEF rw_lock_downgrade, TypeOK, NoForgottenReader, NoForgottenWriter
<1> QED
  BY <1>2, <1>3, <1>4, <1>5 DEF rw_lock_downgrade, TypeOK

\* A spurious wake-up changes no counter.
LEMMA SpuriousWakeupStep ==
    ASSUME IInv, NEW t \in Threads, SpuriousWakeup(t)
    PROVE  IInv'
<1> USE DEF IInv
<1>1. /\ Reading' = Reading
      /\ Writing' = Writing
      /\ ReadWaiting' = ReadWaiting
      /\ WriteWaiting' = WriteWaiting
  BY DEF SpuriousWakeup, TypeOK, Reading, Writing, ReadWaiting, WriteWaiting, At
<1>2. UNCHANGED <<left, nbr_active, nbr_waiting, nbw_active, nbw_waiting>>
  BY DEF SpuriousWakeup, counters
<1>3. TypeOK'
  BY <1>2 DEF SpuriousWakeup, TypeOK, PC
<1>4. CountersExact'
  BY <1>1, <1>2, CountersExactSets, Zenon
  DEF CountersExact, Reading, ReadWaiting, Writing, WriteWaiting
<1>5. NoForgottenReader' /\ NoForgottenWriter'
  BY <1>2 DEF SpuriousWakeup, TypeOK, NoForgottenReader, NoForgottenWriter, At
<1> QED
  BY <1>2, <1>3, <1>4, <1>5

\* Every step keeps the invariant.
THEOREM NextIInv == IInv /\ [Next]_vars => IInv'
<1> SUFFICES ASSUME IInv, [Next]_vars PROVE IInv'
  OBVIOUS
<1>1. ASSUME NEW t \in Threads, Proceed(t) PROVE IInv'
  BY <1>1, P_r_ResumeStep, P_w_ResumeStep, V_rStep, V_wStep, DowngradeStep DEF Proceed
<1>2. CASE UNCHANGED vars
  BY <1>2 DEF vars, counters, IInv, TypeOK, CountersExact, NoForgottenReader,
              NoForgottenWriter, At
<1> QED
  BY <1>1, <1>2, P_rStep, P_wStep, SpuriousWakeupStep DEF Next

-----------------------------------------------------------------------------
(***************************************************************************)
(* Every reachable state of the lock satisfies the inductive invariant.    *)
(***************************************************************************)
THEOREM SpecIInv == Spec => []IInv
BY InitIInv, NextIInv, PTL DEF Spec

(***************************************************************************)
(* The counters of rw_lock_t never wrap: no V_r, V_w or rw_lock_downgrade  *)
(* decrements an unsigned counter that is 0.                               *)
(***************************************************************************)
THEOREM LockTypes == Spec => []TypeOK
<1>1. IInv => TypeOK
  BY DEF IInv
<1> QED
  BY <1>1, SpecIInv, PTL

(***************************************************************************)
(* The counters of rw_lock_t are always the numbers of threads that hold   *)
(* the lock or wait for it, as P_r, V_r, P_w, V_w and rw_lock_downgrade    *)
(* assume when they decide who goes on.                                    *)
(***************************************************************************)
THEOREM CountersAlwaysExact == Spec => []CountersExact
<1>1. IInv => CountersExact
  BY DEF IInv
<1> QED
  BY <1>1, SpecIInv, PTL

(***************************************************************************)
(* A thread blocked on condRead always has somebody who will wake it: V_w  *)
(* and rw_lock_downgrade lose no wake-up of the readers.                   *)
(***************************************************************************)
THEOREM NoReaderForgotten == Spec => []NoForgottenReader
<1>1. IInv => NoForgottenReader
  BY DEF IInv
<1> QED
  BY <1>1, SpecIInv, PTL

(***************************************************************************)
(* A thread blocked on condWrite always has somebody who will wake it: the *)
(* last V_r and V_w lose no wake-up of the writers.                        *)
(***************************************************************************)
THEOREM NoWriterForgotten == Spec => []NoForgottenWriter
<1>1. IInv => NoForgottenWriter
  BY DEF IInv
<1> QED
  BY <1>1, SpecIInv, PTL

(***************************************************************************)
(* Two threads never hold the lock for writing together.                   *)
(***************************************************************************)
THEOREM WritersExcluded == Spec => []WriterExclusion
<1>1. ASSUME IInv PROVE WriterExclusion
  <2> SUFFICES ASSUME NEW t \in Threads, NEW u \in Threads,
                      pc[t] = "writing", pc[u] = "writing", t # u
               PROVE  FALSE
    BY DEF WriterExclusion
  <2> DEFINE W == Writing
  <2>1. W \in SUBSET Threads /\ t \in W /\ u \in W
    BY DEF Writing, At
  <2>2. Cardinality(W) =< 1
    BY <1>1, CountersExactSets DEF IInv
  <2> HIDE DEF W
  <2>3. Cardinality(W \ {t}) = Cardinality(W) - 1
    BY <2>1, CountRemove
  <2>4. W \ {t} \in SUBSET Threads /\ u \in W \ {t}
    BY <2>1
  <2>5. Cardinality(W \ {t}) \in Nat /\ Cardinality(W \ {t}) # 0
    BY <2>4, ThreadSetsFinite
  <2>6. Cardinality(W) \in Nat
    BY <2>1, ThreadSetsFinite
  <2> QED
    BY <2>2, <2>3, <2>5, <2>6
<1> QED
  BY <1>1, SpecIInv, PTL

(***************************************************************************)
(* Only P_w makes a thread a writer, and it does so when the counters say  *)
(* that nobody holds the lock; as they are exact, nobody does.  A read     *)
(* lock, also one kept by rw_lock_downgrade, is never broken by a writer.  *)
(***************************************************************************)
THEOREM WritersEnterAlone == Spec => WriterEntersAlone
<1> DEFINE Enters == \A t \in Threads :
               pc[t] # "writing" /\ pc'[t] = "writing"
                  => \A u \in Threads \ {t} : pc'[u] \notin {"reading", "writing"}
<1>1. ASSUME IInv, [Next]_vars PROVE [Enters]_vars
  <2> SUFFICES ASSUME NEW t \in Threads, pc[t] # "writing", pc'[t] = "writing",
                      NEW u \in Threads \ {t}
               PROVE  pc'[u] \notin {"reading", "writing"}
    OBVIOUS
  <2>1. TypeOK
    BY <1>1 DEF IInv
  <2>2. nbr_active = 0 /\ nbw_active = 0 => Reading = {} /\ Writing = {}
    BY <1>1, CountersExactSets, SetsOfThreads, ThreadSetsFinite DEF IInv
  <2>3. ASSUME NEW v \in Threads, P_w(v) \/ P_w_Resume(v)
        PROVE  pc'[u] \notin {"reading", "writing"}
    <3>1. v = t /\ nbr_active = 0 /\ nbw_active = 0
      BY <2>1, <2>3 DEF P_w, P_w_Resume, Ask, TypeOK
    <3>2. pc'[u] = pc[u] /\ pc[u] \notin {"reading", "writing"}
      BY <2>1, <2>2, <2>3, <3>1 DEF P_w, P_w_Resume, Reading, Writing, At, TypeOK
    <3> QED
      BY <3>2
  <2>4. ASSUME NEW v \in Threads,
               P_r(v) \/ P_r_Resume(v) \/ SpuriousWakeup(v)
        PROVE  FALSE
    BY <2>1, <2>4 DEF P_r, P_r_Resume, SpuriousWakeup, TypeOK
  <2>5. ASSUME NEW v \in Threads, V_r(v) PROVE FALSE
    BY <2>1, <2>5 DEF V_r, SignalCondWrite, TypeOK, At
  <2>6. ASSUME NEW v \in Threads, V_w(v) \/ rw_lock_downgrade(v) PROVE FALSE
    BY <2>1, <2>6 DEF V_w, rw_lock_downgrade, SignalCondWrite, BroadcastCondRead,
                      TypeOK, At
  <2>7. CASE UNCHANGED vars
    BY <2>7 DEF vars
  <2> QED
    BY <1>1, <2>3, <2>4, <2>5, <2>6, <2>7 DEF Next, Proceed
<1> QED
  BY <1>1, SpecIInv, PTL DEF Spec, WriterEntersAlone
=============================================================================
