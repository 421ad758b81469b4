------------------------ MODULE RequestPipelineProofs -----------------------
(***************************************************************************)
(* A proof about RequestPipeline, for every finite set of workers, any     *)
(* number of connections, buffers and messages: the bound on the workers   *)
(* that collect the inode cache.                                           *)
(***************************************************************************)
EXTENDS RequestPipeline, FiniteSetTheorems, TLAPS

GcLocations == {"gcflag", "collecting"}

\* The workers that nb_current_gc_workers counts, given all locations.
Collectors(locations) == {w \in Workers : locations[w] \in GcLocations}

(***************************************************************************)
(* ConcurrentGcBounded is inductive once wpc is known to be a function:    *)
(* the bound is tested where the counter is incremented, and the counter   *)
(* is exact because every worker passes through W_LeaveGc.                 *)
(***************************************************************************)
IInv ==
    /\ wpc = [w \in Workers |-> wpc[w]]
    /\ nb_current_gc_workers = Cardinality(Collectors(wpc))
    /\ nb_current_gc_workers <= NbMaxConcurrentGc

\* The workers that collect are finitely many.
LEMMA CollectorsFinite ==
    ASSUME NEW f
    PROVE  IsFiniteSet(Collectors(f)) /\ Cardinality(Collectors(f)) \in Nat
BY PipelineAssumption, FS_Subset, FS_CardinalityType DEF Collectors

(***************************************************************************)
(* A step of any thread that moves a worker between two locations outside  *)
(* of the collection, or within it, changes neither the set nor its count. *)
(***************************************************************************)
LEMMA MoveOutside ==
    ASSUME IInv, NEW w, NEW l, wpc' = [wpc EXCEPT ![w] = l],
           wpc[w] \in GcLocations <=> l \in GcLocations,
           nb_current_gc_workers' = nb_current_gc_workers
    PROVE  IInv'
<1>1. wpc' = [v \in Workers |-> wpc'[v]]
  BY DEF IInv
<1>2. Collectors(wpc') = Collectors(wpc)
  BY DEF IInv, Collectors
<1> QED
  BY <1>1, <1>2 DEF IInv

\* A step that moves no worker keeps the invariant.
LEMMA SameLocations ==
    ASSUME IInv, UNCHANGED <<wpc, nb_current_gc_workers>>
    PROVE  IInv'
BY DEF IInv

-----------------------------------------------------------------------------
\* A worker enters the collection only below the bound, and is counted.
LEMMA EnterStep ==
    ASSUME IInv, NEW w \in Workers, W_EnterGc(w)
    PROVE  IInv'
<1>1. CASE nb_current_gc_workers < NbMaxConcurrentGc
  <2>1. /\ nb_current_gc_workers' = nb_current_gc_workers + 1
        /\ wpc' = [wpc EXCEPT ![w] = "gcflag"] /\ wpc[w] = "gc"
    BY <1>1 DEF W_EnterGc, Goto
  <2>2. wpc' = [v \in Workers |-> wpc'[v]]
    BY <2>1 DEF IInv
  <2>3. Collectors(wpc') = Collectors(wpc) \cup {w} /\ w \notin Collectors(wpc)
    BY <2>1 DEF IInv, Collectors, GcLocations
  <2>4. Cardinality(Collectors(wpc')) = Cardinality(Collectors(wpc)) + 1
    BY <2>3, CollectorsFinite, FS_AddElement, Zenon
  <2>5. nb_current_gc_workers \in Nat
    BY CollectorsFinite DEF IInv
  <2>6. nb_current_gc_workers' <= NbMaxConcurrentGc
    BY <1>1, <2>1, <2>5, PipelineAssumption
  <2> QED
    BY <2>1, <2>2, <2>4, <2>6 DEF IInv
<1>2. CASE ~(nb_current_gc_workers < NbMaxConcurrentGc)
  BY <1>2, MoveOutside DEF W_EnterGc, Goto, GcLocations
<1> QED
  BY <1>1, <1>2

\* A worker that leaves the collection is counted off.
LEMMA LeaveStep ==
    ASSUME IInv, NEW w \in Workers, W_LeaveGc(w)
    PROVE  IInv'
<1>1. /\ nb_current_gc_workers' = nb_current_gc_workers - 1
      /\ wpc' = [wpc EXCEPT ![w] = "gcdone"] /\ wpc[w] = "collecting"
  BY DEF W_LeaveGc, Goto
<1>2. wpc' = [v \in Workers |-> wpc'[v]]
  BY <1>1 DEF IInv
<1>3. Collectors(wpc') = Collectors(wpc) \ {w} /\ w \in Collectors(wpc)
  BY <1>1 DEF IInv, Collectors, GcLocations
<1>4. Cardinality(Collectors(wpc')) = Cardinality(Collectors(wpc)) - 1
  BY <1>3, CollectorsFinite, FS_RemoveElement, Zenon
<1>5. nb_current_gc_workers \in Nat
  BY CollectorsFinite DEF IInv
<1>6. nb_current_gc_workers' <= NbMaxConcurrentGc
  BY <1>1, <1>5, PipelineAssumption DEF IInv
<1> QED
  BY <1>1, <1>2, <1>4, <1>6 DEF IInv

(***************************************************************************)
(* The rest of the worker's loop.                                          *)
(***************************************************************************)
LEMMA WorkerKeeps ==
    ASSUME IInv, NEW w \in Workers, WorkerStep(w)
    PROVE  IInv'
<1> USE DEF Goto, gcVars, GcLocations
<1>1. CASE W_Ready(w)
  BY <1>1, MoveOutside, Zenon DEF W_Ready
<1>2. CASE W_Wait(w)
  BY <1>2, MoveOutside DEF W_Wait
<1>3. CASE W_Pick(w)
  BY <1>3, MoveOutside DEF W_Pick
<1>4. CASE W_Process(w)
  BY <1>4, MoveOutside, Zenon DEF W_Process
<1>5. CASE W_Invalidate(w)
  BY <1>5, MoveOutside, Zenon DEF W_Invalidate
<1>6. CASE W_Collect(w)
  BY <1>6, MoveOutside, Zenon DEF W_Collect
<1>7. CASE W_Commit(w)
  BY <1>7, MoveOutside, Zenon DEF W_Commit
<1>8. CASE nfs_Cleanup_request_data(w)
  BY <1>8, MoveOutside, Zenon DEF nfs_Cleanup_request_data
<1>9. CASE W_SetGcFlag(w)
  <2>1. CASE wpc[w] = "gcflag"
    BY <1>9, <2>1, MoveOutside, Zenon DEF W_SetGcFlag
  <2>2. CASE wpc[w] = "gcdone"
    BY <1>9, <2>2, MoveOutside, Zenon DEF W_SetGcFlag
  <2> QED
    BY <1>9, <2>1, <2>2 DEF W_SetGcFlag
<1>10. CASE W_Protocol(w)
  BY <1>10, MoveOutside DEF W_Protocol
<1>11. CASE W_EnterGc(w) \/ W_LeaveGc(w)
  BY <1>11, EnterStep, LeaveStep
<1> QED
  BY <1>1, <1>2, <1>3, <1>4, <1>5, <1>6, <1>7, <1>8, <1>9, <1>10, <1>11 DEF WorkerStep

(***************************************************************************)
(* A receiver changes the location of a worker only to wake it up.         *)
(***************************************************************************)
LEMMA ReceiverKeeps ==
    ASSUME IInv, NEW x \in Receivers, ReceiverStep(x)
    PROVE  IInv'
<1> USE DEF gcVars, workerVars
<1>1. CASE M_Select(x)
  BY <1>1, SameLocations, SMTT(30) DEF M_Select
<1>2. CASE GetBuffer(x)
  BY <1>2, SameLocations DEF GetBuffer
<1>3. CASE QueueRequest(x)
  <2> DEFINE w == rworker[x]
             l == IF wpc[w] = "sleep" THEN "wait" ELSE wpc[w]
  <2>1. wpc' = [wpc EXCEPT ![w] = l] /\ nb_current_gc_workers' = nb_current_gc_workers
    BY <1>3 DEF QueueRequest
  <2>2. wpc[w] \in GcLocations <=> l \in GcLocations
    BY DEF GcLocations
  <2> HIDE DEF w, l
  <2> QED
    BY <2>1, <2>2, MoveOutside, Zenon
<1>4. CASE M_Committed(x)
  BY <1>4, SameLocations DEF M_Committed
<1> QED
  BY <1>1, <1>2, <1>3, <1>4 DEF ReceiverStep

\* Receiving, accepting, disconnecting and dying move no worker.
LEMMA NetworkKeeps ==
    ASSUME IInv, NetworkStep \/ Crash
    PROVE  IInv'
<1> USE DEF gcVars, workerVars
<1>1. CASE D_Select \/ D_RecvUdp \/ D_Accept
  BY <1>1, SameLocations DEF D_Select, D_RecvUdp, D_Accept
<1>2. ASSUME NEW c \in Conns, M_Recv(c) \/ M_Died(c) PROVE IInv'
  BY <1>2, SameLocations DEF M_Recv, M_Died
<1>3. ASSUME NEW x \in Receivers, R_Crash(x) \/ R_NoMemory(x) PROVE IInv'
  BY <1>3, SameLocations DEF R_Crash, R_NoMemory
<1>4. ASSUME NEW w \in Workers, W_Crash(w) PROVE IInv'
  BY <1>4, SameLocations DEF W_Crash
<1> QED
  BY <1>1, <1>2, <1>3, <1>4 DEF NetworkStep, Crash

-----------------------------------------------------------------------------
(***************************************************************************)
(* However the workers and receivers interleave, at most                   *)
(* nb_max_concurrent_gc workers are inside cache_inode_gc, and             *)
(* nb_current_gc_workers, which is taken and given back far apart in       *)
(* worker_thread, is their number.                                         *)
(***************************************************************************)
THEOREM GcAlwaysBounded == Spec => []ConcurrentGcBounded
<1>1. Init => IInv
  <2> SUFFICES ASSUME Init PROVE IInv
    OBVIOUS
  <2>1. wpc = [w \in Workers |-> "init"] /\ nb_current_gc_workers = 0
    BY DEF Init
  <2>2. Collectors(wpc) = {}
    BY <2>1 DEF Collectors, GcLocations
  <2> QED
    BY <2>1, <2>2, FS_EmptySet, PipelineAssumption DEF IInv
<1>2. IInv /\ [Next]_vars => IInv'
  <2> SUFFICES ASSUME IInv, [Next]_vars PROVE IInv'
    OBVIOUS
  <2>1. CASE UNCHANGED vars
    BY <2>1, SameLocations DEF vars, gcVars, workerVars
  <2>2. CASE Next
    BY <2>2, WorkerKeeps, ReceiverKeeps, NetworkKeeps DEF Next
  <2> QED
    BY <2>1, <2>2
<1>3. IInv => ConcurrentGcBounded
  BY DEF IInv, ConcurrentGcBounded, Collectors, GcLocations
<1> QED
  BY <1>1, <1>2, <1>3, PTL DEF Spec
=============================================================================
