-------------------------- MODULE RequestPipeline ---------------------------
(***************************************************************************)
(* How a request travels through the server: the dispatcher thread         *)
(* (nfs_rpc_dispatcher_thread.c) receives UDP messages and accepts TCP     *)
(* connections, one manager thread per TCP connection                      *)
(* (nfs_rpc_tcp_socket_manager_thread.c) receives that client's messages,  *)
(* and the worker threads (nfs_worker_thread.c) process them.              *)
(*                                                                         *)
(* A message is received into a buffer (nfs_request_data_t) taken from the *)
(* pool of the chosen worker and queued on that worker's pending_request   *)
(* list.  The worker tags the list entry as invalid when it has processed  *)
(* the request; from time to time it collects the invalid entries, which   *)
(* puts their buffers back to its pool.  A TCP manager waits for the       *)
(* worker's commit before it receives the next message.                    *)
(*                                                                         *)
(* Each action is what a thread does between two synchronisations: a       *)
(* critical section of mutex_req_condvar, request_pool_mutex,              *)
(* mutex_cond_xprt or lock_nb_current_gc_workers, or an access to shared   *)
(* memory without a lock.  What the worker computes for a request is not   *)
(* modelled here, nor is the reload of the exports (see ExportReload).     *)
(***************************************************************************)
EXTENDS LRUOps, FiniteSets

CONSTANTS
    Workers,            \* the worker threads
    MountWorker,        \* worker #0, which gets all of the mount requests
    Conns,              \* TCP connections, each with its manager thread
    Buffers,            \* nfs_request_data_t structures (bound on memory)
    UdpCalls,           \* messages the clients send over UDP to NFS,
    MountCalls,         \*   over UDP to the mount service,
    TcpCalls,           \*   and over the TCP connections
    NbBeforeGc,         \* worker_param.nb_before_gc
    NbMaxConcurrentGc,  \* core_param.nb_max_concurrent_gc
    LowMemory,          \* whether allocations may fail
    Dispatcher,         \* the dispatcher thread
    NULL

ASSUME PipelineAssumption ==
    /\ IsFiniteSet(Workers) /\ MountWorker \in Workers
    /\ NbBeforeGc \in Nat
    /\ NbMaxConcurrentGc \in Nat
    /\ LowMemory \in BOOLEAN
    /\ Dispatcher \notin Conns
    /\ NULL \notin Conns \cup Workers \cup Buffers

Calls == UdpCalls \cup MountCalls \cup TcpCalls
Receivers == Conns \cup {Dispatcher}
Sockets == Conns \cup {"nfs_udp", "mnt_udp", "nfs_tcp"}

VARIABLES
    net,                \* messages not received yet
    dropped,            \* messages that a receiver refused or could not queue
    executed,           \* ghost: how often each message was processed
    buf,                \* the contents of the buffers
    fresh,              \* buffers that no pool ever held
    request_pool,       \* each worker's free list
    pending_request,    \* each worker's LRU list of buffers
    passcounter,
    is_ready,
    gc_in_progress,
    nb_current_gc_workers,
    etat_xprt,          \* the commit flag of each connection
    wpc, wreq, wxprt,   \* each worker: location, pnfsreq and xprt
    rpc, rsock, rworker, rreq,
                        \* each receiver: location, socket, worker_index, pnfsreq
    alive               \* FALSE once the process died or exited

netVars == <<net, dropped, executed>>
poolVars == <<buf, fresh, request_pool, pending_request>>
gcVars == <<is_ready, gc_in_progress, nb_current_gc_workers>>
workerVars == <<wpc, wreq, wxprt>>
receiverVars == <<rpc, rsock, rworker, rreq>>
vars == <<netVars, poolVars, passcounter, gcVars, etat_xprt, workerVars,
          receiverVars, alive>>

-----------------------------------------------------------------------------
Init ==
    /\ net = Calls
    /\ dropped = {}
    /\ executed = [c \in Calls |-> 0]
    /\ buf = [b \in Buffers |-> [ipproto |-> "none", xprt |-> NULL, call |-> NULL]]
    /\ fresh = Buffers
    /\ request_pool = [w \in Workers |-> <<>>]
    /\ pending_request = [w \in Workers |-> LRU_Init]
    /\ passcounter = [w \in Workers |-> 0]
    /\ is_ready = [w \in Workers |-> FALSE]
    /\ gc_in_progress = [w \in Workers |-> FALSE]
    /\ nb_current_gc_workers = 0
    /\ etat_xprt = [c \in Conns |-> 0]
    /\ wpc = [w \in Workers |-> "init"]
    /\ wreq = [w \in Workers |-> NULL]
    /\ wxprt = [w \in Workers |-> NULL]
    /\ rpc = [x \in Receivers |-> IF x = Dispatcher THEN "select" ELSE "closed"]
    /\ rsock = [x \in Receivers |-> NULL]
    /\ rworker = [x \in Receivers |-> NULL]
    /\ rreq = [x \in Receivers |-> NULL]
    /\ alive = TRUE

(***************************************************************************)
(* The counter is only compared with nb_before_gc.                         *)
(***************************************************************************)
CountPass(n) == IF n > NbBeforeGc THEN n ELSE n + 1

(***************************************************************************)
(* A receiver increments the counter of a worker without a lock, while the *)
(* worker may be updating it: the increment may get lost.                  *)
(***************************************************************************)
RacyCountPass(w) ==
    \E n \in {passcounter[w], CountPass(passcounter[w])} :
        passcounter' = [passcounter EXCEPT ![w] = n]

-----------------------------------------------------------------------------
(* The receivers: the dispatcher and the TCP managers.                     *)

\* Mutant of nfs_rpc_get_worker_index: no worker is chosen when none is ready.
nfs_rpc_get_worker_index_Once(mount_flag) ==
    LET ready == {w \in Workers : is_ready[w] /\ ~gc_in_progress[w]}
    IN  IF mount_flag THEN {MountWorker}
        ELSE IF ready = {} THEN {NULL} ELSE ready

(***************************************************************************)
(* Which workers nfs_rpc_get_worker_index may return.  select_worker_queue *)
(* reads the queue lengths without a lock while they change, so that any   *)
(* worker that is ready and not collecting may look like the best one.     *)
(***************************************************************************)
nfs_rpc_get_worker_index(mount_flag) ==
    IF mount_flag
    THEN {MountWorker}
    ELSE {w \in Workers : is_ready[w] /\ ~gc_in_progress[w]}

(***************************************************************************)
(* The sockets that select reports to rpc_dispatcher_svc_run.              *)
(***************************************************************************)
Readable ==
    {s \in {"nfs_udp", "mnt_udp", "nfs_tcp"} :
        CASE s = "nfs_udp" -> net \cap UdpCalls # {}
          [] s = "mnt_udp" -> net \cap MountCalls # {}
          [] s = "nfs_tcp" -> \E c \in Conns : rpc[c] = "closed"}

(***************************************************************************)
(* nfs_rpc_getreq chooses a worker for a readable socket.                  *)
(***************************************************************************)
D_Select ==
    /\ rpc[Dispatcher] = "select"
    /\ \E s \in Readable :
          /\ \E w \in nfs_rpc_get_worker_index(s = "mnt_udp") :
                rworker' = [rworker EXCEPT ![Dispatcher] = w]
          /\ rsock' = [rsock EXCEPT ![Dispatcher] = s]
    /\ rpc' = [rpc EXCEPT ![Dispatcher] = "get"]
    /\ UNCHANGED <<netVars, poolVars, passcounter, gcVars, etat_xprt, workerVars, rreq>>

M_Select(c) ==
    /\ rpc[c] = "select"
    /\ \E w \in nfs_rpc_get_worker_index(FALSE) :
          rworker' = [rworker EXCEPT ![c] = w]
    /\ rpc' = [rpc EXCEPT ![c] = "get"]
    /\ UNCHANGED <<netVars, poolVars, passcounter, gcVars, etat_xprt, workerVars, rsock, rreq>>

(***************************************************************************)
(* GET_PREALLOC_CONSTRUCT under request_pool_mutex, and the setting up of  *)
(* the buffer for the socket.  An empty pool grows by new buffers.         *)
(***************************************************************************)
GetBuffer(x) ==
    LET w == rworker[x]
        Fill(b) == /\ rreq' = [rreq EXCEPT ![x] = b]
                   /\ buf' = [buf EXCEPT
                         ![b].ipproto = IF rsock[x] \in {"nfs_udp", "mnt_udp"}
                                        THEN "UDP" ELSE "TCP",
                         ![b].xprt = rsock[x]]
    IN  /\ rpc[x] = "get"
        /\ \/ /\ request_pool[w] # <<>>
              /\ Fill(Head(request_pool[w]))
              /\ request_pool' = [request_pool EXCEPT ![w] = Tail(@)]
              /\ UNCHANGED fresh
           \/ /\ request_pool[w] = <<>>
              /\ fresh # {}
              /\ LET b == CHOOSE b \in fresh : TRUE
                 IN  Fill(b) /\ fresh' = fresh \ {b}
              /\ UNCHANGED request_pool
        /\ rpc' = [rpc EXCEPT ![x] = "recv"]
        /\ UNCHANGED <<netVars, pending_request, passcounter, gcVars, etat_xprt, workerVars,
                       rsock, rworker>>

(***************************************************************************)
(* SVC_RECV delivers one of the messages S into the buffer of x.           *)
(***************************************************************************)
Received(x, S) ==
    /\ \E c \in net \cap S :
          /\ net' = net \ {c}
          /\ buf' = [buf EXCEPT ![rreq[x]].call = c]
    /\ rpc' = [rpc EXCEPT ![x] = "queue"]
    /\ UNCHANGED <<dropped, rreq, passcounter>>

(***************************************************************************)
(* SVC_RECV returns FALSE on one of the messages S, but the transport did  *)
(* not die: the buffer is neither queued nor put back to the pool.         *)
(***************************************************************************)
Refused(x, S) ==
    /\ buf[rreq[x]].xprt # NULL
    /\ \E c \in net \cap S :
          /\ net' = net \ {c}
          /\ dropped' = dropped \cup {c}
    /\ rreq' = [rreq EXCEPT ![x] = NULL]
    /\ rpc' = [rpc EXCEPT ![x] = "select"]
    /\ RacyCountPass(rworker[x])
    /\ UNCHANGED buf

D_RecvUdp ==
    LET S == IF rsock[Dispatcher] = "mnt_udp" THEN MountCalls ELSE UdpCalls
    IN  /\ rpc[Dispatcher] = "recv"
        /\ rsock[Dispatcher] \in {"nfs_udp", "mnt_udp"}
        /\ Received(Dispatcher, S) \/ Refused(Dispatcher, S)
        /\ UNCHANGED <<executed, fresh, request_pool, pending_request, gcVars, etat_xprt,
                       workerVars, rsock, rworker>>

(***************************************************************************)
(* SVC_RECV on the listening socket is Rendezvous_request: it accepts the  *)
(* connection, clears its commit flag, starts its manager and returns      *)
(* FALSE.                                                                  *)
(***************************************************************************)
D_Accept ==
    /\ rpc[Dispatcher] = "recv"
    /\ rsock[Dispatcher] = "nfs_tcp"
    /\ buf[rreq[Dispatcher]].xprt # NULL
    /\ \E c \in Conns :
          /\ rpc[c] = "closed"
          /\ etat_xprt' = [etat_xprt EXCEPT ![c] = 0]
          /\ rpc' = [rpc EXCEPT ![c] = "select", ![Dispatcher] = "select"]
          /\ rsock' = [rsock EXCEPT ![c] = c]
    /\ rreq' = [rreq EXCEPT ![Dispatcher] = NULL]
    /\ RacyCountPass(rworker[Dispatcher])
    /\ UNCHANGED <<netVars, poolVars, gcVars, workerVars, rworker>>

M_Recv(c) ==
    /\ rpc[c] = "recv"
    /\ Received(c, TcpCalls) \/ Refused(c, TcpCalls)
    /\ UNCHANGED <<executed, fresh, request_pool, pending_request, gcVars, etat_xprt,
                   workerVars, rsock, rworker>>

(***************************************************************************)
(* The client closed the connection: SVC_DESTROY, the buffer goes back to  *)
(* the pool and the manager thread ends.                                   *)
(***************************************************************************)
M_Died(c) ==
    /\ rpc[c] = "recv"
    /\ buf[rreq[c]].xprt # NULL
    /\ request_pool' = [request_pool EXCEPT ![rworker[c]] = <<rreq[c]>> \o @]
    /\ rreq' = [rreq EXCEPT ![c] = NULL]
    /\ rpc' = [rpc EXCEPT ![c] = "ended"]
    /\ UNCHANGED <<netVars, buf, fresh, pending_request, passcounter, gcVars, etat_xprt,
                   workerVars, rsock, rworker>>

\* Mutant of QueueRequest: req_condvar is signalled before the entry exists,
\* outside of mutex_req_condvar, so that the worker may go to sleep after it.
QueueRequest_NoSignal(x) ==
    LET w == rworker[x]
    IN  /\ rpc[x] = "queue"
        /\ pending_request' = [pending_request EXCEPT ![w] = LRU_new_entry(@, rreq[x])]
        /\ UNCHANGED wpc
        /\ rreq' = [rreq EXCEPT ![x] = NULL]
        /\ rpc' = [rpc EXCEPT ![x] = IF x = Dispatcher THEN "select" ELSE "commit"]
        /\ UNCHANGED <<netVars, buf, fresh, request_pool, passcounter, gcVars, etat_xprt,
                       wreq, wxprt, rsock, rworker>>

(***************************************************************************)
(* Under mutex_req_condvar and request_pool_mutex: a new entry at the end  *)
(* of the worker's list, and a signal on its req_condvar.                  *)
(***************************************************************************)
QueueRequest(x) ==
    LET w == rworker[x]
    IN  /\ rpc[x] = "queue"
        /\ pending_request' = [pending_request EXCEPT ![w] = LRU_new_entry(@, rreq[x])]
        /\ wpc' = [wpc EXCEPT ![w] = IF @ = "sleep" THEN "wait" ELSE @]
        /\ rreq' = [rreq EXCEPT ![x] = NULL]
        /\ rpc' = [rpc EXCEPT ![x] = IF x = Dispatcher THEN "select" ELSE "commit"]
        /\ UNCHANGED <<netVars, buf, fresh, request_pool, passcounter, gcVars, etat_xprt,
                       wreq, wxprt, rsock, rworker>>

\* Mutant of M_Committed: the flag is not reset.
M_Committed_NoReset(c) ==
    /\ rpc[c] = "commit"
    /\ etat_xprt[c] = 1
    /\ rpc' = [rpc EXCEPT ![c] = "select"]
    /\ UNCHANGED <<netVars, poolVars, passcounter, gcVars, etat_xprt, workerVars, rsock,
                   rworker, rreq>>

(***************************************************************************)
(* The manager leaves its wait for the worker's commit.  The flag is set   *)
(* and tested under mutex_cond_xprt, so that no signal gets lost.          *)
(***************************************************************************)
M_Committed(c) ==
    /\ rpc[c] = "commit"
    /\ etat_xprt[c] = 1
    /\ etat_xprt' = [etat_xprt EXCEPT ![c] = 0]
    /\ rpc' = [rpc EXCEPT ![c] = "select"]
    /\ UNCHANGED <<netVars, poolVars, passcounter, gcVars, workerVars, rsock, rworker, rreq>>

(***************************************************************************)
(* SVC_RECV or SVC_STAT is applied to the null pointer that another thread *)
(* left in the buffer.                                                     *)
(***************************************************************************)
R_Crash(x) ==
    /\ rpc[x] = "recv"
    /\ buf[rreq[x]].xprt = NULL
    /\ alive' = FALSE
    /\ UNCHANGED <<netVars, poolVars, passcounter, gcVars, etat_xprt, workerVars, receiverVars>>

(***************************************************************************)
(* GET_PREALLOC_CONSTRUCT or LRU_new_entry finds no memory: the server     *)
(* exits, but a manager that cannot queue its message only ends, with the  *)
(* message and the buffer.                                                 *)
(***************************************************************************)
R_NoMemory(x) ==
    /\ LowMemory
    /\ \/ /\ \/ rpc[x] = "get" /\ request_pool[rworker[x]] = <<>>
             \/ rpc[x] = "queue" /\ x = Dispatcher
          /\ alive' = FALSE
          /\ UNCHANGED <<dropped, rpc, rreq>>
       \/ /\ rpc[x] = "queue"
          /\ x \in Conns
          /\ dropped' = dropped \cup {buf[rreq[x]].call}
          /\ rreq' = [rreq EXCEPT ![x] = NULL]
          /\ rpc' = [rpc EXCEPT ![x] = "ended"]
          /\ UNCHANGED alive
    /\ UNCHANGED <<net, executed, poolVars, passcounter, gcVars, etat_xprt, workerVars,
                   rsock, rworker>>

-----------------------------------------------------------------------------
(* The workers.                                                            *)

Goto(w, l) == wpc' = [wpc EXCEPT ![w] = l]

W_Ready(w) ==
    /\ wpc[w] = "init"
    /\ is_ready' = [is_ready EXCEPT ![w] = TRUE]
    /\ Goto(w, "wait")
    /\ UNCHANGED <<netVars, poolVars, passcounter, gc_in_progress, nb_current_gc_workers,
                   etat_xprt, wreq, wxprt, receiverVars>>

(***************************************************************************)
(* The test of the wait loop, under mutex_req_condvar: the worker sleeps   *)
(* on req_condvar when all of its entries are invalid.                     *)
(***************************************************************************)
W_Wait(w) ==
    /\ wpc[w] = "wait"
    /\ IF pending_request[w].nb_entry = pending_request[w].nb_invalid
       THEN Goto(w, "sleep")
       ELSE Goto(w, "pick")
    /\ UNCHANGED <<netVars, poolVars, passcounter, gcVars, etat_xprt, wreq, wxprt,
                   receiverVars>>

ValidEntries(w) ==
    {i \in 1 .. Len(pending_request[w].entries) : pending_request[w].entries[i].valid}

\* Mutant of W_Pick: the search starts at the MRU end and ignores valid_state.
W_Pick_Newest(w) ==
    /\ wpc[w] = "pick"
    /\ pending_request[w].entries # <<>>
    /\ wreq' = [wreq EXCEPT ![w] = MRU(pending_request[w]).data]
    /\ Goto(w, "process")
    /\ UNCHANGED <<netVars, poolVars, passcounter, gcVars, etat_xprt, wxprt, receiverVars>>

(***************************************************************************)
(* Under request_pool_mutex: the first valid entry from the LRU end; back  *)
(* to the loop if there is none.                                           *)
(***************************************************************************)
W_Pick(w) ==
    /\ wpc[w] = "pick"
    /\ \/ /\ ValidEntries(w) = {}
          /\ Goto(w, "wait")
          /\ UNCHANGED wreq
       \/ \E i \in ValidEntries(w) :
             /\ \A j \in ValidEntries(w) : i <= j
             /\ wreq' = [wreq EXCEPT ![w] = pending_request[w].entries[i].data]
             /\ Goto(w, "process")
    /\ UNCHANGED <<netVars, poolVars, passcounter, gcVars, etat_xprt, wxprt, receiverVars>>

(***************************************************************************)
(* Authentication, the choice of the program and nfs_rpc_execute: the      *)
(* message is processed, whatever the answer.                              *)
(***************************************************************************)
W_Process(w) ==
    LET b == buf[wreq[w]]
    IN  /\ wpc[w] = "process"
        /\ b.xprt # NULL
        /\ wxprt' = [wxprt EXCEPT ![w] = b.xprt]
        /\ executed' = [executed EXCEPT ![b.call] = @ + 1]
        /\ Goto(w, "invalidate")
        /\ UNCHANGED <<net, dropped, poolVars, passcounter, gcVars, etat_xprt, wreq,
                       receiverVars>>

(***************************************************************************)
(* pnfsreq->xprt->xp_sock is read through a null pointer.                  *)
(***************************************************************************)
W_Crash(w) ==
    /\ wpc[w] = "process"
    /\ buf[wreq[w]].xprt = NULL
    /\ alive' = FALSE
    /\ UNCHANGED <<netVars, poolVars, passcounter, gcVars, etat_xprt, workerVars, receiverVars>>

\* Mutant of W_Invalidate: the worker also gives the buffer back to the pool,
\* which the collection of the entry will do again.
W_Invalidate_Release(w) ==
    /\ wpc[w] = "invalidate"
    /\ \E i \in 1 .. Len(pending_request[w].entries) :
          /\ pending_request[w].entries[i].data = wreq[w]
          /\ pending_request' = [pending_request EXCEPT ![w] = LRU_invalidate(@, i)]
    /\ request_pool' = [request_pool EXCEPT ![w] = <<wreq[w]>> \o @]
    /\ Goto(w, "collect")
    /\ UNCHANGED <<netVars, buf, fresh, passcounter, gcVars, etat_xprt, wreq, wxprt,
                   receiverVars>>

(***************************************************************************)
(* LRU_invalidate on the entry that holds pnfsreq, under                   *)
(* request_pool_mutex.                                                     *)
(***************************************************************************)
W_Invalidate(w) ==
    /\ wpc[w] = "invalidate"
    /\ \E i \in 1 .. Len(pending_request[w].entries) :
          /\ pending_request[w].entries[i].data = wreq[w]
          /\ pending_request' = [pending_request EXCEPT ![w] = LRU_invalidate(@, i)]
    /\ Goto(w, "collect")
    /\ UNCHANGED <<netVars, buf, fresh, request_pool, passcounter, gcVars, etat_xprt, wreq,
                   wxprt, receiverVars>>

(***************************************************************************)
(* RELEASE_PREALLOC of the buffers of the entries, in their order: each    *)
(* becomes the head of the free list.                                      *)
(***************************************************************************)
ReleaseAll(pool, entries) ==
    [i \in 1 .. Len(entries) |-> entries[Len(entries) + 1 - i].data] \o pool

(***************************************************************************)
(* After more than nb_before_gc passes, LRU_gc_invalid on the list of      *)
(* pending requests, under request_pool_mutex; clean_pending_request puts  *)
(* each buffer back to the pool.                                           *)
(***************************************************************************)
W_Collect(w) ==
    /\ wpc[w] = "collect"
    /\ IF passcounter[w] > NbBeforeGc
       THEN /\ passcounter' = [passcounter EXCEPT ![w] = CountPass(0)]
            /\ request_pool' = [request_pool EXCEPT
                  ![w] = ReleaseAll(@, LRU_gc_removed(pending_request[w]))]
            /\ pending_request' = [pending_request EXCEPT ![w] = LRU_gc_invalid(@)]
       ELSE /\ passcounter' = [passcounter EXCEPT ![w] = CountPass(@)]
            /\ UNCHANGED <<pending_request, request_pool>>
    /\ Goto(w, "protocol")
    /\ UNCHANGED <<netVars, buf, fresh, gcVars, etat_xprt, wreq, wxprt, receiverVars>>

(***************************************************************************)
(* The worker reads pnfsreq->ipproto.  The buffer may be back in the pool, *)
(* or already serve another request.                                       *)
(***************************************************************************)
W_Protocol(w) ==
    /\ wpc[w] = "protocol"
    /\ \/ buf[wreq[w]].ipproto = "TCP" /\ Goto(w, "commit")
       \/ buf[wreq[w]].ipproto = "UDP" /\ Goto(w, "cleanup")
       \/ buf[wreq[w]].ipproto = "none" /\ Goto(w, "gc")
    /\ UNCHANGED <<netVars, poolVars, passcounter, gcVars, etat_xprt, wreq, wxprt,
                   receiverVars>>

(***************************************************************************)
(* Under mutex_cond_xprt: the commit to the manager of the transport that  *)
(* the worker remembers.  The flags of the UDP sockets are read by nobody. *)
(***************************************************************************)
W_Commit(w) ==
    /\ wpc[w] = "commit"
    /\ etat_xprt' = [c \in Conns |-> IF c = wxprt[w] THEN 1 ELSE etat_xprt[c]]
    /\ Goto(w, "gc")
    /\ UNCHANGED <<netVars, poolVars, passcounter, gcVars, wreq, wxprt, receiverVars>>

nfs_Cleanup_request_data(w) ==
    /\ wpc[w] = "cleanup"
    /\ buf' = [buf EXCEPT ![wreq[w]].ipproto = "none", ![wreq[w]].xprt = NULL]
    /\ Goto(w, "gc")
    /\ UNCHANGED <<netVars, fresh, request_pool, pending_request, passcounter, gcVars,
                   etat_xprt, wreq, wxprt, receiverVars>>

\* Mutant of W_EnterGc: the bound is tested with <= in place of <.
W_EnterGc_OffByOne(w) ==
    /\ wpc[w] = "gc"
    /\ IF nb_current_gc_workers <= NbMaxConcurrentGc
       THEN /\ nb_current_gc_workers' = nb_current_gc_workers + 1
            /\ Goto(w, "gcflag")
       ELSE /\ Goto(w, "wait")
            /\ UNCHANGED nb_current_gc_workers
    /\ UNCHANGED <<netVars, poolVars, passcounter, is_ready, gc_in_progress, etat_xprt,
                   wreq, wxprt, receiverVars>>

(***************************************************************************)
(* Under lock_nb_current_gc_workers: may this worker collect the inode     *)
(* cache?                                                                  *)
(***************************************************************************)
W_EnterGc(w) ==
    /\ wpc[w] = "gc"
    /\ IF nb_current_gc_workers < NbMaxConcurrentGc
       THEN /\ nb_current_gc_workers' = nb_current_gc_workers + 1
            /\ Goto(w, "gcflag")
       ELSE /\ Goto(w, "wait")
            /\ UNCHANGED nb_current_gc_workers
    /\ UNCHANGED <<netVars, poolVars, passcounter, is_ready, gc_in_progress, etat_xprt,
                   wreq, wxprt, receiverVars>>

(***************************************************************************)
(* The flag that keeps new requests away is set and cleared without a      *)
(* lock, while the worker is counted (before cache_inode_gc) and when it   *)
(* is not any more.                                                        *)
(***************************************************************************)
W_SetGcFlag(w) ==
    /\ wpc[w] \in {"gcflag", "gcdone"}
    /\ gc_in_progress' = [gc_in_progress EXCEPT ![w] = (wpc[w] = "gcflag")]
    /\ Goto(w, IF wpc[w] = "gcflag" THEN "collecting" ELSE "wait")
    /\ UNCHANGED <<netVars, poolVars, passcounter, is_ready, nb_current_gc_workers,
                   etat_xprt, wreq, wxprt, receiverVars>>

(***************************************************************************)
(* cache_inode_gc is over.                                                 *)
(***************************************************************************)
W_LeaveGc(w) ==
    /\ wpc[w] = "collecting"
    /\ nb_current_gc_workers' = nb_current_gc_workers - 1
    /\ Goto(w, "gcdone")
    /\ UNCHANGED <<netVars, poolVars, passcounter, is_ready, gc_in_progress, etat_xprt,
                   wreq, wxprt, receiverVars>>

-----------------------------------------------------------------------------
WorkerStep(w) ==
    /\ alive
    /\ UNCHANGED alive
    /\ \/ W_Ready(w)
       \/ W_Wait(w)
       \/ W_Pick(w)
       \/ W_Process(w)
       \/ W_Invalidate(w)
       \/ W_Collect(w)
       \/ W_Protocol(w)
       \/ W_Commit(w)
       \/ nfs_Cleanup_request_data(w)
       \/ W_EnterGc(w)
       \/ W_SetGcFlag(w)
       \/ W_LeaveGc(w)

(***************************************************************************)
(* The steps of a receiver that do not wait for the network.               *)
(***************************************************************************)
ReceiverStep(x) ==
    /\ alive
    /\ UNCHANGED alive
    /\ \/ x \in Conns /\ M_Select(x)
       \/ GetBuffer(x)
       \/ QueueRequest(x)
       \/ x \in Conns /\ M_Committed(x)

NetworkStep ==
    /\ alive
    /\ UNCHANGED alive
    /\ \/ D_Select
       \/ D_RecvUdp
       \/ D_Accept
       \/ \E c \in Conns : M_Recv(c) \/ M_Died(c)

Crash ==
    /\ alive
    /\ \/ \E x \in Receivers : R_Crash(x) \/ R_NoMemory(x)
       \/ \E w \in Workers : W_Crash(w)

Next ==
    \/ \E w \in Workers : WorkerStep(w)
    \/ \E x \in Receivers : ReceiverStep(x)
    \/ NetworkStep
    \/ Crash

(***************************************************************************)
(* Every thread that can run is scheduled, be it into a null pointer;      *)
(* nothing obliges the clients to connect, to send or to stay connected.   *)
(***************************************************************************)
Fairness ==
    /\ \A w \in Workers : WF_vars(WorkerStep(w)) /\ WF_vars(alive /\ W_Crash(w))
    /\ \A x \in Receivers : WF_vars(ReceiverStep(x))
    /\ WF_vars(alive /\ R_Crash(Dispatcher))

Spec == Init /\ [][Next]_vars
FairSpec == Spec /\ Fairness

-----------------------------------------------------------------------------
Entries(w) == pending_request[w].entries
Queued(w) == {Entries(w)[i].data : i \in 1 .. Len(Entries(w))}
Pooled(w) == {request_pool[w][i] : i \in 1 .. Len(request_pool[w])}

(***************************************************************************)
(* The variables hold what the C types of nfs_request_data_t,              *)
(* nfs_worker_data_t and the thread's locals allow.                        *)
(***************************************************************************)
TypeOK ==
    /\ net \subseteq Calls /\ dropped \subseteq Calls
    /\ executed \in [Calls -> Nat]
    /\ buf \in [Buffers -> [ipproto : {"none", "UDP", "TCP"},
                            xprt : Sockets \cup {NULL}, call : Calls \cup {NULL}]]
    /\ fresh \subseteq Buffers
    /\ \A w \in Workers :
          /\ request_pool[w] \in Seq(Buffers)
          /\ Entries(w) \in Seq([data : Buffers, valid : BOOLEAN])
    /\ passcounter \in [Workers -> 0 .. NbBeforeGc + 1]
    /\ is_ready \in [Workers -> BOOLEAN] /\ gc_in_progress \in [Workers -> BOOLEAN]
    /\ etat_xprt \in [Conns -> {0, 1}]
    /\ wreq \in [Workers -> Buffers \cup {NULL}]
    /\ wxprt \in [Workers -> Sockets \cup {NULL}]
    /\ rworker \in [Receivers -> Workers \cup {NULL}]
    /\ rreq \in [Receivers -> Buffers \cup {NULL}]
    /\ \A x \in Receivers :
          /\ rpc[x] \in {"get", "recv", "queue"} => rworker[x] \in Workers
          /\ rpc[x] \in {"recv", "queue"} => rreq[x] \in Buffers

(***************************************************************************)
(* GET_PREALLOC, LRU_new_entry, LRU_gc_invalid and RELEASE_PREALLOC never  *)
(* duplicate a buffer: it is on at most one free list, on at most one list *)
(* of pending requests, or in the hands of at most one receiver, and in    *)
(* only one of these places.                                               *)
(***************************************************************************)
BufferInOnePlace ==
    /\ \A w \in Workers :
          /\ Cardinality(Queued(w)) = Len(Entries(w))
          /\ Cardinality(Pooled(w)) = Len(request_pool[w])
          /\ Queued(w) \cap Pooled(w) = {}
          /\ \A v \in Workers \ {w} :
                (Queued(w) \cup Pooled(w)) \cap (Queued(v) \cup Pooled(v)) = {}
          /\ \A x \in Receivers : rreq[x] \notin Queued(w) \cup Pooled(w)
          /\ (Queued(w) \cup Pooled(w)) \cap fresh = {}
    /\ \A x, y \in Receivers : rreq[x] = rreq[y] /\ rreq[x] # NULL => x = y

(***************************************************************************)
(* Every message that was received is processed exactly once: it waits in  *)
(* the hands of a receiver or in one valid entry until a worker processes  *)
(* it, and no worker processes it again.                                   *)
(***************************************************************************)
ProcessedOnce ==
    \A c \in Calls \ (net \cup dropped) :
        LET Waits(w, i) == /\ i \in ValidEntries(w)
                           /\ buf[Entries(w)[i].data].call = c
                           /\ ~(wpc[w] = "invalidate" /\ wreq[w] = Entries(w)[i].data)
            waiting == {p \in Workers \X (1 .. Cardinality(Buffers)) : Waits(p[1], p[2])}
            held == {x \in Receivers : rpc[x] = "queue" /\ buf[rreq[x]].call = c}
        IN  executed[c] + Cardinality(waiting) + Cardinality(held) = 1

(***************************************************************************)
(* The counters of the list of pending requests, which the worker compares *)
(* to decide whether to sleep, are the numbers of its entries and of its   *)
(* invalid entries.                                                        *)
(***************************************************************************)
QueueCountersExact ==
    \A w \in Workers :
        /\ pending_request[w].nb_entry = Len(Entries(w))
        /\ pending_request[w].nb_invalid = Len(Entries(w)) - Cardinality(ValidEntries(w))

(***************************************************************************)
(* A worker never sleeps on req_condvar while a request waits for it: the  *)
(* receivers insert and signal under mutex_req_condvar.                    *)
(***************************************************************************)
NoSleepOverWork ==
    \A w \in Workers : wpc[w] = "sleep" => ValidEntries(w) = {}

(***************************************************************************)
(* The number of workers that collect the inode cache at the same time is  *)
(* what nb_current_gc_workers says and at most nb_max_concurrent_gc.       *)
(***************************************************************************)
ConcurrentGcBounded ==
    /\ nb_current_gc_workers = Cardinality({w \in Workers : wpc[w] \in {"gcflag", "collecting"}})
    /\ nb_current_gc_workers <= NbMaxConcurrentGc

(***************************************************************************)
(* A commit is for the request the manager waits for: the flag of a        *)
(* connection is never left set for the next request.                      *)
(***************************************************************************)
NoStaleCommit ==
    \A c \in Conns : etat_xprt[c] = 1 => rpc[c] = "commit"

(***************************************************************************)
(* "In case of the use of TCP, commit the dispatcher": a manager that      *)
(* waits for a commit gets it, while the process lives.  The worker learns *)
(* that its request came over TCP from a buffer that it may have given     *)
(* back to the pool just before (W_Collect, W_Protocol).                   *)
(***************************************************************************)
TcpCommitted ==
    \A c \in Conns : rpc[c] = "commit" ~> rpc[c] = "select" \/ ~alive

(***************************************************************************)
(* Every message that a receiver has taken from the network is processed   *)
(* in the end, unless its manager ends without memory for the queue entry  *)
(* or the process dies.                                                    *)
(***************************************************************************)
QueuedIsProcessed ==
    \A c \in Calls : c \notin net \cup dropped ~> executed[c] > 0 \/ c \in dropped \/ ~alive
=============================================================================
