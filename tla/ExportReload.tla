---------------------------- MODULE ExportReload ----------------------------
(***************************************************************************)
(* The replacement of the export list while the server runs.  The admin    *)
(* thread (nfs_admin_thread.c) parses the new configuration, raises        *)
(* reparse_exports_in_progress for every worker, spins until every worker  *)
(* says waiting_for_exports, replaces the list and lets the workers go on. *)
(* The other side is the wait loop of worker_thread (nfs_worker_thread.c). *)
(*                                                                         *)
(* The admin thread takes none of the workers' mutexes: it writes their    *)
(* flags and signals their condition variables at any time.  A worker      *)
(* holds its mutex_req_condvar from the test of its loop until it sleeps   *)
(* on req_condvar or leaves the loop, and also while it waits on           *)
(* export_condvar; the receivers need that mutex to queue a request.       *)
(* Reads and writes of the flags are taken to be sequentially consistent.  *)
(***************************************************************************)
EXTENDS Integers

CONSTANTS
    nb_worker,
    SpuriousWakeups     \* whether pthread_cond_wait may return by itself

ASSUME ExportReloadAssumption ==
    /\ nb_worker \in Nat \ {0}
    /\ SpuriousWakeups \in BOOLEAN

Workers == 0 .. nb_worker - 1

VARIABLES
    reload_exports,
    apc, i,             \* the admin thread: location and loop index
    reparse_exports_in_progress,
    waiting_for_exports,
    requests,           \* whether each worker's list has a valid entry
    wpc                 \* location of each worker

adminVars == <<reload_exports, apc, i>>
vars == <<adminVars, reparse_exports_in_progress, waiting_for_exports, requests, wpc>>

Init ==
    /\ reload_exports = FALSE
    /\ apc = "wait" /\ i = 0
    /\ reparse_exports_in_progress = [w \in Workers |-> FALSE]
    /\ waiting_for_exports = [w \in Workers |-> FALSE]
    /\ requests = [w \in Workers |-> FALSE]
    /\ wpc = [w \in Workers |-> "lock"]

-----------------------------------------------------------------------------
(* The admin thread.                                                       *)

admin_replace_exports ==
    /\ reload_exports' = TRUE
    /\ UNCHANGED <<apc, i, reparse_exports_in_progress, waiting_for_exports, requests, wpc>>

A_Start ==
    /\ apc = "wait"
    /\ reload_exports
    /\ reload_exports' = FALSE
    /\ apc' = "parse"
    /\ UNCHANGED <<i, reparse_exports_in_progress, waiting_for_exports, requests, wpc>>

(***************************************************************************)
(* The new configuration is read; if that fails, the old list stays.       *)
(***************************************************************************)
A_Parse ==
    /\ apc = "parse"
    /\ apc' \in {"pause", "wait"}
    /\ i' = 0
    /\ UNCHANGED <<reload_exports, reparse_exports_in_progress, waiting_for_exports,
                   requests, wpc>>

(***************************************************************************)
(* The end of one turn of a loop over the workers.                         *)
(***************************************************************************)
NextWorker(loop, done) ==
    IF i + 1 < nb_worker
    THEN i' = i + 1 /\ apc' = loop
    ELSE i' = 0 /\ apc' = done

A_Pause ==
    /\ apc = "pause"
    /\ reparse_exports_in_progress' = [reparse_exports_in_progress EXCEPT ![i] = TRUE]
    /\ apc' = "pausesignal"
    /\ UNCHANGED <<reload_exports, i, waiting_for_exports, requests, wpc>>

\* Mutant of A_PauseSignal: the other condition variable is signalled.
A_PauseSignal_Export ==
    /\ apc = "pausesignal"
    /\ wpc' = [wpc EXCEPT ![i] = IF @ = "blocked" THEN "unblocked" ELSE @]
    /\ NextWorker("pause", "spin")
    /\ UNCHANGED <<reload_exports, reparse_exports_in_progress, waiting_for_exports, requests>>

(***************************************************************************)
(* A signal on req_condvar, without the mutex.                             *)
(***************************************************************************)
A_PauseSignal ==
    /\ apc = "pausesignal"
    /\ wpc' = [wpc EXCEPT ![i] = IF @ = "sleep" THEN "lock" ELSE @]
    /\ NextWorker("pause", "spin")
    /\ UNCHANGED <<reload_exports, reparse_exports_in_progress, waiting_for_exports, requests>>

\* Mutant of A_Spin: one blocked worker is enough.
A_Spin_Any ==
    /\ apc = "spin"
    /\ IF waiting_for_exports[i] THEN apc' = "replace" /\ i' = 0
                                 ELSE NextWorker("spin", "spin")
    /\ UNCHANGED <<reload_exports, reparse_exports_in_progress, waiting_for_exports,
                   requests, wpc>>

(***************************************************************************)
(* One look at one worker.  A turn that finds a worker not waiting starts  *)
(* again.                                                                  *)
(***************************************************************************)
A_Spin ==
    /\ apc = "spin"
    /\ IF waiting_for_exports[i] THEN NextWorker("spin", "replace")
                                 ELSE i' = 0 /\ apc' = "spin"
    /\ UNCHANGED <<reload_exports, reparse_exports_in_progress, waiting_for_exports,
                   requests, wpc>>

(***************************************************************************)
(* The old entries are freed and the head of the list is overwritten: at   *)
(* "replace" the list is not to be read.                                   *)
(***************************************************************************)
A_Replace ==
    /\ apc = "replace"
    /\ apc' = "wake"
    /\ UNCHANGED <<reload_exports, i, reparse_exports_in_progress, waiting_for_exports,
                   requests, wpc>>

A_Wake ==
    /\ apc = "wake"
    /\ reparse_exports_in_progress' = [reparse_exports_in_progress EXCEPT ![i] = FALSE]
    /\ apc' = "wakesignal"
    /\ UNCHANGED <<reload_exports, i, waiting_for_exports, requests, wpc>>

(***************************************************************************)
(* A signal on export_condvar, without the mutex.                          *)
(***************************************************************************)
A_WakeSignal ==
    /\ apc = "wakesignal"
    /\ wpc' = [wpc EXCEPT ![i] = IF @ = "blocked" THEN "unblocked" ELSE @]
    /\ NextWorker("wake", "wait")
    /\ UNCHANGED <<reload_exports, reparse_exports_in_progress, waiting_for_exports, requests>>

-----------------------------------------------------------------------------
(* The workers and the receivers.                                          *)

Goto(w, l) == wpc' = [wpc EXCEPT ![w] = l]

(***************************************************************************)
(* The condition of the wait loop, the mutex being taken at "lock".        *)
(***************************************************************************)
W_Test(w) ==
    /\ wpc[w] \in {"lock", "test"}
    /\ Goto(w, IF ~requests[w] \/ reparse_exports_in_progress[w] THEN "body" ELSE "work")
    /\ UNCHANGED <<adminVars, reparse_exports_in_progress, waiting_for_exports, requests>>

(***************************************************************************)
(* The body of the loop reads the flag again.                              *)
(***************************************************************************)
W_Body(w) ==
    /\ wpc[w] = "body"
    /\ IF reparse_exports_in_progress[w]
       THEN /\ waiting_for_exports' = [waiting_for_exports EXCEPT ![w] = TRUE]
            /\ Goto(w, "blocking")
       ELSE /\ Goto(w, "presleep")
            /\ UNCHANGED waiting_for_exports
    /\ UNCHANGED <<adminVars, reparse_exports_in_progress, requests>>

(***************************************************************************)
(* pthread_cond_wait on req_condvar or on export_condvar.                  *)
(***************************************************************************)
W_CondWait(w) ==
    /\ \/ wpc[w] = "presleep" /\ Goto(w, "sleep")
       \/ wpc[w] = "blocking" /\ Goto(w, "blocked")
    /\ UNCHANGED <<adminVars, reparse_exports_in_progress, waiting_for_exports, requests>>

W_Unblocked(w) ==
    /\ wpc[w] = "unblocked"
    /\ waiting_for_exports' = [waiting_for_exports EXCEPT ![w] = FALSE]
    /\ Goto(w, "test")
    /\ UNCHANGED <<adminVars, reparse_exports_in_progress, requests>>

(***************************************************************************)
(* A request is processed: at "work" the worker reads the export list.     *)
(* There may be more requests on its list.                                 *)
(***************************************************************************)
W_Work(w) ==
    /\ wpc[w] = "work"
    /\ \E more \in BOOLEAN : requests' = [requests EXCEPT ![w] = more]
    /\ Goto(w, "lock")
    /\ UNCHANGED <<adminVars, reparse_exports_in_progress, waiting_for_exports>>

SpuriousWakeup(w) ==
    /\ SpuriousWakeups
    /\ \/ wpc[w] = "sleep" /\ Goto(w, "lock")
       \/ wpc[w] = "blocked" /\ Goto(w, "unblocked")
    /\ UNCHANGED <<adminVars, reparse_exports_in_progress, waiting_for_exports, requests>>

(***************************************************************************)
(* A receiver queues a request under mutex_req_condvar, which the worker   *)
(* has released only at these locations, and signals req_condvar.          *)
(***************************************************************************)
Enqueue(w) ==
    /\ wpc[w] \in {"lock", "sleep", "work"}
    /\ requests' = [requests EXCEPT ![w] = TRUE]
    /\ wpc' = [wpc EXCEPT ![w] = IF @ = "sleep" THEN "lock" ELSE @]
    /\ UNCHANGED <<adminVars, reparse_exports_in_progress, waiting_for_exports>>

-----------------------------------------------------------------------------
AdminStep ==
    \/ A_Start
    \/ A_Parse
    \/ A_Pause
    \/ A_PauseSignal
    \/ A_Spin
    \/ A_Replace
    \/ A_Wake
    \/ A_WakeSignal

WorkerStep(w) ==
    \/ W_Test(w)
    \/ W_Body(w)
    \/ W_CondWait(w)
    \/ W_Unblocked(w)
    \/ W_Work(w)

Next ==
    \/ admin_replace_exports
    \/ AdminStep
    \/ \E w \in Workers : WorkerStep(w) \/ SpuriousWakeup(w) \/ Enqueue(w)

Spec == Init /\ [][Next]_vars

(***************************************************************************)
(* Every thread that can run is scheduled; nothing obliges a client to     *)
(* send a request or an administrator to ask for a reload.                 *)
(***************************************************************************)
FairSpec == Spec /\ WF_vars(AdminStep) /\ \A w \in Workers : WF_vars(WorkerStep(w))

-----------------------------------------------------------------------------
(***************************************************************************)
(* The flags are booleans, the threads are at known locations, the admin   *)
(* thread's index designates a worker.                                     *)
(***************************************************************************)
TypeOK ==
    /\ reload_exports \in BOOLEAN
    /\ apc \in {"wait", "parse", "pause", "pausesignal", "spin", "replace", "wake",
                "wakesignal"}
    /\ i \in Workers
    /\ reparse_exports_in_progress \in [Workers -> BOOLEAN]
    /\ waiting_for_exports \in [Workers -> BOOLEAN]
    /\ requests \in [Workers -> BOOLEAN]
    /\ wpc \in [Workers -> {"lock", "test", "body", "presleep", "sleep", "blocking",
                            "blocked", "unblocked", "work"}]

(***************************************************************************)
(* rebuild_export_list: "worker threads are no longer accessing the export *)
(* list" when it is replaced, although nothing but the two flags of each   *)
(* worker says so.                                                         *)
(***************************************************************************)
ReplacedWhileUnused ==
    apc = "replace" => \A w \in Workers : wpc[w] # "work"

(***************************************************************************)
(* "If threads are blocked on the request queue, wake them up so they are  *)
(* blocked on the exports list replacement": a worker that is asleep when  *)
(* the admin thread signals it, or busy, whatever its queue holds, comes   *)
(* to wait for the replacement.  Only one that has read its flag before it *)
(* was raised and does not sleep yet may miss the signal.                  *)
(***************************************************************************)
AwakeWorkerPauses ==
    \A w \in Workers :
        apc = "pausesignal" /\ i = w /\ wpc[w] # "presleep" ~> waiting_for_exports[w]
=============================================================================
