------------------------------- MODULE DupReq -------------------------------
(***************************************************************************)
(* The processing of one request (nfs_rpc_execute in nfs_worker_thread.c)  *)
(* and the duplicate request cache (nfs_dupreq.c).  Clients may send a     *)
(* request again; a worker is to recognise the copy, either because        *)
(* another worker is processing the request (current_xid) or because its   *)
(* reply is cached under its xid.                                          *)
(*                                                                         *)
(* The cache is a hash table from xids to dupreq_entry_t structures, which *)
(* all of the workers share, and for every worker an LRU list and a pool   *)
(* of the structures it added.  An operation of the hash table is one step *)
(* (it holds the lock of the row); the structures are read and written     *)
(* without a lock.                                                         *)
(*                                                                         *)
(* What a service function does is not modelled: the n-th result computed  *)
(* for a call is <<call, n>>.                                              *)
(***************************************************************************)
EXTENDS LRUOps, FiniteSets

CONSTANTS
    nb_worker,
    Calls,              \* what clients ask: one request and its retransmissions
    CAN_BE_DUP,         \* those whose function has that dispatch_behaviour
    Xid,                \* the xid that the client gave to each call
    Entries,            \* dupreq_entry_t structures (bound on memory)
    MaxSends,           \* bound on the transmissions of a call
    MaxReceived,        \* bound on the transmissions of all calls
    MaxExpirations,     \* bound on how often entries expire
    LowMemory,          \* whether an allocation may fail
    NULL

ASSUME DupReqAssumption ==
    /\ nb_worker \in Nat \ {0}
    /\ CAN_BE_DUP \subseteq Calls
    /\ DOMAIN Xid = Calls
    /\ MaxSends \in Nat /\ MaxReceived \in Nat /\ MaxExpirations \in Nat /\ LowMemory \in BOOLEAN
    /\ NULL \notin Entries \cup Calls
    /\ \A c \in Calls : Xid[c] \notin {0, NULL}

Workers == 0 .. nb_worker - 1
Xids == {Xid[c] : c \in Calls}
Results == Calls \X (1 .. MaxSends)

VARIABLES
    sends,              \* how often each call was received
    runs,               \* how many results were computed for each call
    replies,            \* the results sent to the clients: <<call, result>> pairs
    current_xid,        \* of each worker
    ht_dupreq,          \* xid -> entry or NULL
    entry,              \* the contents of the entries
    young,              \* the entries whose timestamp has not expired
    dupreq_pool,        \* each worker's free entries, a set
    unused,             \* entries that no pool ever held
    lru_dupreq,         \* each worker's LRU list
    freed,              \* the results that free_function freed
    unlisted,           \* hashed entries for which LRU_new_entry failed (history)
    expirations,
    excused,            \* calls that the cache does not have to answer (history)
    pc, call, i, res, pdupreq,
                        \* of each worker: location, call, index of the scan,
                        \* result and entry
    alive               \* FALSE once the process died

cacheVars == <<ht_dupreq, entry, young, dupreq_pool, unused, lru_dupreq, freed,
               unlisted>>
bookkeeping == <<expirations, excused>>
vars == <<sends, runs, replies, current_xid, cacheVars, bookkeeping,
          pc, call, i, res, pdupreq, alive>>

Init ==
    /\ sends = [c \in Calls |-> 0]
    /\ runs = [c \in Calls |-> 0]
    /\ replies = {}
    /\ current_xid = [w \in Workers |-> 0]
    /\ ht_dupreq = [x \in Xids |-> NULL]
    /\ entry = [d \in Entries |-> [xid |-> NULL, res |-> NULL]]
    /\ young = {}
    /\ dupreq_pool = [w \in Workers |-> {}]
    /\ unused = Entries
    /\ lru_dupreq = [w \in Workers |-> LRU_Init]
    /\ freed = {}
    /\ unlisted = {}
    /\ expirations = 0
    /\ excused = {}
    /\ pc = [w \in Workers |-> "idle"]
    /\ call = [w \in Workers |-> NULL]
    /\ i = [w \in Workers |-> 0]
    /\ res = [w \in Workers |-> NULL]
    /\ pdupreq = [w \in Workers |-> NULL]
    /\ alive = TRUE

Received == Cardinality({t \in Calls \X (1 .. MaxSends) : t[2] <= sends[t[1]]})

Goto(w, l) == pc' = [pc EXCEPT ![w] = l]
SetXid(w, x) == current_xid' = [current_xid EXCEPT ![w] = x]

(***************************************************************************)
(* The worker forgets the request's local variables.                       *)
(***************************************************************************)
Return(w) ==
    /\ Goto(w, "idle")
    /\ call' = [call EXCEPT ![w] = NULL]
    /\ i' = [i EXCEPT ![w] = 0]
    /\ res' = [res EXCEPT ![w] = NULL]
    /\ pdupreq' = [pdupreq EXCEPT ![w] = NULL]

-----------------------------------------------------------------------------
(* nfs_rpc_execute                                                         *)

(***************************************************************************)
(* A worker gets a copy of a call whose arguments svc_getargs decodes.     *)
(* The cache need not know the answer to a call that another worker is     *)
(* still processing (excused).                                             *)
(***************************************************************************)
Start(w) ==
    /\ pc[w] = "idle"
    /\ \E c \in Calls :
          /\ sends[c] < MaxSends /\ Received < MaxReceived
          /\ sends' = [sends EXCEPT ![c] = @ + 1]
          /\ excused' = IF \E v \in Workers : call[v] = c THEN excused \cup {c} ELSE excused
          /\ call' = [call EXCEPT ![w] = c]
    /\ Goto(w, "scan")
    /\ UNCHANGED <<runs, replies, current_xid, cacheVars, expirations, i, res, pdupreq>>

(***************************************************************************)
(* One turn of the search for another worker with this xid.  cmp_sockaddr  *)
(* is given the local variable hostaddr, which nothing has set: its answer *)
(* may be anything.                                                        *)
(***************************************************************************)
Scan(w) ==
    /\ pc[w] = "scan"
    /\ \/ /\ current_xid[i[w]] = Xid[call[w]]
          /\ Return(w)
       \/ /\ i' = [i EXCEPT ![w] = @ + 1]
          /\ Goto(w, IF i[w] + 1 < nb_worker THEN "scan" ELSE "tag")
          /\ UNCHANGED <<call, res, pdupreq>>
    /\ UNCHANGED <<sends, runs, replies, current_xid, cacheVars, bookkeeping>>

\* Mutant of Tag: the worker tags itself with the call and not with its xid.
Tag_Call(w) ==
    /\ pc[w] = "tag"
    /\ SetXid(w, call[w])
    /\ Goto(w, IF call[w] \in CAN_BE_DUP THEN "lookup" ELSE "check")
    /\ UNCHANGED <<sends, runs, replies, cacheVars, bookkeeping, call, i, res, pdupreq>>

Tag(w) ==
    /\ pc[w] = "tag"
    /\ SetXid(w, Xid[call[w]])
    /\ Goto(w, IF call[w] \in CAN_BE_DUP THEN "lookup" ELSE "check")
    /\ UNCHANGED <<sends, runs, replies, cacheVars, bookkeeping, call, i, res, pdupreq>>

\* Mutant of Lookup: the cache is never asked.
Lookup_Never(w) ==
    /\ pc[w] = "lookup"
    /\ Goto(w, "check")
    /\ UNCHANGED <<sends, runs, replies, current_xid, cacheVars, bookkeeping, call, i, res,
                   pdupreq>>

(***************************************************************************)
(* nfs_dupreq_get, up to HashTable_Get.                                    *)
(***************************************************************************)
Lookup(w) ==
    LET d == ht_dupreq[Xid[call[w]]]
    IN  /\ pc[w] = "lookup"
        /\ pdupreq' = [pdupreq EXCEPT ![w] = d]
        /\ Goto(w, IF d = NULL THEN "check" ELSE "hit")
        /\ UNCHANGED <<sends, runs, replies, current_xid, cacheVars, bookkeeping, call, i, res>>

(***************************************************************************)
(* The rest of nfs_dupreq_get: the timestamp is reset and the result       *)
(* copied, which still shares the memory behind its pointers.              *)
(***************************************************************************)
Hit(w) ==
    /\ pc[w] = "hit"
    /\ young' = young \cup {pdupreq[w]}
    /\ res' = [res EXCEPT ![w] = entry[pdupreq[w]].res]
    /\ Goto(w, "sendhit")
    /\ UNCHANGED <<sends, runs, replies, current_xid, ht_dupreq, entry, dupreq_pool, unused,
                   lru_dupreq, freed, unlisted, bookkeeping, call, i, pdupreq>>

(***************************************************************************)
(* svc_sendreply with the previous result succeeds or fails; either way    *)
(* the function returns and leaves current_xid as it is.                   *)
(***************************************************************************)
SendHit(w) ==
    /\ pc[w] = "sendhit"
    /\ \/ replies' = replies \cup {<<call[w], res[w]>>}
       \/ UNCHANGED replies
    /\ Return(w)
    /\ UNCHANGED <<sends, runs, current_xid, cacheVars, bookkeeping>>

(***************************************************************************)
(* The request is rejected: for a bad NFSv3 handle the function returns at *)
(* once, for a bad port, host or credential it clears current_xid first.   *)
(***************************************************************************)
Reject(w) ==
    /\ pc[w] = "check"
    /\ SetXid(w, 0) \/ UNCHANGED current_xid
    /\ Return(w)
    /\ UNCHANGED <<sends, runs, replies, cacheVars, bookkeeping>>

(***************************************************************************)
(* For a bad NFSv2 handle the error is sent and the function goes on: the  *)
(* access type or the options of a null pexport are read.                  *)
(***************************************************************************)
NullExport(w) ==
    /\ pc[w] = "check"
    /\ alive' = FALSE
    /\ UNCHANGED <<sends, runs, replies, current_xid, cacheVars, bookkeeping, pc, call, i, res,
                   pdupreq>>

(***************************************************************************)
(* The service function starts, or a write to a read-only export gets its  *)
(* error without it: another result for this call.                         *)
(***************************************************************************)
Serve(w) ==
    /\ pc[w] = "check"
    /\ runs' = [runs EXCEPT ![call[w]] = @ + 1]
    /\ res' = [res EXCEPT ![w] = <<call[w], runs[call[w]] + 1>>]
    /\ Goto(w, "service")
    /\ UNCHANGED <<sends, replies, current_xid, cacheVars, bookkeeping, call, i, pdupreq>>

(***************************************************************************)
(* It ends with NFS_REQ_OK or NFS_REQ_DROP; no more xid managed.           *)
(***************************************************************************)
Served(w) ==
    /\ pc[w] = "service"
    /\ SetXid(w, 0)
    /\ \/ Goto(w, "reply") /\ UNCHANGED <<call, i, res, pdupreq>>
       \/ Return(w)
    /\ UNCHANGED <<sends, runs, replies, cacheVars, bookkeeping>>

(***************************************************************************)
(* svc_sendreply fails, and the function returns, or succeeds.  The result *)
(* of a call that is not cached is freed.                                  *)
(***************************************************************************)
Reply(w) ==
    /\ pc[w] = "reply"
    /\ \/ /\ Return(w)
          /\ UNCHANGED <<replies, freed>>
       \/ /\ replies' = replies \cup {<<call[w], res[w]>>}
          /\ IF call[w] \in CAN_BE_DUP
             THEN Goto(w, "add") /\ UNCHANGED <<freed, call, i, res, pdupreq>>
             ELSE Return(w) /\ freed' = freed \cup {res[w]}
    /\ UNCHANGED <<sends, runs, current_xid, ht_dupreq, entry, young, dupreq_pool, unused,
                   lru_dupreq, unlisted, bookkeeping>>

-----------------------------------------------------------------------------
(* The cache                                                               *)

(***************************************************************************)
(* GET_PREALLOC: an entry of the worker's pool, or a new one.              *)
(***************************************************************************)
Available(w) == IF dupreq_pool[w] # {} THEN dupreq_pool[w] ELSE unused

\* Mutant of Add: the entry stays in the pool.
Add_KeepInPool(w) ==
    /\ pc[w] = "add"
    /\ \E d \in Available(w) :
          /\ dupreq_pool' = [dupreq_pool EXCEPT ![w] = @ \cup {d}]
          /\ unused' = unused \ {d}
          /\ entry' = [entry EXCEPT ![d] = [xid |-> Xid[call[w]], res |-> res[w]]]
          /\ young' = young \cup {d}
          /\ ht_dupreq' = [ht_dupreq EXCEPT ![Xid[call[w]]] = d]
          /\ pdupreq' = [pdupreq EXCEPT ![w] = d]
    /\ Goto(w, "list")
    /\ UNCHANGED <<sends, runs, replies, current_xid, lru_dupreq, freed, unlisted,
                   bookkeeping, call, i, res>>

(***************************************************************************)
(* nfs_dupreq_add, up to HashTable_Set, which overwrites.  When that fails *)
(* the entry is in no pool any more, and lost.                             *)
(***************************************************************************)
Add(w) ==
    /\ pc[w] = "add"
    /\ \E d \in Available(w) :
          /\ dupreq_pool' = [dupreq_pool EXCEPT ![w] = @ \ {d}]
          /\ unused' = unused \ {d}
          /\ entry' = [entry EXCEPT ![d] = [xid |-> Xid[call[w]], res |-> res[w]]]
          /\ young' = young \cup {d}
          /\ \/ /\ ht_dupreq' = [ht_dupreq EXCEPT ![Xid[call[w]]] = d]
                /\ pdupreq' = [pdupreq EXCEPT ![w] = d]
                /\ Goto(w, "list")
                /\ UNCHANGED <<call, i, res, excused>>
             \/ /\ LowMemory
                /\ Return(w)
                /\ excused' = excused \cup {call[w]}
                /\ UNCHANGED ht_dupreq
    /\ UNCHANGED <<sends, runs, replies, current_xid, lru_dupreq, freed, unlisted,
                   expirations>>

(***************************************************************************)
(* GET_PREALLOC fails, and the reply is not cached.                        *)
(***************************************************************************)
AddFailed(w) ==
    /\ pc[w] = "add"
    /\ Available(w) = {} \/ (LowMemory /\ dupreq_pool[w] = {})
    /\ Return(w)
    /\ excused' = excused \cup {call[w]}
    /\ UNCHANGED <<sends, runs, replies, current_xid, cacheVars, expirations>>

(***************************************************************************)
(* The rest of nfs_dupreq_add.  When LRU_new_entry fails the entry stays   *)
(* in the hash table, where no garbage collection will find it.            *)
(***************************************************************************)
List(w) ==
    /\ pc[w] = "list"
    /\ \/ /\ lru_dupreq' = [lru_dupreq EXCEPT ![w] = LRU_new_entry(@, pdupreq[w])]
          /\ UNCHANGED unlisted
       \/ /\ LowMemory
          /\ unlisted' = unlisted \cup {pdupreq[w]}
          /\ UNCHANGED lru_dupreq
    /\ Return(w)
    /\ UNCHANGED <<sends, runs, replies, current_xid, ht_dupreq, entry, young, dupreq_pool,
                   unused, freed, bookkeeping>>

(***************************************************************************)
(* Between two requests, after nb_before_gc of them or more: the entries   *)
(* whose timestamp has expired are those that nfs_dupreq_gc_function       *)
(* accepts.  On a list of at most one entry the collection does nothing.   *)
(***************************************************************************)
GcInvalidate(w) ==
    /\ pc[w] = "idle"
    /\ lru_dupreq[w].nb_entry > 1
    /\ lru_dupreq' = [lru_dupreq EXCEPT
          ![w] = LRU_invalidate_by_function(@, Entries \ young)]
    /\ Goto(w, "gc")
    /\ UNCHANGED <<sends, runs, replies, current_xid, ht_dupreq, entry, young, dupreq_pool,
                   unused, freed, unlisted, bookkeeping, call, i, res, pdupreq>>

(***************************************************************************)
(* The next entry that LRU_gc_invalid finds invalid on its way to the MRU, *)
(* and the list without it.                                                *)
(***************************************************************************)
NextInvalid(w) == Head(LRU_gc_removed(lru_dupreq[w]))

Unlinked(w) ==
    LET Kept(e) == e # NextInvalid(w)
    IN  [lru_dupreq[w] EXCEPT !.entries = SelectSeq(@, Kept),
                              !.nb_entry = @ - 1, !.nb_invalid = @ - 1]

\* Mutant of Clean: only the entry is freed, its key stays in the table.
Clean_KeepKey(w) ==
    LET d == NextInvalid(w).data
        x == entry[d].xid
    IN  /\ pc[w] = "gc"
        /\ LRU_gc_removed(lru_dupreq[w]) # <<>>
        /\ IF ht_dupreq[x] # NULL
           THEN /\ freed' = freed \cup {entry[d].res}
                /\ dupreq_pool' = [dupreq_pool EXCEPT ![w] = @ \cup {d}]
           ELSE UNCHANGED <<freed, dupreq_pool>>
        /\ lru_dupreq' = [lru_dupreq EXCEPT ![w] = Unlinked(w)]
        /\ UNCHANGED <<sends, runs, replies, current_xid, ht_dupreq, entry, young, unused,
                       unlisted, bookkeeping, pc, call, i, res, pdupreq>>

\* Mutant of Clean: what the key finds is freed, in place of the entry that the
\* list holds.
Clean_Found(w) ==
    LET x == entry[NextInvalid(w).data].xid
        d == ht_dupreq[x]
    IN  /\ pc[w] = "gc"
        /\ LRU_gc_removed(lru_dupreq[w]) # <<>>
        /\ IF d # NULL
           THEN /\ ht_dupreq' = [ht_dupreq EXCEPT ![x] = NULL]
                /\ freed' = freed \cup {entry[d].res}
                /\ dupreq_pool' = [dupreq_pool EXCEPT ![w] = @ \cup {d}]
           ELSE UNCHANGED <<ht_dupreq, freed, dupreq_pool>>
        /\ lru_dupreq' = [lru_dupreq EXCEPT ![w] = Unlinked(w)]
        /\ UNCHANGED <<sends, runs, replies, current_xid, entry, young, unused, unlisted,
                       bookkeeping, pc, call, i, res, pdupreq>>

(***************************************************************************)
(* One turn of LRU_gc_invalid, with clean_entry_dupreq: the key of the     *)
(* entry is removed, whatever its value; the result is freed and the entry *)
(* goes back to the pool.  An entry whose key is gone is left to leak.     *)
(***************************************************************************)
Clean(w) ==
    LET d == NextInvalid(w).data
        x == entry[d].xid
    IN  /\ pc[w] = "gc"
        /\ LRU_gc_removed(lru_dupreq[w]) # <<>>
        /\ IF ht_dupreq[x] # NULL
           THEN /\ ht_dupreq' = [ht_dupreq EXCEPT ![x] = NULL]
                /\ freed' = freed \cup {entry[d].res}
                /\ dupreq_pool' = [dupreq_pool EXCEPT ![w] = @ \cup {d}]
           ELSE UNCHANGED <<ht_dupreq, freed, dupreq_pool>>
        /\ lru_dupreq' = [lru_dupreq EXCEPT ![w] = Unlinked(w)]
        /\ UNCHANGED <<sends, runs, replies, current_xid, entry, young, unused, unlisted,
                       bookkeeping, pc, call, i, res, pdupreq>>

(***************************************************************************)
(* The loop has reached the MRU.                                           *)
(***************************************************************************)
Cleaned(w) ==
    /\ pc[w] = "gc"
    /\ LRU_gc_removed(lru_dupreq[w]) = <<>>
    /\ Goto(w, "idle")
    /\ UNCHANGED <<sends, runs, replies, current_xid, cacheVars, bookkeeping, call, i, res,
                   pdupreq>>

(***************************************************************************)
(* expiration_dupreq seconds pass, far longer than a worker needs from     *)
(* finding a cached result to sending it.                                  *)
(***************************************************************************)
Expire ==
    /\ \A w \in Workers : pc[w] \notin {"hit", "sendhit"}
    /\ expirations < MaxExpirations
    /\ expirations' = expirations + 1
    /\ young' = {}
    /\ excused' = excused \cup {c \in Calls : sends[c] > 0}
    /\ UNCHANGED <<sends, runs, replies, current_xid, ht_dupreq, entry, dupreq_pool, unused,
                   lru_dupreq, freed, unlisted, pc, call, i, res, pdupreq>>

WorkerStep(w) ==
    \/ Start(w)
    \/ Scan(w)
    \/ Tag(w)
    \/ Lookup(w)
    \/ Hit(w)
    \/ SendHit(w)
    \/ Reject(w)
    \/ Serve(w)
    \/ Served(w)
    \/ Reply(w)
    \/ Add(w)
    \/ AddFailed(w)
    \/ List(w)
    \/ GcInvalidate(w)
    \/ Clean(w)
    \/ Cleaned(w)

Next ==
    /\ alive
    /\ \/ (\E w \in Workers : WorkerStep(w)) /\ UNCHANGED alive
       \/ Expire /\ UNCHANGED alive
       \/ \E w \in Workers : NullExport(w)

Spec == Init /\ [][Next]_vars

-----------------------------------------------------------------------------
Listed(w) == {lru_dupreq[w].entries[k].data : k \in 1 .. Len(lru_dupreq[w].entries)}

(***************************************************************************)
(* The variables hold what the C types of nfs_worker_data_t and            *)
(* dupreq_entry_t allow.                                                   *)
(***************************************************************************)
TypeOK ==
    /\ sends \in [Calls -> 0 .. MaxSends] /\ runs \in [Calls -> 0 .. MaxSends]
    /\ replies \subseteq Calls \X Results
    /\ current_xid \in [Workers -> Xids \cup {0}]
    /\ ht_dupreq \in [Xids -> Entries \cup {NULL}]
    /\ entry \in [Entries -> [xid : Xids \cup {NULL}, res : Results \cup {NULL}]]
    /\ young \subseteq Entries /\ unused \subseteq Entries
    /\ dupreq_pool \in [Workers -> SUBSET Entries]
    /\ \A w \in Workers : Listed(w) \subseteq Entries
    /\ freed \subseteq Results /\ unlisted \subseteq Entries
    /\ expirations \in 0 .. MaxExpirations /\ excused \subseteq Calls
    /\ call \in [Workers -> Calls \cup {NULL}]
    /\ i \in [Workers -> 0 .. nb_worker]
    /\ res \in [Workers -> Results \cup {NULL}]
    /\ pdupreq \in [Workers -> Entries \cup {NULL}]

(***************************************************************************)
(* What the hash table points to is never free memory: the entry under a   *)
(* key holds that xid, is in no pool, its result is not freed, and it is   *)
(* on exactly one LRU list, or about to be, so that it will expire; one    *)
(* for which LRU_new_entry failed is on none.                              *)
(***************************************************************************)
HashedIsOwned ==
    \A x \in Xids :
        LET d == ht_dupreq[x]
            owners == {w \in Workers :
                          d \in Listed(w) \/ (pc[w] = "list" /\ pdupreq[w] = d)}
        IN  d # NULL =>
                /\ entry[d].xid = x
                /\ entry[d].res \notin freed
                /\ d \notin unused
                /\ \A w \in Workers : d \notin dupreq_pool[w]
                /\ Cardinality(owners) = IF d \in unlisted THEN 0 ELSE 1

(***************************************************************************)
(* No entry is in two pools, or on a list and free: GET_PREALLOC never     *)
(* hands out an entry that a list still holds.                             *)
(***************************************************************************)
FreeIsNotListed ==
    \A v, w \in Workers :
        /\ dupreq_pool[v] \cap Listed(w) = {}
        /\ v # w => dupreq_pool[v] \cap dupreq_pool[w] = {}

(***************************************************************************)
(* "don't free the dupreq twice": no collection has freed, nor will one    *)
(* free twice, a result that is still to be collected, although copies of  *)
(* a call that were processed at the same time have entries with the same  *)
(* key on the lists of two workers.                                        *)
(***************************************************************************)
NotFreedTwice ==
    \A v, w \in Workers : \A d \in Listed(v), e \in Listed(w) :
        /\ entry[d].res \notin freed
        /\ d # e => entry[d].res # entry[e].res

(***************************************************************************)
(* All of the replies that a client gets to one call are the same one, by  *)
(* whichever worker: a call that was answered is not executed again.  The  *)
(* exceptions are calls whose copies were processed at the same time,      *)
(* whose reply could not be cached, or that were received before an        *)
(* expiration.                                                             *)
(***************************************************************************)
RepliesAgree ==
    \A r, s \in replies :
        r[1] = s[1] /\ r[1] \in CAN_BE_DUP \ excused => r = s

(***************************************************************************)
(* "Is this request already managed by another thread ? In this case, do   *)
(* not handle the request": no two workers execute one call at the same    *)
(* time.                                                                   *)
(***************************************************************************)
NotManagedTwice ==
    \A v, w \in Workers :
        v # w /\ pc[v] = "service" /\ pc[w] = "service" => call[v] # call[w]
=============================================================================
