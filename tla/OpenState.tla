------------------------------ MODULE OpenState ------------------------------
(***************************************************************************)
(* Share reservations of NFSv4: the states of Cache_inode/                 *)
(* cache_inode_state.c, the table of support/nfs_state_id.c and the        *)
(* handlers NFS_Protocols/nfs4_op_{open,close,read,write}.c.               *)
(*                                                                         *)
(* A file has a doubly linked list of states; the table finds a state by   *)
(* its stateid.  A handler looks at the list with one call of              *)
(* cache_inode_state_iterate for each state, and the entry's lock is held  *)
(* only inside that call, so that other workers add and delete states      *)
(* between two calls and between the last one and cache_inode_add_state.   *)
(* Every call that takes the entry's lock is one step.                     *)
(*                                                                         *)
(* An open owner has one OPEN or CLOSE outstanding, as the protocol        *)
(* demands of the clients for requests with a sequence number; reads and   *)
(* writes come at any time.  Sequence numbers and the confirmed flag of    *)
(* owners are left out: no handler here decides anything by them.          *)
(***************************************************************************)
EXTENDS Integers, FiniteSets, Functions

CONSTANTS
    NULL,
    Workers,      \* worker threads
    Owners,       \* open owners: a clientid and an owner_val
    NameOf,       \* the owner_val of each; different clients may choose the same
    Files,        \* entries of the metadata cache
    States,       \* addresses of cache_inode_state_t
    Opens,        \* the OPENs clients send: [owner, file, how, access, deny]
    Accesses,     \* the READs and WRITEs: [owner or NULL, file, access]
    Existing,     \* the files that exist at the start
    DigestMod,    \* 2^16: the stateid keeps two bytes of the owner's counter
    LowMemory,    \* whether allocations can fail
    MaxRequests   \* bound: requests handled in a behaviour

Hows == {"NOCREATE", "UNCHECKED4", "GUARDED4", "EXCLUSIVE4"}

ASSUME OpenAssumption ==
    /\ NULL \notin States \union Owners \union Files
    /\ Existing \subseteq Files
    /\ NameOf \in [Owners -> Owners]
    /\ Opens \subseteq [owner : Owners, file : Files, how : Hows,
                        access : SUBSET {"R", "W"} \ {{}}, deny : SUBSET {"R", "W"}]
    /\ Accesses \subseteq [owner : Owners \union {NULL}, file : Files, access : {{"R"}, {"W"}}]
    /\ DigestMod \in Nat \ {0} /\ MaxRequests \in Nat /\ LowMemory \in BOOLEAN

VARIABLES
    state,      \* the cache_inode_state_t at each address
    head,       \* pentry->object.file.pstate_head
    ht,         \* ht_state_id: stateid to state
    counter,    \* powner->counter of each known owner, 0 for an unknown one
    open_owner_counter,  \* the last number that was given to an owner
    pool,       \* pclient->pool_state_v4 of each worker, chained by next
    fresh,      \* addresses that were never allocated
    exists,     \* the files that exist
    thread,     \* the handler each worker is in
    stateid,    \* <<owner, file>> pairs that were sent a stateid
    lost,       \* states whose stateid another state has taken, or nobody has
    requests

states == <<state, head, ht, pool, fresh, lost>>

numbers == <<counter, open_owner_counter>>

vars == <<states, numbers, exists, thread, stateid, requests>>

-----------------------------------------------------------------------------
\* The states of a file in the order of the list.
Blank == [pentry |-> NULL, powner |-> NULL, access |-> {}, deny |-> {},
          verifier |-> NULL, other |-> NULL, next |-> NULL, prev |-> NULL]

Live(s) == state[s].pentry # NULL

StatesOf(f) == {s \in States : state[s].pentry = f}

\* The chain that starts at s: its n-th state, and NULL after the last.
Chain(s) ==
    LET at[n \in 0..Cardinality(States)] ==
            IF n = 0 THEN s
            ELSE IF at[n - 1] = NULL THEN NULL ELSE state[at[n - 1]].next
    IN  at

-----------------------------------------------------------------------------
\* Requests, and the worker that handles one.
Idle == [pc |-> "idle", op |-> "none", owner |-> NULL, file |-> NULL,
         how |-> "NOCREATE", access |-> {}, deny |-> {},
         at |-> NULL, own |-> NULL, stale |-> FALSE]

\* Owner o has an OPEN or a CLOSE outstanding.
Busy(o) == \E w \in Workers : thread[w].owner = o /\ thread[w].op \in {"open", "close"}

Goto(w, pc) == thread' = [thread EXCEPT ![w].pc = pc]

\* The handler returns; the client is answered.
Return(w) == thread' = [thread EXCEPT ![w] = Idle]

\* Worker w takes up a request and goes on with r; r is Idle when it answers
\* at once.
Start(w, r) ==
    /\ thread[w] = Idle
    /\ requests < MaxRequests
    /\ requests' = requests + 1
    /\ thread' = [thread EXCEPT ![w] = r]

\* Mutant of nfs4_BuildStateId_Other: the owner is left out.
nfs4_BuildStateId_Other_File(f, o) == <<f, 0>>

\* The key of a state: file id and two bytes of the owner's counter.  (The
\* digest of a handle that is in the cache does not fail.)
nfs4_BuildStateId_Other(f, o) == <<f, counter[o] % DigestMod>>

nfs4_State_Get_Pointer(other) == IF other \in DOMAIN ht THEN ht[other] ELSE NULL

-----------------------------------------------------------------------------
\* GET_PREALLOC: the first state of the worker's pool; an empty pool is filled
\* from memory (here one state at a time), which may fail.
Allocated(w) == IF pool[w] # NULL THEN {pool[w]} ELSE fresh

Allocate(w, s) ==
    IF pool[w] # NULL
    THEN pool' = [pool EXCEPT ![w] = state[s].next] /\ fresh' = fresh
    ELSE fresh' = fresh \ {s} /\ pool' = pool

\* The function answers FALSE for a share in every case: the branch of shares
\* goes on into the one of locks.
cache_inode_state_conflict(s, r) == FALSE

\* The last state of a list that is not empty.
Tail(f) == CHOOSE s \in StatesOf(f) : state[s].next = NULL

\* Workers that are between two looks at file f find a list that has grown.
Grown(w, f) ==
    [v \in Workers |->
        IF v # w /\ thread[v].file = f THEN [thread[v] EXCEPT !.stale = TRUE]
        ELSE thread[v]]

\* cache_inode_add_state, under the entry's lock: the new state is put at the
\* end of the list and then into the table.  When the table cannot take it the
\* handler answers an error and the state stays in the list.
cache_inode_add_state(w) ==
    LET r == thread[w]
        f == r.file
        o == r.owner
        other == nfs4_BuildStateId_Other(f, o)
        last == IF head[f] = NULL THEN NULL ELSE Tail(f)
    IN
    /\ r.pc = "add"
    /\ \/ /\ LowMemory \/ Allocated(w) = {}
          /\ Return(w)
          /\ UNCHANGED states
       \/ \E s \in Allocated(w) :
          /\ ~\E t \in StatesOf(f) : cache_inode_state_conflict(t, r)
          /\ Allocate(w, s)
          /\ head' = IF last = NULL THEN [head EXCEPT ![f] = s] ELSE head
          /\ state' = [t \in States |->
                IF t = s THEN [pentry |-> f, powner |-> o, access |-> r.access,
                               deny |-> r.deny, other |-> other,
                               verifier |-> IF r.how = "EXCLUSIVE4" THEN o ELSE NULL,
                               next |-> NULL, prev |-> last]
                ELSE IF t = last THEN [state[t] EXCEPT !.next = s]
                ELSE state[t]]
          /\ \/ /\ ht' = [k \in DOMAIN ht \union {other} |->
                            IF k = other THEN s ELSE ht[k]]
                /\ lost' = lost \union ({nfs4_State_Get_Pointer(other)} \ {NULL})
                /\ thread' = [Grown(w, f) EXCEPT ![w].pc = "open"]
             \/ /\ LowMemory
                /\ ht' = ht
                /\ lost' = lost \union {s}
                /\ thread' = [Grown(w, f) EXCEPT ![w] = Idle]
    /\ UNCHANGED <<numbers, exists, stateid, requests>>

\* Mutant of Unlink: the next state keeps its pointer to the released one.
Unlink_KeepPrev(w, s, release) ==
    [t \in States |->
        IF t = s THEN IF release THEN [Blank EXCEPT !.next = pool[w]] ELSE state[s]
        ELSE [state[t] EXCEPT !.next = IF t = state[s].prev THEN state[s].next ELSE @]]

\* The neighbours of state s are joined; s goes to the pool of worker w if it
\* is released: it is no share any more, and next is now the chain of the pool.
Unlink(w, s, release) ==
    [t \in States |->
        IF t = s THEN IF release THEN [Blank EXCEPT !.next = pool[w]] ELSE state[s]
        ELSE [state[t] EXCEPT
                !.prev = IF t = state[s].next THEN state[s].prev ELSE @,
                !.next = IF t = state[s].prev THEN state[s].next ELSE @]]

\* cache_inode_del_state_by_key up to the lock: the stateid is looked up once
\* more, and the state names the file that is locked.
cache_inode_del_state_by_key(w) ==
    LET s == nfs4_State_Get_Pointer(nfs4_BuildStateId_Other(thread[w].file, thread[w].owner))
    IN
    /\ thread[w].pc = "delete"
    /\ thread' = [thread EXCEPT ![w] = IF s = NULL THEN Idle
                                       ELSE [@ EXCEPT !.pc = "unlink", !.at = s]]
    /\ UNCHANGED <<states, numbers, exists, stateid, requests>>

\* The rest of it, under the lock, and the close of the file, which changes
\* nothing here.  The state that was found leaves the list; it is released if
\* it still has the stateid and the table does.
DeleteLocked(w) ==
    LET s == thread[w].at
        f == thread[w].file
        other == nfs4_BuildStateId_Other(f, thread[w].owner)
        release == state[s].other = other /\ other \in DOMAIN ht
    IN
    /\ thread[w].pc = "unlink"
    /\ head' = IF head[f] = s THEN [head EXCEPT ![f] = state[s].next] ELSE head
    /\ state' = Unlink(w, s, release)
    /\ ht' = IF release THEN Restrict(ht, DOMAIN ht \ {other}) ELSE ht
    /\ pool' = IF release THEN [pool EXCEPT ![w] = s] ELSE pool
    /\ lost' = IF release THEN lost \ {s} ELSE lost
    /\ Return(w)
    /\ UNCHANGED <<fresh, numbers, exists, stateid, requests>>

-----------------------------------------------------------------------------
\* The look at the list.

\* What a handler does when it has seen the last state.
ScanEnd(w) ==
    LET r == [thread[w] EXCEPT !.at = NULL] IN
    CASE r.op = "open" /\ r.how = "EXCLUSIVE4" -> Idle
      [] r.op = "open" /\ r.own = NULL -> [r EXCEPT !.pc = "add"]
      [] r.op = "open" /\ r.own # NULL -> [r EXCEPT !.pc = "open"]
      [] OTHER -> [r EXCEPT !.pc = "rdwr"]

\* Mutant of cache_inode_state_iterate: no test that the state of the last call
\* still belongs to the file.
cache_inode_state_iterate_NoCheck(w) ==
    LET r == thread[w]
        next == IF r.at = NULL THEN head[r.file] ELSE state[r.at].next
    IN
    /\ r.pc = "iterate"
    /\ thread' = [thread EXCEPT ![w] =
          IF next = NULL THEN [ScanEnd(w) EXCEPT !.stale = r.at # NULL /\ @]
          ELSE [r EXCEPT !.pc = "test", !.at = next, !.stale = r.at # NULL /\ @]]
    /\ UNCHANGED <<states, numbers, exists, stateid, requests>>

\* One call: the first state, or the one after the state of the last call if
\* that still belongs to the file.  If it does not the handlers leave the loop
\* as if the list had ended.
cache_inode_state_iterate(w) ==
    LET r == thread[w]
        next == IF r.at = NULL THEN head[r.file] ELSE state[r.at].next
    IN
    /\ r.pc = "iterate"
    /\ thread' = [thread EXCEPT ![w] =
          IF r.at # NULL /\ state[r.at].pentry # r.file
          THEN [ScanEnd(w) EXCEPT !.stale = ScanEnd(w) # Idle]
          ELSE IF next = NULL THEN [ScanEnd(w) EXCEPT !.stale = r.at # NULL /\ @]
          ELSE [r EXCEPT !.pc = "test", !.at = next, !.stale = r.at # NULL /\ @]]
    /\ UNCHANGED <<states, numbers, exists, stateid, requests>>

\* The share that open request r asks for conflicts with state s.
Conflict(r, s) ==
    \/ NameOf[r.owner] # NameOf[state[s].powner] /\ "W" \in state[s].access \intersect r.deny
    \/ state[s].deny \intersect r.access # {}

\* Mutant of Denied: READ tests the denial of writes, as WRITE does.
Denied_Write(r, s) == s # r.own /\ "W" \in state[s].deny

\* The READ or WRITE r is denied by state s.
Denied(r, s) == s # r.own /\ r.access \subseteq state[s].deny

\* The test of one state by OPEN without creation, by OPEN with EXCLUSIVE4 on
\* a file that exists, and by READ and WRITE.  The entry is not locked: the
\* state may have been released, and is then no share any more.
Test(w) ==
    LET r == thread[w]
        s == r.at
        seen == [r EXCEPT !.pc = "iterate"]
        mine == r.op = "open" /\ r.how = "NOCREATE" /\ state[s].powner = r.owner
        answered ==
            CASE r.op = "open" /\ r.how = "NOCREATE" -> Conflict(r, s)
              [] r.op = "open" /\ r.how = "EXCLUSIVE4" ->
                    /\ NameOf[r.owner] = NameOf[state[s].powner]
                    /\ state[s].verifier = r.owner
              [] OTHER -> Denied(r, s)
    IN
    /\ r.pc = "test"
    /\ IF Live(s) /\ answered
       THEN /\ Return(w)
            /\ stateid' = IF r.how = "EXCLUSIVE4"
                          THEN stateid \union {<<r.owner, r.file>>} ELSE stateid
       ELSE /\ thread' = [thread EXCEPT ![w] =
                            IF Live(s) /\ mine THEN [seen EXCEPT !.own = s] ELSE seen]
            /\ UNCHANGED stateid
    /\ UNCHANGED <<states, numbers, exists, requests>>

-----------------------------------------------------------------------------
\* The handlers.

\* Mutant of nfs_open_owner_Set: the global counter is not stored.
nfs_open_owner_Set_NotStored(o, inserted) ==
    /\ open_owner_counter' = open_owner_counter
    /\ counter' = IF inserted THEN [counter EXCEPT ![o] = open_owner_counter + 1] ELSE counter

\* The owner gets the next number and is then put into the table of owners;
\* when that fails the number is used up.
nfs_open_owner_Set(o, inserted) ==
    /\ open_owner_counter' = open_owner_counter + 1
    /\ counter' = IF inserted THEN [counter EXCEPT ![o] = open_owner_counter + 1] ELSE counter

\* nfs4_op_open up to its first look at the file: the owner is looked up, or
\* created with the next number.  What is wrong with the request or with the
\* permissions of the file ends the handler here, and so do allocations for
\* an owner that fail.
nfs4_op_open(w, arg) ==
    LET o == arg.owner
        f == arg.file
        how == arg.how
        r == [Idle EXCEPT !.op = "open", !.owner = o, !.file = f, !.how = how,
                          !.access = arg.access, !.deny = arg.deny]
    IN
    /\ ~Busy(o)
    /\ \/ /\ Start(w, Idle)
          /\ \/ UNCHANGED numbers
             \/ counter[o] = 0 /\ LowMemory /\ nfs_open_owner_Set(o, FALSE)
       \/ /\ IF counter[o] # 0 THEN UNCHANGED numbers ELSE nfs_open_owner_Set(o, TRUE)
          /\ \/ Start(w, Idle)
             \/ /\ f \in exists /\ how \in {"NOCREATE", "EXCLUSIVE4"}
                /\ Start(w, [r EXCEPT !.pc = "iterate"])
             \/ /\ f \in exists /\ how = "UNCHECKED4"
                /\ Start(w, [r EXCEPT !.pc = "add"])
             \/ /\ f \notin exists /\ how # "NOCREATE"
                /\ Start(w, [r EXCEPT !.pc = "create"])
    /\ UNCHANGED <<states, exists, stateid>>

\* cache_inode_create.  A file that another worker has created meanwhile is
\* taken as if this one had.
cache_inode_create(w) ==
    /\ thread[w].pc = "create"
    /\ exists' = exists \union {thread[w].file}
    /\ Goto(w, "add")
    /\ UNCHANGED <<states, numbers, stateid, requests>>

\* cache_inode_open_by_name and the answer.  When the open fails the state
\* that was added stays.
cache_inode_open_by_name(w) ==
    LET r == thread[w] IN
    /\ r.pc = "open"
    /\ stateid' \in {stateid, stateid \union {<<r.owner, r.file>>}}
    /\ Return(w)
    /\ UNCHANGED <<states, numbers, exists, requests>>

\* nfs4_op_close up to the deletion: nfs4_Check_Stateid and
\* cache_inode_get_state both look the stateid up.
nfs4_op_close(w, o, f) ==
    LET found == nfs4_State_Get_Pointer(nfs4_BuildStateId_Other(f, o))
        r == [Idle EXCEPT !.op = "close", !.owner = o, !.file = f]
    IN
    /\ <<o, f>> \in stateid /\ ~Busy(o)
    /\ Start(w, IF found = NULL THEN Idle ELSE [r EXCEPT !.pc = "delete"])
    /\ UNCHANGED <<states, numbers, exists, stateid>>

\* nfs4_op_read and nfs4_op_write, for one kind of access, up to the look at
\* the list: with a stateid the state must allow the access.  A write is
\* refused only to a state that also denies writes.
ReadOrWrite(w, arg) ==
    LET o == arg.owner
        f == arg.file
        found == nfs4_State_Get_Pointer(nfs4_BuildStateId_Other(f, o))
        r == [Idle EXCEPT !.op = "io", !.owner = o, !.file = f, !.access = arg.access]
        OpenMode(s) == IF arg.access = {"R"} THEN "R" \notin state[s].access
                       ELSE "W" \in state[s].deny \ state[s].access
    IN
    /\ f \in exists
    /\ \/ /\ o = NULL
          /\ Start(w, [r EXCEPT !.pc = "iterate"])
       \/ /\ <<o, f>> \in stateid
          /\ Start(w, IF found = NULL \/ OpenMode(found) THEN Idle
                      ELSE [r EXCEPT !.own = found, !.pc = "iterate"])
    /\ UNCHANGED <<states, numbers, exists, stateid>>

\* The access itself.
cache_inode_rdwr(w) ==
    /\ thread[w].pc = "rdwr"
    /\ Return(w)
    /\ UNCHANGED <<states, numbers, exists, stateid, requests>>

Init ==
    /\ state = [s \in States |-> Blank]
    /\ head = [f \in Files |-> NULL]
    /\ ht = <<>>
    /\ counter = [o \in Owners |-> 0] /\ open_owner_counter = 0
    /\ pool = [w \in Workers |-> NULL]
    /\ fresh = States
    /\ exists = Existing
    /\ thread = [w \in Workers |-> Idle]
    /\ stateid = {} /\ lost = {}
    /\ requests = 0

Next ==
    \E w \in Workers :
        \/ \E arg \in Opens : nfs4_op_open(w, arg)
        \/ \E o \in Owners, f \in Files : nfs4_op_close(w, o, f)
        \/ \E arg \in Accesses : ReadOrWrite(w, arg)
        \/ cache_inode_create(w)
        \/ cache_inode_state_iterate(w)
        \/ Test(w)
        \/ cache_inode_add_state(w)
        \/ cache_inode_open_by_name(w)
        \/ cache_inode_del_state_by_key(w)
        \/ DeleteLocked(w)
        \/ cache_inode_rdwr(w)

Spec == Init /\ [][Next]_vars

-----------------------------------------------------------------------------
\* cache_inode_state_t, and the arguments and local variables of a handler.
StateRecord ==
    [pentry : Files \union {NULL}, powner : Owners \union {NULL},
     access : SUBSET {"R", "W"}, deny : SUBSET {"R", "W"},
     verifier : Owners \union {NULL},
     other : (Files \X (0..(DigestMod - 1))) \union {NULL},
     next : States \union {NULL}, prev : States \union {NULL}]

Handler ==
    [pc : {"idle", "iterate", "test", "create", "add", "open", "delete", "unlink", "rdwr"},
     op : {"none", "open", "close", "io"}, owner : Owners \union {NULL},
     file : Files \union {NULL}, how : Hows,
     access : SUBSET {"R", "W"}, deny : SUBSET {"R", "W"},
     at : States \union {NULL}, own : States \union {NULL}, stale : BOOLEAN]

\* The fields of states and handlers keep their types.
TypeOK ==
    /\ state \in [States -> StateRecord]
    /\ head \in [Files -> States \union {NULL}]
    /\ DOMAIN ht \subseteq Files \X (0..(DigestMod - 1))
    /\ \A k \in DOMAIN ht : ht[k] \in States
    /\ open_owner_counter \in Nat /\ counter \in [Owners -> 0..open_owner_counter]
    /\ pool \in [Workers -> States \union {NULL}]
    /\ fresh \subseteq States /\ lost \subseteq States
    /\ exists \subseteq Files /\ stateid \subseteq Owners \X Files
    /\ requests \in 0..MaxRequests
    /\ thread \in [Workers -> Handler]

\* The numbers of the owners have not gone round what a stateid keeps of them.
NoWrap == open_owner_counter <= DigestMod

\* Whatever the order in which workers add and delete states, the list of a
\* file runs through exactly the states of that file, once each and backwards
\* as forwards, and a pool through states of no file that are in no other pool
\* (cache_inode_add_state, cache_inode_del_state_by_key, GET_PREALLOC).  That
\* is so until the numbers of the owners go round: from then on two owners may
\* close the same state.
ListsIntact ==
    LET Members(s) == Range(Chain(s)) \ {NULL}
        Ends(s) == Chain(s)[Cardinality(States)] = NULL
    IN
    NoWrap =>
    /\ \A f \in Files :
          /\ Ends(head[f]) /\ Members(head[f]) = StatesOf(f)
          /\ head[f] # NULL => state[head[f]].prev = NULL
          /\ \A s \in StatesOf(f) :
                state[s].next # NULL => state[state[s].next].prev = s
    /\ \A w \in Workers :
          /\ Ends(pool[w])
          /\ \A s \in Members(pool[w]) : ~Live(s) /\ s \notin fresh
          /\ \A v \in Workers \ {w} : Members(pool[w]) \intersect Members(pool[v]) = {}
    /\ \A s \in fresh : ~Live(s)

\* Until the numbers of the owners go round, a stateid finds a state that is in
\* the list of the file and of the owner the stateid was made for, so that
\* CLOSE, READ and WRITE of one owner never act on the state of another; and a
\* state in a list is found by its stateid unless another state of the same
\* owner and file has replaced it there or the table had no room, in which
\* case nothing finds it any more (nfs4_State_Set, nfs4_State_Del).
TableExact ==
    NoWrap =>
    /\ \A k \in DOMAIN ht : Live(ht[k]) /\ state[ht[k]].other = k
    /\ \A o \in Owners, f \in Files :
          LET s == nfs4_State_Get_Pointer(nfs4_BuildStateId_Other(f, o))
          IN  (counter[o] # 0 /\ s # NULL) => state[s].powner = o /\ state[s].pentry = f
    /\ \A s \in States : Live(s) /\ s \notin lost
                            => nfs4_State_Get_Pointer(state[s].other) = s

\* The look at the list goes from a state of the file to a state of the same
\* file, although the state it stood on may have been released to a pool,
\* whose chain uses the same pointer, and used again since the last call
\* (cache_inode_state_iterate).
ScanStaysInFile ==
    [][NoWrap => \A w \in Workers :
          (thread[w].pc = "iterate" /\ thread'[w].pc = "test")
              => state[thread'[w].at].pentry = thread[w].file]_vars

\* READ and WRITE go to the file only if no state but the one of their stateid
\* denies them, unless a state was added since the handler began to look or
\* the state it stood on was deleted.
AccessHonoured ==
    \A w \in Workers : \A s \in StatesOf(thread[w].file) :
        (thread[w].pc = "rdwr" /\ ~thread[w].stale /\ s # thread[w].own)
            => thread[w].access \intersect state[s].deny = {}
=============================================================================
