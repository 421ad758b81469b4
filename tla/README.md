# A TLA+ verification of the NFS-Ganesha server core

The repository is NFS-Ganesha, a multi-threaded NFS server in user space, with a
cache benchmark. This directory holds TLA+ models of the parts of the server
where threads meet, the TLC configurations that check them on small instances,
and TLAPS proofs of what matters most for every instance. All source paths below
are relative to `src/src/`.

## 1. The system

| Part | State | Operations that change it | What makes it hard | Module |
|---|---|---|---|---|
| Dispatcher (`MainNFSD/nfs_rpc_dispatcher_thread.c`), TCP managers (`nfs_rpc_tcp_socket_manager_thread.c`), worker loop (`nfs_worker_thread.c`) | per worker: pool of request buffers, list of pending requests, pass counter, flags; per connection: commit flag | receive, choose a worker, queue, pick, process, tag invalid, collect, commit, start and end a cache collection | two mutexes and a condition variable per worker, buffers used after they are given back, a commit waited for without a timeout | `RequestPipeline` |
| LRU list (`LRU/LRU_List.c`) | doubly linked list, two counters, a pass counter | new entry, invalidate, invalidate by function, collect | counters kept by hand, the most recent entry is never collected | `LRUOps` |
| Duplicate request cache (`MainNFSD/nfs_dupreq.c`, `nfs_rpc_execute`) | shared hash table of replies, one list and one pool per worker, the xid each worker is tagged with | search, tag, look up, reply, add, expire, collect | retransmissions to two workers, shallow copies, failing allocations | `DupReq` |
| Hash table (`HashTable/HashTable.c`) | rows of red-black trees, a counter per row | test and set, get, delete | colliding keys, counters beside the data | `HashTable`, `HashMap` |
| Readers/writer lock (`RW_Lock/RW_Lock.c`) | four counters, two condition variables | `P_r`, `V_r`, `P_w`, `V_w`, downgrade | who is woken, what is tested again | `RWLock` |
| Token semaphore (`SemN/SemN.c`) | one counter, one condition variable | `semaphore_P`, `semaphore_V` | newcomers between signal and resumption | `Semaphore` |
| Reload of the exports (`MainNFSD/nfs_admin_thread.c`) | two flags per worker | pause, wait, replace, wake up | flags and signals without the workers' mutex | `ExportReload` |
| Metadata cache (`Cache_inode/`) | entries, dirents in chains of segments, lists of parents, a hash table | get, lookup, lookupp, create, link, remove, rename, readdir, getattr, collect | the same fact kept in the dirent, in the list of parents and in a count of links | `CacheInode` |
| NFSv4 share reservations (`Cache_inode/cache_inode_state.c`, `support/nfs_state_id.c`, `NFS_Protocols/nfs4_op_{open,close,read,write}.c`) | a list of states per file, a table of stateids, a pool per worker | OPEN, CLOSE, READ, WRITE | a list that is walked with its lock released between two elements | `OpenState` |
| NLM locks (`support/nlm_util.c`, `nlm_async.c`, `nsm.c`, `NFS_Protocols/nlm_*.c`) | list of locks with reference counts, queue of callbacks, monitored hosts, grace period | LOCK, UNLOCK, CANCEL, TEST, SM_NOTIFY, grant pass, grant message | splits, late and lost callbacks, restarts | `NLM` |
| Data cache (`File_Content/`), asynchronous metadata (`MFSL/MFSL_ASYNC/`), memory manager (`BuddyMalloc/`), the other procedures, FSAL, XDR, configuration, logging, statistics, shell | | | | not modelled (section 7) |

How they interact: a receiver takes a buffer from a worker's pool, fills it and
queues it on the worker's LRU list. The worker picks the oldest valid entry,
calls `nfs_rpc_execute`, which uses the duplicate request cache, and tags the
entry as invalid; from time to time it collects invalid entries of its queue, of
its part of the duplicate request cache, and of the metadata cache. The hash
table stores the duplicate request cache and the metadata cache and takes one
readers/writer lock per row. The admin thread stops all workers at the top of
their loop while it replaces the exports list. The semaphore bounds the calls
into the file system. `nfs_rpc_execute` runs the handlers of the protocols: those
of NLM share a list of locks with a thread of their own, those of NFSv4 hang
states on the entries of the metadata cache, and all of them find their files
there.

`RequestPipeline` and `DupReq` use `LRUOps`, the operators on one list. `DupReq`
uses the hash table as a function from keys to values, which is what
`HashTableProofs` proves that it is.

## 2. The modules

**RequestPipeline.** An action is what a thread does between two
synchronisations: a critical section, or one access to shared memory without a
lock. `buf` holds what the later code reads from a buffer (protocol, transport,
message); `request_pool` and `pending_request` are the free list and the LRU
list of each worker; `etat_xprt` is the commit flag of a connection. The
dispatcher goes `D_Select`, `GetBuffer`, `D_RecvUdp` or `D_Accept`,
`QueueRequest`; a manager goes `M_Select`, `GetBuffer`, `M_Recv` or `M_Died`,
`QueueRequest`, `M_Committed`. A worker goes `W_Ready`, then `W_Wait`, `W_Pick`,
`W_Process`, `W_Invalidate`, `W_Collect`, `W_Protocol`, `W_Commit` or
`nfs_Cleanup_request_data`, `W_EnterGc`, `W_SetGcFlag`, `W_LeaveGc`. `R_Crash`
and `W_Crash` are the reads through a transport pointer that another thread has
set to NULL; `R_NoMemory` are the allocation failures. The pass counter is
incremented by several threads without a lock, so an increment may get lost.
The pools start empty and draw on `fresh`, the memory of the process, where the
code allocates a first batch at start-up: a pool of which nothing has been used
yet and memory not yet allocated differ in nothing the code tests.

**LRUOps.** A list is a sequence from the LRU to the MRU entry, with the code's
three counters. The module has no state: the workers' queues in
`RequestPipeline` and their expiry lists in `DupReq` are values of this type.

**DupReq.** Every worker runs `nfs_rpc_execute`: `Start`, one `Scan` per worker
compared, `Tag`, `Lookup`, then `Hit` and `SendHit`, or `Reject`, or `Serve`,
`Served`, `Reply`, `Add`, `List`. After a bad NFSv2 handle the code goes on with a
null export, which ends the process (`NullExport`). The collection is
`GcInvalidate`, then one `Clean` per entry, `Cleaned`. A result is the pair of the
call and the number of its execution. The search compares client addresses with a
local variable that nothing sets, so that the comparison may have either outcome.
A collection may follow any request: the model does not count up to
`nb_before_gc`.

**HashMap, HashTable.** `HashMap` is the promise: a function from keys to values
and the answer of the last call. `HashTable` has rows of nodes with
`rbt_value`, key and value; `Key_Locate` searches the nodes with the key's tree
value. A red-black tree is a set of nodes: its shape and balance do not show in
any answer. Every call is one step, which is what the row's lock is for.

**RWLock.** `pc` says where a thread is, condition variables are sets of threads
at the waiting locations, and a signalled thread is at a `woken` location until
it gets the mutex back. `Proceed` are the steps of threads that have the lock or
were woken.

**Semaphore.** As RWLock, with one counter and one condition variable.

**ExportReload.** The admin thread's loops (`A_Pause`, `A_PauseSignal`,
`A_Spin`, `A_Wake`, `A_WakeSignal`), one step per access, with the index
`NextWorker` advances; the waiting loop of each worker (`W_Test`, `W_Body`,
`W_CondWait`, `W_Unblocked`), which holds `mutex_req_condvar` except while it
sleeps on `req_condvar` and while it works. A worker blocked on
`export_condvar` keeps `mutex_req_condvar`, so receivers cannot queue for it
(`Enqueue`'s guard). The queue is reduced to whether it is empty.

**NLM.** `entry` is the memory of lock entries with their reference counts, `list`
is `nlm_lock_list`, `queue` and `todo` are the two queues of the asynchronous
thread. A handler is cut where it releases `nlm_lock_list_mutex`: LOCK is
`nlm4_Lock` (grace period, scan for the host), `nsm_monitor`,
`nlm_add_to_locklist`, `nlm4_Lock_reply`; UNLOCK is `nlm4_Unlock` (finding the
entry), `nlm_lock_entry_get_state`, `nlm_delete_lock_entry`, `nlm_unmonitor_host`,
`nsm_unmonitor`, `nlm4_Unlock_grant`; CANCEL and TEST are two steps; SM_NOTIFY is
one. The asynchronous thread runs `do_nlm_grant_blocked_locks` and
`nlm4_send_grant_msg`, whose message may be lost. The clients are part of the
model, since exclusion is a promise to them: `held` is what each owner has been
told it holds, `waiting` what it waits for, and `dropped` (a history variable)
what the server took off its list by itself. A piece of a split lock that is not
added to the list keeps its memory and its reference. Removing an entry twice
follows a NULL link and restarts the server, as does `Crash`; `nlm_init` begins
the grace period in which only reclaims are taken.

**CacheInode.** `fs` is the file system, `cache` the pool of entries and the hash
table. A cached directory is a chain of segments of `CHILDREN_ARRAY_SIZE` dirents,
the first of them the `DIR_BEGINNING`; every entry has the list of its parents
with the positions of its dirents. The functions that take and return a cache are
the functions of the code, and each call of the server is one action over them.
The dirents of a directory may be walked from any of its segments, since a parent
is remembered as a segment: `cache_inode_lookupp_sw` answers that segment. A
collection that writes to a parent whose memory was released is undefined: either
the model stops (`undefined`) or the write has no effect. Handles stay valid in a
file system that only this server changes, so that `cache_inode_kill_entry` is
never called. `Spec` is a configuration in which only files expire and every call
gets a file handle. `WideSpec` adds the expiry of empty directories and the
compound of LOOKUPP and LOOKUP, which looks a name up from the segment that
LOOKUPP answered (`nfs4_op_lookup`).

**OpenState.** Every call that takes the lock of a file's entry is a step:
`cache_inode_state_iterate`, `cache_inode_add_state`, `DeleteLocked` (the part of
`cache_inode_del_state_by_key` under the lock; the lookup of the stateid before it
is a step of its own). What a handler does with the state that an iteration
returned is the step `Test`, without the lock. `state` is the memory of states
with their links, `head` the list of each file, `pool` the free states of each
worker, chained through the same field `next` as the lists, and `ht` the table.
`open_owner_counter` numbers the owners and is never reset; a stateid has the
number modulo `DigestMod`, 2^16 in the code. Two history variables say what a
property must allow for: `lost` (states that their stateid does not find) and
`stale` in a handler (the list grew, or the state the scan stood on was deleted).

Modules named `MC...` give the constants values; modules named `...Proofs`, and
`OpenStateInv`, hold theorems. Operators whose comment begins "Mutant of" are
altered versions of the operator that follows them. No specification uses them;
they show that the properties notice such a change.

## 3. The runs

| Run | Instance | Result |
|---|---|---|
| `pipeline_safety` | 2 workers, 1 connection, 1 UDP, 1 mount and 1 TCP message, 3 buffers, failing allocations, fairness | 214,023 states; holds |
| `pipeline_commit` | 1 worker, 1 connection, 3 UDP and 1 TCP message, 4 buffers, fairness | violated |
| `dupreq_cache` | 2 workers, 3 calls sent twice, 4 copies received, 3 cache entries, 1 expiry, failing allocations | 1,992,774 states; holds |
| `hash_map` | 4 keys in 2 rows, two of them with equal row and tree value, 2 values | 10,669 states; holds |
| `rwlock` | 4 threads, 2 calls each, spurious wake-ups, fairness | 35,961 states; holds |
| `rwlock_exclusion` | 3 threads | violated |
| `semaphore_safety` | 5 threads, 2 tokens, spurious wake-ups | 908 states; holds |
| `exports` | 3 workers, spurious wake-ups, fairness | 129,800 states; holds |
| `nlm` | 2 workers, 2 owners on 2 hosts, 3 ranges, 4 requests, 1 restart | 567,658 states; holds |
| `nlm_split` | the same | violated |
| `cache_inode` | 3 directories, 1 file, 2 names, segments of 1 dirent, 5 calls | 66,328 states; holds |
| `open_state` | 2 workers, 3 owners, 2 files, 3 states, 5 requests, failing allocations | 541,575 states; holds |

What the passing runs show:

- *Pipeline.* A buffer is never in two places, although four kinds of code move
  it (`BufferInOnePlace`). A received message is processed exactly once
  (`ProcessedOnce`). The list's counters, from which a worker decides to sleep,
  are exact (`QueueCountersExact`), and it never sleeps over a request
  (`NoSleepOverWork`). A commit is never left for the next request
  (`NoStaleCommit`). The limit on concurrent collections holds
  (`ConcurrentGcBounded`). Every received message is processed in the end, unless
  its manager ends for lack of memory or the process dies (`QueuedIsProcessed`).
- *Duplicate requests.* A key finds an entry that has not been freed and that
  one worker owns, except for an entry that could not be listed for lack of
  memory, which no collection will ever find (`HashedIsOwned`); no free entry
  is on a list (`FreeIsNotListed`). No collection frees a result that another
  entry still leads to, although copies of a call that were executed at the same
  time leave two entries with one key (`NotFreedTwice`; `nfs_dupreq.c:203`: "don't
  free the dupreq twice"). The replies to the copies of a call agree
  (`RepliesAgree`) unless two workers had copies at the same time, the entry
  expired, or the cache had no memory for it; these are what `excused` records.
- *Hash table, lock, semaphore, exports.* The safety properties of these runs
  are also proved (section 5), where types and exactness of the counters, which
  no run checks, are part of the inductive invariants. TLC alone shows that every
  thread that waits for the lock gets it (`EveryWaiterServed`), and that a worker
  which is asleep or busy when the admin thread signals it comes to the pause
  (`AwakeWorkerPauses`): a signal is lost only to one that is about to sleep.
- *NLM locks.* A lock entry is not released before the list, the handlers and
  the grant messages have all dropped it (`RefsCoverUses`). Granted
  locks never conflict (`GrantedCompatible`). A blocked request either has a lock
  in its way or a grant pass to come (`NoForgottenBlocked`), unless a blocked
  request was withdrawn, after which the code queues no pass. Over a restart, its
  grace period, lost messages and late answers no two clients hold the same byte
  exclusively, but for locks that the server dropped by itself
  (`HonouredExclusion`). Messages and passes that queue one another come to an
  end (`GrantsComeToAnEnd`: a weight of the work left falls with every step).
- *Metadata cache.* When directories do not expire, no file has two names in one
  directory and every call gets a file handle, dirents lead to the objects the
  file system has under those names (`DirentsCoherent`), the table holds one entry
  for each cached object that exists, with its number of links
  (`EntriesOfExisting`), `..` is answered with an existing segment of the parent
  (`ParentIsParent`), and a directory of one segment that counts as read has all
  its names (`ReaddirComplete`).
- *Share reservations.* Lists and pools stay whole (`ListsIntact`), a stateid
  finds the state of its owner and file (`TableExact`), and a scan goes on only to
  states of its own file, although the state it stood on may have been released
  and used again (`ScanStaysInFile`); these three until the numbers of the owners
  go round. A READ or WRITE passes no state that denies it, unless the list grew
  or the state it stood on was deleted meanwhile (`AccessHonoured`).

What the violated runs show, each of a statement in a comment of the source
(quoted in `PROJECT.json`):

- `rwlock_exclusion`: a woken reader can enter beside a writer.
- `pipeline_commit`: the worker reads from its request buffer whether the request
  came over TCP, after the collection that may have given the buffer back. In the
  trace a UDP message has filled it by then, nobody commits the TCP request, and
  the manager of the connection waits for ever in a server that is alive.
- `nlm_split`: unlocking an end of a locked range makes the server lose the rest
  of the lock, because `glist_add_list_tail` takes a list of one element for an
  empty one. The entry of the rest is on no list and is never released.

Further behaviour of the models that the source's comments do not lead one to
expect. No run is kept for these; each is the counterexample TLC gives when the
formula is checked as an invariant or a property of the module.

- `RequestPipeline`: a worker uses a buffer that is no longer on its list, so `\A
  w \in Workers : wpc[w] \in {"protocol", "cleanup"} => wreq[w] \in Queued(w)`
  fails (`nfs_worker_thread.c:1535`); `pipeline_commit` shows one consequence. A
  buffer whose message was refused is in no pool and on no list afterwards.
- `LRUOps`: tagging the last entry leaves an invalid MRU entry
  (`LRU_List.c:258` says otherwise).
- `DupReq`: two workers manage two copies of one call at the same time, so
  `NotManagedTwice` fails (`nfs_worker_thread.c:657`: "Is this request already
  managed by another thread ? In this case, do not handle the request"); search
  and tag are separate steps without a lock. A worker stays tagged with an xid
  after an early return, so `\A w \in Workers : current_xid[w] # 0 => pc[w] #
  "idle"` fails; a cached reply may be collected while it is sent, so `\A w \in
  Workers : pc[w] = "sendhit" => res[w] \notin freed` fails; with two calls of
  equal xid `\A r \in replies : r[2][1] = r[1]` (a call gets its own reply) fails,
  as the key does not include the client. With distinct xids it fails when all
  three calls are cached: an entry that was found may expire and be used for
  another call before its reply is copied.
- `HashTable`: overwriting counts again, so `\A r \in Rows : nb_entries[r] =
  Cardinality(array_rbt[r])` fails.
- `Semaphore`: a woken thread and a newcomer can both wait on a free token, so
  `At("waiting") # {} => At("calling") \cup At("woken") # {}` fails.
- `ExportReload`: the pause signals without the workers' mutex, so that an idle
  worker may begin to sleep after the signal; under `FairSpec` `\A w \in Workers :
  apc = "spin" ~> waiting_for_exports[w]` fails, the worker sleeps with its flag
  raised and the admin thread spins for ever (`nfs_admin_thread.c:101`: "If
  threads are blocked on the request queue, wake them up"). A worker can sleep
  with a request queued, so `\A w \in Workers : wpc[w] = "sleep" => ~requests[w]`
  fails; and a worker can block on `export_condvar` after the reload is over,
  since its two flags are written without `mutex_export_condvar`.
- `NLM`: a host with locks may be no longer monitored, since
  `nlm_unmonitor_host` looks at the list in one step and asks statd in another,
  so `~grace => \A i \in Listed : HostOf[entry[i].owner] \in monitored` fails.
  `nlm4_send_grant_msg` goes on into `free_nlm_lock_entry` also when the message
  was sent (`nlm_util.c:783-800`), so that a granted blocking lock leaves the
  list; `nlm_add_to_locklist` returns the blocked request of another client for
  the same range, whose state then answers the wrong one (298-301); cancel and
  unlock of a blocked lock queue no grant pass; a cancel between a grant and its
  message makes the entry be removed twice, through NULL links. A range whose end
  wraps past 64 bits conflicts with nothing (228), which `RangesAssumption`
  keeps out of the instances.
- `CacheInode`: an entry may keep a released directory as its parent, so
  `ParentsAreCached` fails (`cache_inode_gc.c:250`: "parent_iter->parent is not
  null and is a valid cache_inode pentry"): look up a file, read its directory,
  move the file elsewhere and remove the directory; the collection of the file as
  a fifth call writes to the released directory (`undefined`). With `SameDirLinks
  = TRUE` (two names of one file in one directory) `DirentsCoherent` fails after
  two lookups, a link, a removal and a collection: the parent that is taken off a
  list need not be the one of the dirent (`cache_inode_readdir.c:664`). Under
  `WideSpec` it fails after a lookup, a creation and a LOOKUPP followed by LOOKUP,
  because a lookup that starts at a later segment does not see the dirents before
  it and caches a name a second time; and after the expiry of a directory, which
  is found again empty. A file collected from a `DIR_CONTINUE` leaves its
  directory marked as read, so that `ReaddirComplete` holds only for chains of one
  segment.
- `OpenState`: shares conflict, so `\A f \in Files : \A s, t \in StatesOf(f) :
  state[s].powner # state[t].powner => state[s].access \intersect state[t].deny =
  {}` fails: an OPEN that creates with UNCHECKED4 does not look at the list, and
  `cache_inode_state_conflict` answers FALSE for every share, as its branch for
  shares goes on into the next one (`cache_inode_state.c:88-97`). The list may
  grow while a handler looks at it, so `AccessHonoured` fails without its
  exception for `stale`. Two clients may both be told that they created a file, so
  `\A w \in Workers : thread[w].pc = "create" => thread[w].file \notin exists`
  fails when two owners create the same file (`nfs4_op_open.c:755`: "if we reach
  this point, it does not exist"). Once more owners than `DigestMod` have been
  numbered, two owners have the same stateid, and `TableExact` and `ListsIntact`
  fail without their condition `NoWrap` (`DigestMod = 1` shows it): a stateid
  finds the state of another owner, and two owners may close the same state at the
  same time. An UNCHECKED4 open sent again adds a second state under the same
  stateid, and CLOSE then leaves the older one in the list; a re-open by the same
  owner does not record its new share (`nfs4_op_open.c:1052`).

## 4. Bounds and fairness

Bounds are constants of the modules: `MaxOps` (calls per thread), `Buffers`, the
sets of messages, `MaxEntries`, `MaxSends`, `MaxExpirations`. Two workers and one
connection have all pairs of threads that share state (receiver and receiver,
receiver and worker, worker and worker); `nb_before_gc` 0 makes a buffer go
through a pool twice, which is what its re-use needs. Four keys make collisions of
row only, of row and tree value, and none. Counters that are only compared with a
limit stop above it (`CountPass`, `CountCallGc`).

In `NLM` four requests are a lock, a conflicting one that blocks, an unlock and a
cancel or a recovery against its grant; a range of three bytes has a whole, an end
and a middle, hence unlocks that leave none, one and two pieces. Nine entry ids
are enough: TLC would stop at a request for a tenth. In `CacheInode` segments of one dirent make every directory
with two names grow a second segment; five calls are enough for a lookup, a
reading, a move, a removal and a collection of the same object, and six calls
(376,888 states) find nothing more. In `OpenState` five requests let two owners be
in the list while a third scans it, one closes and its state is used again for the
other file, which is what a scan that strays needs. In `RequestPipeline` four
buffers (853,678 states), and in `DupReq` three calls sent three times with two
expiries and three received (386,088 states) or with one expiry and four
received (2,872,566), and all three calls cached (4,320,100), find nothing more.
The states and the workers of `OpenState` are symmetric, as are the cache entries
of `DupReq`: no action tells them apart.

`CHECK_DEADLOCK FALSE` is used where the clients may stop sending, a thread has
made its last call, or the threads may really stop (`Semaphore`, above).

Fairness is weak fairness of each thread's steps, since the operating system
schedules every runnable thread. In `RequestPipeline` a step through a NULL
pointer is a step of its thread and as fair as the others. Nothing is assumed of
clients or of the order in which a mutex is given; spurious wake-ups may happen
or not. In `RWLock` only steps of threads that hold the lock or were woken are
fair: no thread has to ask for it. In `ExportReload` no request need come.

Steps interleave as if memory were sequentially consistent. Accesses outside a
lock are separate steps; where a lost update is possible, it is a choice.

## 5. What is proved

TLAPS checks the proofs for all values of the constants that the assumptions
allow.

- `RWLockProofs`, from a finite set of threads: the counters are exact and do not
  wrap (`CountersAlwaysExact`, `LockTypes`), nobody waits on a free lock without a
  wake-up on its way (`NoReaderForgotten`, `NoWriterForgotten`), one writer at
  most (`WritersExcluded`), writers enter alone (`WritersEnterAlone`). The
  inductive invariant is the exactness of the counters, `nbw_active <= 1` and the
  two "not forgotten" invariants: exclusion is visible to the code only through
  the counters, so it is not inductive without them. Each action has a lemma.
- `SemaphoreProofs`, from a finite set of threads and at least one token: types,
  `CountAlwaysExact`, `CallsAlwaysBounded`. That a non-negative count leaves a
  token for the thread that tests it follows only from what the count counts.
- `ExportReloadProofs`, from at least one worker: types and
  `ListReplacedWhileUnused`. The flag `waiting_for_exports` may be stale from the
  reload before; the invariant says that a worker seen waiting is held at places
  from which it clears that flag and then finds the other one set, and that the
  pause has set the other flag of all workers before the first is looked at.
- `HashTableProofs`, from any hash functions and at least one row: types,
  `OneNodeForEachKey`, `SizeNeverBelow`, and `TableImplementsMap`, the
  refinement. The three invariants are inductive together. The refinement maps a
  key to the value of the node that `Key_Locate` finds; the lemmas `StoreMaps`
  and `DelMaps` say what storing and deleting do to that map.
- `RequestPipelineProofs`, from a finite set of workers: `GcAlwaysBounded`, the
  limit on concurrent collections, for any number of connections, buffers and
  messages. The bound and the exactness of the counter are inductive together.
- `OpenStateInv`, `OpenStateAddProofs` and `OpenStateProofs`, one proof in three
  modules. All statements hold until the numbers of the owners go round (`NoWrap`,
  `open_owner_counter <= DigestMod`; afterwards they are false, see section 3):
  types (`OpenTypes`), every stateid finds its own state (`StateidsExact`), the
  links of the lists answer one another (`ListsStayLinked`), the pools lead to no
  state in use (`PoolsStayApart`), and a scan stays in its file
  (`ScansStayInFile`), for any number of workers, files, states and requests.
  `TableExact` is not inductive. It needs that owners have distinct numbers from 1
  up to `open_owner_counter` (`Numbered`), from which distinct stateids follow;
  that a state in a list has the stateid of its owner and file (`TableInv`); that
  no two workers delete the same state, since an owner has one request at a time
  (`HandlersKnown`); and that a state taken from a pool is in no list
  (`PoolsApart`), since otherwise the addition would overwrite a state that the
  table still leads to. The links are needed so that a deletion writes only to
  states of the same list. Each action has a lemma; those of addition and deletion
  are split by the conjuncts of the invariant.

## 6. What is only model-checked

All liveness properties: fairness is out of the prover's reach.

The other safety properties of `RequestPipeline` and all of `DupReq`: they depend
on what `SelectSeq` leaves in a list that `LRU_gc_invalid` has collected, which
takes an induction over the list that the prover does not have. In the same way
`NLM` (the list of locks and the split of a lock), `CacheInode` (chains of
segments) and, in `OpenState`, `ListsIntact` (that following the links reaches
every state; the links themselves are proved) and `AccessHonoured`, which rests
on it.

## 7. What is not modelled

- The NFS and MOUNT procedures other than those of `OpenState`, encoding and
  authentication: `W_Process` and `Serve` are one step, with the error exits that
  change the state modelled.
- FSALs, configuration, logging, statistics, the shell and the tests: I/O or
  sequential code without a state that the properties depend on.
- The build option `_USE_MFSL` (`nfs_worker_thread.c:1583-1602`) and the TI-RPC
  variants of the transports.
- Overlap of `HashTable` calls: `rwlock_exclusion` shows that the lock does not
  exclude all of it. The hash table theorems assume atomic calls.
- Overlap of the calls of `CacheInode`. The collection locks an entry and then its
  parents (`cache_inode_gc.c:251`), `cache_inode_remove` a directory and then the
  entry, and nothing counts the users of an entry that is released under them
  (`cache_inode_gc.c:206`): with overlapping calls a deadlock and the use of
  released memory are reachable in a few steps, and every other property fails
  after them. Of the compounds of NFSv4 that go on from a segment which LOOKUPP
  answered only LOOKUP is modelled, in `WideSpec`. Also left out there:
  `cache_inode_kill_entry` and stale handles, the order of expiry, symbolic links,
  failing allocations, and the caches of file descriptors and of data, with
  `LRU_apply_function`, which only the former uses.
- In `OpenState`: sequence numbers, OPEN_CONFIRM and OPEN_DOWNGRADE (they change
  nothing that a modelled handler decides by), byte-range locks (a compile
  option), the removal of a file with states. The entry's lock excludes.
- In `NLM`: failing allocations, the `_MSG` procedures, and GRANTED_RES, which
  `nfs_worker_thread.c:294` maps to `nlm4_Unsupported`.
- Client and session tables of NFSv4, identity mapping: one call of the hash
  table for each operation.
- `MFSL_ASYNC` (a compile option): the workers take operations from a pool
  without the mutex under which the synclets release them, and a synclet collects
  its list without the mutex of the insertions (`mfsl_async_synclet.c:386`); any
  corruption of the lists may follow, which leaves nothing to check.
- `File_Content`: its recovery reads index files that may be half written.
- `BuddyMalloc`: a sequential allocator, one heap for each thread.
