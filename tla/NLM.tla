-------------------------------- MODULE NLM ---------------------------------
(***************************************************************************)
(* The network lock manager: the list of byte range locks of              *)
(* support/nlm_util.c, the asynchronous thread of support/nlm_async.c and  *)
(* the handlers NFS_Protocols/nlm_{Lock,Unlock,Cancel,Test,Sm_Notify}.c.   *)
(*                                                                         *)
(* A handler runs in a worker thread and takes nlm_lock_list_mutex once    *)
(* for each call of nlm_util.c it makes, so every such call is one step    *)
(* and other threads run between two calls.  The only other thread is the  *)
(* asynchronous one, which runs the queued callbacks one at a time.        *)
(*                                                                         *)
(* What the clients believe (held, waiting) is kept beside the server's    *)
(* state, because the clients, not the list, are what locks are for.       *)
(***************************************************************************)
EXTENDS Integers, FiniteSets, SequencesExt

CONSTANTS
    Workers,      \* worker threads
    Owners,       \* lock owners: one caller_name, oh and svid
    HostOf,       \* the caller_name of each owner
    Files,        \* file handles
    Ranges,       \* ranges clients unlock: [start, len], len 0 to the end
    LockArgs,     \* the locks they ask for: [owner, fh, start, len, exclusive]
    UMax,         \* UINT64_MAX
    EntryIds,     \* the addresses of nlm_lock_entry_t
    MaxRequests,  \* bound: requests handled in a behaviour
    MaxRestarts   \* bound: server crashes in a behaviour

Hosts == {HostOf[o] : o \in Owners}

\* Requests lie inside the file offsets, so that start + len does not wrap.
ASSUME RangesAssumption ==
    /\ UMax \in Nat \ {0}
    /\ \A r \in Ranges \union LockArgs : /\ r.start \in 0..(UMax - 1)
                                         /\ r.len \in Nat
                                         /\ r.start + r.len <= UMax

VARIABLES
    entry,      \* the nlm_lock_entry_t at each address, or Free
    list,       \* nlm_lock_list
    queue,      \* nlm_async_queue
    todo,       \* nlm_async_tmp_queue, first callback running
    async,      \* where nlm4_send_grant_msg is: "idle", "remove", "regrant"
    thread,     \* the handler each worker is in
    grace,      \* in_nlm_grace_period()
    monitored,  \* hosts that the local statd monitors for the server
    held,       \* what each owner was told it holds, as <<file, byte, exclusive>>
    waiting,    \* the requests each owner still wants an answer to
    dropped,    \* what an owner holds that the server no longer records
    orphaned,   \* files where a lock went away and no grant pass follows
    requests, restarts

vars == <<entry, list, queue, todo, async, thread, grace, monitored,
          held, waiting, dropped, orphaned, requests, restarts>>

client == <<held, waiting, dropped>>
server == <<entry, list>>
callbacks == <<queue, todo, async>>

-----------------------------------------------------------------------------
(* Lock entries *)

Free == [ref |-> 0]
Allocated == {i \in EntryIds : entry[i] # Free}
Idle == [pc |-> "idle"]
Listed == Range(list)

\* The end of a range; len 0 means up to UINT64_MAX.
End(r) == IF r.len # 0 THEN (r.start + r.len) % (UMax + 1) ELSE UMax

Overlap(r, s) == End(r) > s.start /\ End(s) > r.start

\* Two locks that cannot both be granted: the owner is not looked at.
Conflict(a, b) == /\ a.fh = b.fh
                  /\ Overlap(a, b)
                  /\ a.exclusive \/ b.exclusive

\* get_nlm_overlapping_entry: the first granted lock in the way of a.
Overlapping(e, a) ==
    SelectSeq(list, LAMBDA i : e[i].state = "GRANTED" /\ Conflict(e[i], a))

SameOwner(e, a) == e.owner = a.owner /\ e.fh = a.fh

SameLock(e, a) == /\ e.fh = a.fh /\ e.start = a.start /\ e.len = a.len
                  /\ e.exclusive = a.exclusive

NewEntry(a, state, ref) ==
    [owner |-> a.owner, fh |-> a.fh, start |-> a.start, len |-> a.len,
     exclusive |-> a.exclusive, state |-> state, ref |-> ref]

\* Addresses for n new entries, the lowest free ones.
FreshIds(n) ==
    LET free == EntryIds \ Allocated
    IN  [k \in 1..n |-> CHOOSE i \in free : Cardinality({j \in free : j < i}) = k - 1]

\* Mutant of IncRef: a search hands out the entry without a reference.
IncRef_None(e, i) == e

IncRef(e, i) == [e EXCEPT ![i].ref = @ + 1]

\* nlm_lock_entry_dec_ref, and the decrement in do_nlm_remove_from_locklist.
DecRef(e, i) == IF e[i].ref = 1 THEN [e EXCEPT ![i] = Free]
                                ELSE [e EXCEPT ![i].ref = @ - 1]

Without(s, i) == SelectSeq(s, LAMBDA j : j # i)

-----------------------------------------------------------------------------
(* The clients *)

Bytes(a) == {<<a.fh, b, a.exclusive>> : b \in {n \in 0..(UMax - 1) :
                                               n >= a.start /\ n < End(a)}}

Want(a) == NewEntry(a, "BLOCKED", 0)

\* What is left of a set of bytes once the owner gave up file fh, range a.
Outside(bytes, a) == {x \in bytes : ~(x[1] = a.fh /\ x[2] >= a.start /\ x[2] < End(a))}

\* The owner is told that its request a is granted; it takes the lock only
\* if it still waits for it.
Granted(a, taint) ==
    LET new == IF Want(a) \in waiting[a.owner] THEN Bytes(a) ELSE {}
    IN  /\ held' = [held EXCEPT ![a.owner] = @ \union new]
        /\ dropped' = [dropped EXCEPT ![a.owner] = IF taint THEN @ \union new ELSE @]
        /\ waiting' = [waiting EXCEPT ![a.owner] = @ \ {Want(a)}]

\* The owner gives the range up before it sends the request.
GiveUp(a) ==
    /\ held' = [held EXCEPT ![a.owner] = Outside(@, a)]
    /\ dropped' = [dropped EXCEPT ![a.owner] = Outside(@, a)]
    /\ waiting' = [waiting EXCEPT ![a.owner] =
                      {x \in @ : ~(x.fh = a.fh /\ Overlap(x, a))}]

\* The arguments of an unlock carry no mode.
UnlockArgs == {[owner |-> o, fh |-> f, start |-> r.start, len |-> r.len,
                exclusive |-> FALSE] : o \in Owners, f \in Files, r \in Ranges}

-----------------------------------------------------------------------------
(* The asynchronous queue and the death of the server *)

GrantPass(f) == [func |-> "do_nlm_grant_blocked_locks", arg |-> f]
SendGrant(i) == [func |-> "nlm4_send_grant_msg", arg |-> i]

\* The process is started again: nlm_init empties the list, asks statd to
\* forget every host (the call may fail) and starts the grace period.
nlm_init ==
    /\ entry' = [i \in EntryIds |-> Free]
    /\ list' = <<>> /\ queue' = <<>> /\ todo' = <<>> /\ async' = "idle"
    /\ thread' = [w \in Workers |-> Idle]
    /\ monitored' \in {{}, monitored}
    /\ grace' = TRUE
    /\ orphaned' = {}

\* nlm_remove_from_locklist.  glist_del leaves NULL links, so that removing
\* an entry twice dereferences NULL and kills the process.
nlm_remove_from_locklist(i, Then) ==
    IF i \in Listed
      THEN /\ entry' = DecRef(entry, i)
           /\ list' = Without(list, i)
           /\ Then
           /\ UNCHANGED <<grace, monitored>>
      ELSE nlm_init

InHandler(w, pcs) == thread[w].pc \in pcs
Goto(w, next) == thread' = [thread EXCEPT ![w].pc = next]
Return(w) == thread' = [thread EXCEPT ![w] = Idle]

Start(w) == thread[w] = Idle /\ requests < MaxRequests /\ requests' = requests + 1

HostListed(e, l, h) == \E i \in Range(l) : HostOf[e[i].owner] = h

-----------------------------------------------------------------------------
(* nlm4_Lock *)

\* Mutant of nlm4_Lock: new locks are accepted during the grace period.
nlm4_Lock_NoGrace(w) ==
    \E a \in LockArgs :
        /\ Start(w)
        /\ waiting' = [waiting EXCEPT ![a.owner] = @ \union {Want(a)}]
        /\ thread' = [thread EXCEPT ![w] =
              [op |-> "Lock", a |-> a,
               pc |-> IF HostListed(entry, list, HostOf[a.owner])
                        THEN "add" ELSE "nsm_monitor"]]
        /\ UNCHANGED <<server, callbacks, grace, monitored, held, dropped,
                       orphaned, restarts>>

\* The grace period tests and nlm_monitor_host's scan of the list.  A request
\* refused by the tests, or with a stale handle, changes nothing.  Clients
\* reclaim what they hold.
nlm4_Lock(w) ==
    \E a \in LockArgs :
        /\ Start(w)
        /\ grace => Bytes(a) \subseteq held[a.owner]
        /\ waiting' = [waiting EXCEPT ![a.owner] = @ \union {Want(a)}]
        /\ thread' = [thread EXCEPT ![w] =
              [op |-> "Lock", a |-> a,
               pc |-> IF HostListed(entry, list, HostOf[a.owner])
                        THEN "add" ELSE "nsm_monitor"]]
        /\ UNCHANGED <<server, callbacks, grace, monitored, held, dropped,
                       orphaned, restarts>>

\* nsm_monitor: on failure the lock is refused (NLM4_DENIED_NOLOCKS).
nsm_monitor(w) ==
    LET a == thread[w].a IN
    /\ InHandler(w, {"nsm_monitor"})
    /\ \/ /\ monitored' = monitored \union {HostOf[a.owner]}
          /\ Goto(w, "add")
          /\ UNCHANGED waiting
       \/ /\ waiting' = [waiting EXCEPT ![a.owner] = @ \ {Want(a)}]
          /\ Return(w)
          /\ UNCHANGED monitored
    /\ UNCHANGED <<server, callbacks, grace, held, dropped, orphaned,
                   requests, restarts>>

BlockedSame(a) == SelectSeq(list, LAMBDA i : /\ entry[i].state = "BLOCKED"
                                             /\ SameLock(entry[i], a))

\* nlm_add_to_locklist: a blocked request for the same range is returned
\* whoever made it; otherwise a new entry is queued, blocked when any lock of
\* the list, granted or blocked, is in its way.
nlm_add_to_locklist(w) ==
    LET a == thread[w].a IN
    /\ InHandler(w, {"add"})
    /\ IF BlockedSame(a) # <<>>
         THEN LET i == Head(BlockedSame(a)) IN
              /\ entry' = IncRef(entry, i)
              /\ thread' = [thread EXCEPT ![w] =
                    [op |-> "Lock", a |-> a, pc |-> "reply", id |-> i]]
              /\ UNCHANGED list
         ELSE LET i == FreshIds(1)[1]
                  allow == \A j \in Listed : ~Conflict(entry[j], a)
              IN
              /\ Allocated # EntryIds
              /\ entry' = [entry EXCEPT ![i] =
                    NewEntry(a, IF allow THEN "GRANTED" ELSE "BLOCKED", 2)]
              /\ list' = Append(list, i)
              /\ thread' = [thread EXCEPT ![w] =
                    [op |-> "Lock", a |-> a, pc |-> "reply", id |-> i]]
    /\ UNCHANGED <<callbacks, grace, monitored, client, orphaned, requests, restarts>>

\* The answer is the state of the entry when it is read, without a lock.
nlm4_Lock_reply(w) ==
    LET t == thread[w]  e == entry[t.id] IN
    /\ InHandler(w, {"reply"})
    /\ IF e.state = "GRANTED"
         THEN Granted(t.a, t.id \notin Listed \/ e.owner # t.a.owner)
         ELSE UNCHANGED client
    /\ entry' = DecRef(entry, t.id)
    /\ Return(w)
    /\ UNCHANGED <<list, callbacks, grace, monitored, orphaned, requests, restarts>>

-----------------------------------------------------------------------------
(* nlm4_Unlock *)

\* nlm_find_lock_entry(GRANTED) takes the first entry of the owner on the file,
\* whatever its range and its state.
nlm4_Unlock(w) ==
    \E a \in UnlockArgs :
      LET mine == SelectSeq(list, LAMBDA i : SameOwner(entry[i], a))
      IN
        /\ Start(w) /\ ~grace
        /\ GiveUp(a)
        /\ IF mine = <<>>
             THEN UNCHANGED <<entry, thread>>
             ELSE /\ entry' = IncRef(entry, Head(mine))
                  /\ thread' = [thread EXCEPT ![w] =
                        [op |-> "Unlock", a |-> a, pc |-> "state", id |-> Head(mine)]]
        /\ UNCHANGED <<list, callbacks, grace, monitored, orphaned, restarts>>

\* lck_state is read once the list is unlocked again.
nlm_lock_entry_get_state(w) ==
    LET t == thread[w] IN
    /\ InHandler(w, {"state"})
    /\ thread' = [thread EXCEPT ![w] =
          [op |-> "Unlock", a |-> t.a, pc |-> "delete", id |-> t.id,
           state |-> entry[t.id].state]]
    /\ UNCHANGED <<server, callbacks, grace, monitored, client, orphaned,
                   requests, restarts>>

\* do_nlm_delete_lock_entry's tests and the pieces that are left of a lock.
Touches(e, a) == ~(End(a) < e.start) /\ ~(End(e) < a.start)

\* Mutant of Pieces: a right piece is made when both ranges end together.
Pieces_EmptyRight(e, a) ==
    (IF a.start > e.start
       THEN <<[e EXCEPT !.len = a.start - e.start, !.ref = 1]>> ELSE <<>>)
    \o
    (IF End(a) <= End(e)
       THEN <<[e EXCEPT !.start = End(a), !.len = End(e) - End(a), !.ref = 1]>> ELSE <<>>)

Pieces(e, a) ==
    (IF a.start > e.start
       THEN <<[e EXCEPT !.len = a.start - e.start, !.ref = 1]>> ELSE <<>>)
    \o
    (IF End(a) < End(e)
       THEN <<[e EXCEPT !.start = End(a), !.len = End(e) - End(a), !.ref = 1]>> ELSE <<>>)

\* glist_add_list_tail takes a list of one element for an empty one.
glist_add_list_tail(l, split) == IF Len(split) = 1 THEN l ELSE l \o split

DecRefs(e, S) == [i \in EntryIds |-> IF i \in S THEN DecRef(e, i)[i] ELSE e[i]]

\* The pieces are allocated with a reference for the list they are put on; a
\* single piece is lost with that reference.
nlm_delete_lock_entry(w) ==
    LET t == thread[w]
        gone == SelectSeq(list, LAMBDA i : /\ SameOwner(entry[i], t.a)
                                           /\ Touches(entry[i], t.a))
        split == FlattenSeq([n \in DOMAIN gone |-> Pieces(entry[gone[n]], t.a)])
        new == FreshIds(Len(split))
        old == DecRefs(entry, Range(gone))
        lost == UNION {Bytes(entry[i]) : i \in Range(gone)}
                  \ UNION {Bytes(split[n]) : n \in {m \in DOMAIN new : new[m] \in Range(list')}}
    IN
    /\ InHandler(w, {"delete"})
    /\ Len(split) <= Cardinality(EntryIds \ Allocated)
    /\ entry' = [i \in EntryIds |-> IF \E n \in DOMAIN new : new[n] = i
                                      THEN split[CHOOSE n \in DOMAIN new : new[n] = i]
                                      ELSE old[i]]
    /\ list' = glist_add_list_tail(
                  SelectSeq(list, LAMBDA i : i \notin Range(gone)), new)
    /\ dropped' = [dropped EXCEPT ![t.a.owner] = @ \union (held[t.a.owner] \intersect lost)]
    /\ orphaned' = IF gone # <<>> /\ t.state # "GRANTED"
                     THEN orphaned \union {t.a.fh} ELSE orphaned
    /\ Goto(w, "unmonitor")
    /\ UNCHANGED <<callbacks, grace, monitored, held, waiting, requests, restarts>>

\* nlm_unmonitor_host's scan of the list.
nlm_unmonitor_host(w) ==
    /\ InHandler(w, {"unmonitor"})
    /\ Goto(w, IF HostListed(entry, list, HostOf[thread[w].a.owner])
                 THEN "grant" ELSE "nsm_unmonitor")
    /\ UNCHANGED <<server, callbacks, grace, monitored, client, orphaned,
                   requests, restarts>>

nsm_unmonitor(w) ==
    /\ InHandler(w, {"nsm_unmonitor"})
    /\ monitored' \in {monitored, monitored \ {HostOf[thread[w].a.owner]}}
    /\ Goto(w, "grant")
    /\ UNCHANGED <<server, callbacks, grace, client, orphaned, requests, restarts>>

\* Mutant of nlm4_Unlock_grant: the waiting requests are not looked at.
nlm4_Unlock_grant_None(w) ==
    /\ InHandler(w, {"grant"})
    /\ entry' = DecRef(entry, thread[w].id)
    /\ Return(w)
    /\ UNCHANGED <<list, callbacks, grace, monitored, client, orphaned,
                   requests, restarts>>

\* nlm_grant_blocked_locks for a lock that was granted when it was found.
nlm4_Unlock_grant(w) ==
    LET t == thread[w] IN
    /\ InHandler(w, {"grant"})
    /\ queue' = IF t.state = "GRANTED" THEN Append(queue, GrantPass(t.a.fh)) ELSE queue
    /\ entry' = DecRef(entry, t.id)
    /\ Return(w)
    /\ UNCHANGED <<list, todo, async, grace, monitored, client, orphaned,
                   requests, restarts>>

-----------------------------------------------------------------------------
(* nlm4_Cancel, nlm4_Test and nlm4_Sm_Notify *)

\* nlm_find_lock_entry(BLOCKED): the owner's request with this range and mode.
nlm4_Cancel(w) ==
    \E a \in LockArgs :
      LET mine == SelectSeq(list, LAMBDA i : /\ SameOwner(entry[i], a)
                                             /\ SameLock(entry[i], a)
                                             /\ entry[i].state = "BLOCKED")
      IN
        /\ Start(w) /\ ~grace
        /\ Want(a) \in waiting[a.owner]
        /\ mine # <<>>
        /\ GiveUp(a)
        /\ entry' = IncRef(entry, Head(mine))
        /\ thread' = [thread EXCEPT ![w] =
              [op |-> "Cancel", a |-> a, pc |-> "remove", id |-> Head(mine)]]
        /\ UNCHANGED <<list, callbacks, grace, monitored, orphaned, restarts>>

\* do_cancel_lock: no grant pass follows.
do_cancel_lock(w) ==
    LET i == thread[w].id  e == entry[i] IN
    /\ InHandler(w, {"remove"})
    /\ nlm_remove_from_locklist(i,
          /\ orphaned' = orphaned \union {e.fh}
          /\ Goto(w, "release")
          /\ UNCHANGED callbacks)
    /\ dropped' = [dropped EXCEPT ![e.owner] = @ \union (held[e.owner] \intersect Bytes(e))]
    /\ UNCHANGED <<held, waiting, requests, restarts>>

\* nlm_overlapping_entry takes a reference to the lock that is in the way.
nlm4_Test(w) ==
    \E a \in LockArgs : LET over == Overlapping(entry, a) IN
        /\ Start(w) /\ ~grace
        /\ over # <<>>
        /\ entry' = IncRef(entry, Head(over))
        /\ thread' = [thread EXCEPT ![w] =
              [op |-> "Test", pc |-> "release", id |-> Head(over)]]
        /\ UNCHANGED <<list, callbacks, grace, monitored, client, orphaned, restarts>>

\* nlm_lock_entry_dec_ref at the end of nlm4_Cancel and nlm4_Test.
nlm_release(w) ==
    /\ InHandler(w, {"release"})
    /\ entry' = DecRef(entry, thread[w].id)
    /\ Return(w)
    /\ UNCHANGED <<list, callbacks, grace, monitored, client, orphaned,
                   requests, restarts>>

\* nlm_node_recovery: host h restarted; all its locks go, under one hold of
\* the list mutex, and every granted one queues a grant pass.
nlm4_Sm_Notify(w) ==
    \E h \in monitored :
      LET gone == SelectSeq(list, LAMBDA i : HostOf[entry[i].owner] = h)
          granted == SelectSeq(gone, LAMBDA i : entry[i].state = "GRANTED")
          files(s) == {entry[i].fh : i \in Range(s)}
          clear(f) == [o \in Owners |-> IF HostOf[o] = h THEN {} ELSE f[o]]
      IN
        /\ Start(w)
        /\ entry' = DecRefs(entry, Range(gone))
        /\ list' = SelectSeq(list, LAMBDA i : i \notin Range(gone))
        /\ queue' = queue \o [n \in DOMAIN granted |-> GrantPass(entry[granted[n]].fh)]
        /\ orphaned' = orphaned \union (files(gone) \ files(granted))
        /\ held' = clear(held) /\ waiting' = clear(waiting) /\ dropped' = clear(dropped)
        /\ UNCHANGED <<todo, async, thread, grace, monitored, restarts>>

-----------------------------------------------------------------------------
(* The asynchronous thread *)

\* The whole queue moves to the temporary one; glist_add puts each callback
\* in front of the previous ones.
nlm_async_func ==
    /\ todo = <<>> /\ queue # <<>>
    /\ todo' = Reverse(queue) /\ queue' = <<>>
    /\ UNCHANGED <<server, async, thread, grace, monitored, client, orphaned,
                   requests, restarts>>

Running(func) == todo # <<>> /\ Head(todo).func = func /\ async = "idle"

Before(i, j) == \E m, n \in DOMAIN list : m < n /\ list[m] = i /\ list[n] = j

BlockedOn(f) == {i \in Listed : entry[i].fh = f /\ entry[i].state = "BLOCKED"}

\* Mutant of InTheWay: the locks granted earlier in the same pass are not seen.
InTheWay_OldOnly(G, i) == {j \in Listed : entry[j].state = "GRANTED"}

\* The granted locks when the loop of do_nlm_grant_blocked_locks comes to i:
\* the old ones and those of G, granted by the loop itself, before i.
InTheWay(G, i) == {j \in Listed : \/ entry[j].state = "GRANTED"
                                  \/ j \in G /\ Before(j, i)}

\* One pass over the list, in its order: G is what becomes granted.
do_nlm_grant_blocked_locks ==
    /\ Running("do_nlm_grant_blocked_locks")
    /\ LET f == Head(todo).arg IN
       \E G \in SUBSET BlockedOn(f) :
          /\ \A i \in BlockedOn(f) :
                i \in G <=> \A j \in InTheWay(G, i) : ~Conflict(entry[j], entry[i])
          /\ entry' = [i \in EntryIds |->
                 IF i \in G THEN [entry[i] EXCEPT !.state = "GRANTED", !.ref = @ + 1]
                            ELSE entry[i]]
          /\ LET order == SelectSeq(list, LAMBDA i : i \in G)
             IN  queue' = queue \o [n \in DOMAIN order |-> SendGrant(order[n])]
          /\ orphaned' = orphaned \ {f}
    /\ todo' = Tail(todo)
    /\ UNCHANGED <<list, async, thread, grace, monitored, client, requests, restarts>>

\* nlm4_send_grant_msg: the message reaches the client or not; the RPC may
\* fail either way, and what follows is the same.
nlm4_send_grant_msg ==
    LET i == Head(todo).arg IN
    /\ Running("nlm4_send_grant_msg")
    /\ async' = "remove"
    /\ \/ Granted(entry[i], i \notin Listed)
       \/ UNCHANGED client
    /\ UNCHANGED <<server, queue, todo, thread, grace, monitored, orphaned,
                   requests, restarts>>

\* Mutant of free_nlm_lock_entry: the lock is blocked again, not removed.
free_nlm_lock_entry_Block ==
    LET i == Head(todo).arg IN
    /\ async = "remove" /\ async' = "regrant"
    /\ entry' = [entry EXCEPT ![i].state = "BLOCKED"]
    /\ UNCHANGED <<list, queue, todo, thread, grace, monitored, client, orphaned,
                   requests, restarts>>

\* free_nlm_lock_entry: reached whether the message was sent or not.
free_nlm_lock_entry ==
    LET i == Head(todo).arg  e == entry[i] IN
    /\ async = "remove"
    /\ nlm_remove_from_locklist(i,
          /\ async' = "regrant"
          /\ UNCHANGED <<queue, todo, thread, orphaned>>)
    /\ dropped' = [dropped EXCEPT ![e.owner] = @ \union (held[e.owner] \intersect Bytes(e))]
    /\ UNCHANGED <<held, waiting, requests, restarts>>

nlm4_send_grant_msg_regrant ==
    LET i == Head(todo).arg IN
    /\ async = "regrant"
    /\ queue' = Append(queue, GrantPass(entry[i].fh))
    /\ entry' = DecRef(entry, i)
    /\ todo' = Tail(todo) /\ async' = "idle"
    /\ UNCHANGED <<list, thread, grace, monitored, client, orphaned, requests, restarts>>

-----------------------------------------------------------------------------
(* Time and crashes *)

\* What the list says an owner holds.
Covered(o) == UNION {Bytes(entry[i]) : i \in {j \in Listed : /\ entry[j].owner = o
                                                             /\ entry[j].state = "GRANTED"}}

\* The grace period is over: what was not reclaimed is not honoured any more.
GraceEnds ==
    /\ grace
    /\ grace' = FALSE
    /\ dropped' = [o \in Owners |-> dropped[o] \union (held[o] \ Covered(o))]
    /\ UNCHANGED <<server, callbacks, thread, monitored, held, waiting, orphaned,
                   requests, restarts>>

Crash ==
    /\ restarts < MaxRestarts /\ restarts' = restarts + 1
    /\ nlm_init
    /\ UNCHANGED <<client, requests>>

Init ==
    /\ entry = [i \in EntryIds |-> Free] /\ list = <<>>
    /\ queue = <<>> /\ todo = <<>> /\ async = "idle"
    /\ thread = [w \in Workers |-> Idle]
    /\ grace = TRUE /\ monitored = {}
    /\ held = [o \in Owners |-> {}] /\ waiting = [o \in Owners |-> {}]
    /\ dropped = [o \in Owners |-> {}] /\ orphaned = {}
    /\ requests = 0 /\ restarts = 0

Worker(w) ==
    \/ nsm_monitor(w) \/ nlm_add_to_locklist(w) \/ nlm4_Lock_reply(w)
    \/ nlm_lock_entry_get_state(w) \/ nlm_delete_lock_entry(w)
    \/ nlm_unmonitor_host(w) \/ nsm_unmonitor(w)
    \/ nlm4_Unlock_grant(w) \/ do_cancel_lock(w) \/ nlm_release(w)

Async == \/ nlm_async_func \/ do_nlm_grant_blocked_locks
         \/ nlm4_send_grant_msg \/ free_nlm_lock_entry \/ nlm4_send_grant_msg_regrant

Request(w) == \/ nlm4_Lock(w) \/ nlm4_Unlock(w) \/ nlm4_Cancel(w)
              \/ nlm4_Test(w) \/ nlm4_Sm_Notify(w)

Next == \/ \E w \in Workers : Worker(w) \/ Request(w)
        \/ Async \/ GraceEnds \/ Crash

Spec == Init /\ [][Next]_vars

-----------------------------------------------------------------------------
(* Properties *)

Holders(i) == {w \in Workers : "id" \in DOMAIN thread[w] /\ thread[w].id = i}

PendingSends(i) == {n \in DOMAIN queue : queue[n] = SendGrant(i)}
                     \union {-n : n \in {m \in DOMAIN todo : todo[m] = SendGrant(i)}}

\* The shape of the state.
TypeOK ==
    /\ \A i \in Allocated : /\ entry[i].owner \in Owners /\ entry[i].fh \in Files
                            /\ entry[i].state \in {"GRANTED", "BLOCKED"}
                            /\ entry[i].ref \in 1..(2 + Cardinality(Workers))
                            /\ entry[i].start < End(entry[i])
    /\ list \in Seq(EntryIds) /\ Cardinality(Listed) = Len(list)
    /\ async \in {"idle", "remove", "regrant"}
    /\ monitored \subseteq Hosts /\ orphaned \subseteq Files

\* Nobody uses a released entry: a lock entry counts a reference for the list,
\* one for each handler that found it and one for a grant message on its way,
\* so that its memory is not released while one of these is left, whatever
\* cancel, unlock, recovery and grant do in parallel.  It may count more: the
\* single piece nlm_delete_lock_entry loses keeps its reference for ever.
RefsCoverUses ==
    \A i \in EntryIds :
        entry[i].ref >= (IF i \in Listed THEN 1 ELSE 0)
                          + Cardinality(Holders(i)) + Cardinality(PendingSends(i))

\* Two granted locks of the list never conflict, although requests, unlocks
\* that split a lock, recoveries and grant passes change the list between the
\* steps of one another.
GrantedCompatible ==
    \A i, j \in Listed :
        i # j /\ entry[i].state = "GRANTED" /\ entry[j].state = "GRANTED"
          => ~Conflict(entry[i], entry[j])

\* A grant pass over file f is queued or will be.
PassPending(f) ==
    \/ \E n \in DOMAIN queue : queue[n] = GrantPass(f)
    \/ \E n \in DOMAIN todo : todo[n] = GrantPass(f)
    \/ async = "regrant" /\ entry[Head(todo).arg].fh = f
    \/ \E w \in Workers : /\ InHandler(w, {"unmonitor", "nsm_unmonitor", "grant"})
                          /\ thread[w].a.fh = f /\ thread[w].state = "GRANTED"

\* No blocked request is forgotten: something of the list is in its way and
\* some lock of the file is granted, or a grant pass is coming.  The exception
\* is a file where a BLOCKED lock was withdrawn (cancel, unlock, recovery),
\* for which the code queues no pass; the next pass over the file ends it.
NoForgottenBlocked ==
    \A i \in Listed :
        entry[i].state = "BLOCKED" =>
          \/ PassPending(entry[i].fh)
          \/ entry[i].fh \in orphaned
          \/ /\ \E j \in Listed : j # i /\ Conflict(entry[j], entry[i])
             /\ \E j \in Listed : entry[j].fh = entry[i].fh /\ entry[j].state = "GRANTED"

\* What an owner holds and the server did not drop by itself.
Honoured(o) == held[o] \ dropped[o]

\* Exclusion as the clients see it, over grants, reclaims after a restart,
\* lost messages and late answers: two owners never both hold a byte one of
\* them locked exclusively, except for locks the server dropped by itself.
HonouredExclusion ==
    \A o, p \in Owners :
        o # p => \A x \in Honoured(o), y \in Honoured(p) :
                    x[1] = y[1] /\ x[2] = y[2] => ~x[3] /\ ~y[3]

\* An unlock takes away what it names and nothing else: "Delete the old entry
\* and add the two new entries", "now add the split lock list"
\* (nlm_delete_lock_entry), so that what was granted outside of the range stays
\* granted.
UnlockKeepsRest ==
    [][\A w \in Workers : nlm_delete_lock_entry(w) =>
          LET a == thread[w].a
          IN  Outside(Covered(a.owner), a) \subseteq Covered(a.owner)']_vars

\* What the asynchronous thread has left to do: a blocked lock may become a
\* message, a message becomes a grant pass.
AsyncWork ==
    LET weight(job, pass, send) == IF job.func = "nlm4_send_grant_msg" THEN send ELSE pass
        sum(s, pass, send) == FoldLeft(LAMBDA n, job : n + weight(job, pass, send), 0, s)
    IN  7 * Cardinality({i \in Listed : entry[i].state = "BLOCKED"})
          + sum(queue, 2, 6) + sum(todo, 1, 5)
          - (CASE async = "idle" -> 0 [] async = "remove" -> 1 [] async = "regrant" -> 2)

\* The asynchronous thread does not run for ever on its own: a grant pass
\* queues messages and every message queues a grant pass, but each step brings
\* the end nearer, because every message takes a lock off the list.
GrantsComeToAnEnd == [][Async => AsyncWork' < AsyncWork]_vars
=============================================================================
