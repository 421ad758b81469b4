---------------------------- MODULE OpenStateInv ----------------------------
(***************************************************************************)
(* Proofs about OpenState: for any sets of workers, owners, files and      *)
(* states, and any requests, a stateid finds the state it was made for     *)
(* until the numbers of the owners go round (NoWrap).  The numbers only    *)
(* grow, so that a step that ends before that point also begins before it. *)
(* This module has the invariant and the steps that leave the lists of     *)
(* states alone; OpenStateAddProofs and OpenStateProofs have the others.   *)
(***************************************************************************)
EXTENDS OpenState, TLAPS

Known == {o \in Owners : counter[o] # 0}

(***************************************************************************)
(* nfs_open_owner_Set numbers the owners: no number is given twice, and    *)
(* none is above the last one.                                             *)
(***************************************************************************)
Numbered ==
    /\ open_owner_counter \in Nat /\ counter \in [Owners -> 0..open_owner_counter]
    /\ \A o, p \in Owners : counter[o] = counter[p] /\ counter[o] # 0 => o = p

(***************************************************************************)
(* What handler r can rely on: an OPEN or CLOSE works for an owner with a  *)
(* number, and a CLOSE about to delete finds its stateid again, with the   *)
(* state it has looked up.                                                 *)
(***************************************************************************)
HandlerKnown(r, number, table) ==
    /\ r.pc # "idle" => r.file \in Files
    /\ r.pc = "test" => r.at \in States
    /\ r.pc \in {"create", "add", "open"} => r.op = "open"
    /\ r.how # "NOCREATE" => r.op = "open"
    /\ r.op \in {"open", "close"} => r.owner \in Owners /\ number[r.owner] # 0
    /\ r.pc \in {"delete", "unlink"} =>
          r.op = "close" /\ <<r.file, number[r.owner] % DigestMod>> \in DOMAIN table
    /\ r.pc = "unlink" => r.at = table[<<r.file, number[r.owner] % DigestMod>>]

\* Handler q is handler r further on, or has returned.
Continues(q, r) == q.op = "none" \/ (q.op = r.op /\ q.owner = r.owner)

(***************************************************************************)
(* An owner has one OPEN or CLOSE at a time, and stateids are sent only to *)
(* owners with a number.                                                   *)
(***************************************************************************)
HandlersKnown ==
    /\ \A v, w \in Workers :
          (/\ thread[v].op \in {"open", "close"} /\ thread[w].op \in {"open", "close"}
           /\ thread[v].owner = thread[w].owner) => v = w
    /\ \A w \in Workers : HandlerKnown(thread[w], counter, ht)
    /\ \A p \in stateid : p[1] \in Known

(***************************************************************************)
(* A pool leads only to states of no file, and no two pools and no two     *)
(* states of a pool lead to the same one.                                  *)
(***************************************************************************)
PoolsApart ==
    /\ \A s \in fresh : ~Live(s)
    /\ \A w \in Workers : pool[w] # NULL => ~Live(pool[w]) /\ pool[w] \notin fresh
    /\ \A v, w \in Workers : pool[v] = pool[w] /\ pool[v] # NULL => v = w
    /\ \A s \in States : ~Live(s) /\ state[s].next # NULL =>
          /\ ~Live(state[s].next)
          /\ state[s].next \notin fresh
          /\ \A w \in Workers : pool[w] # state[s].next
          /\ \A t \in States : ~Live(t) /\ state[t].next = state[s].next => t = s

(***************************************************************************)
(* The links of the lists, seen from each state: neighbours are states of  *)
(* the same file and point back, only the head has none before it, and a   *)
(* list that is not empty has a last state.                                *)
(***************************************************************************)
ListsLinked ==
    /\ \A f \in Files : head[f] # NULL =>
          /\ state[head[f]].pentry = f
          /\ state[head[f]].prev = NULL
          /\ \E s \in StatesOf(f) : state[s].next = NULL
    /\ \A s \in States : Live(s) =>
          /\ state[s].prev = NULL => head[state[s].pentry] = s
          /\ state[s].next # NULL => /\ state[state[s].next].pentry = state[s].pentry
                                     /\ state[state[s].next].prev = s
          /\ state[s].prev # NULL => /\ state[state[s].prev].pentry = state[s].pentry
                                     /\ state[state[s].prev].next = s

(***************************************************************************)
(* The table and the states agree.                                         *)
(***************************************************************************)
TableInv ==
    /\ \A k \in DOMAIN ht : Live(ht[k]) /\ state[ht[k]].other = k
    /\ \A s \in States : Live(s) =>
          /\ state[s].powner \in Known
          /\ state[s].other = nfs4_BuildStateId_Other(state[s].pentry, state[s].powner)
          /\ s \notin lost => state[s].other \in DOMAIN ht /\ ht[state[s].other] = s

IInv ==
    /\ TypeOK
    /\ Numbered
    /\ HandlersKnown
    /\ PoolsApart
    /\ ListsLinked
    /\ TableInv

-----------------------------------------------------------------------------
(***************************************************************************)
(* Two numbers from 1 up to the modulus have different remainders.         *)
(***************************************************************************)
LEMMA RemaindersDiffer ==
    ASSUME NEW d \in Nat \ {0}, NEW m \in 1..d, NEW n \in 1..d, m % d = n % d
    PROVE  m = n
<1>1. ASSUME NEW k \in 1..(d - 1) PROVE k % d = k
  OBVIOUS
<1>2. d % d = 0
  OBVIOUS
<1>3. \A k \in 1..d : k = d \/ k \in 1..(d - 1)
  OBVIOUS
<1> QED
  BY <1>1, <1>2, <1>3

(***************************************************************************)
(* Two owners with numbers have different stateids, on every file.         *)
(***************************************************************************)
LEMMA StateidsDiffer ==
    ASSUME NoWrap, Numbered, NEW o \in Known, NEW p \in Known, NEW f, NEW g,
           nfs4_BuildStateId_Other(f, o) = nfs4_BuildStateId_Other(g, p)
    PROVE  f = g /\ o = p
<1>1. f = g /\ counter[o] % DigestMod = counter[p] % DigestMod
  BY DEF nfs4_BuildStateId_Other
<1>2. \A q \in Known : counter[q] \in 1..DigestMod
  BY OpenAssumption DEF Known, Numbered, NoWrap
<1>3. counter[o] = counter[p]
  BY <1>1, <1>2, RemaindersDiffer, OpenAssumption
<1> QED
  BY <1>1, <1>3 DEF Numbered, Known

\* Before the first request there are no states, and the invariant holds.
THEOREM InitIInv == Init => IInv
<1> SUFFICES ASSUME Init PROVE IInv
  OBVIOUS
<1>2. Idle \in Handler /\ Blank \in StateRecord
  BY DEF Idle, Handler, Blank, StateRecord, Hows
<1>3. TypeOK
  BY <1>2, OpenAssumption DEF Init, TypeOK
<1>4. Numbered
  BY DEF Init, Numbered
<1>5. HandlersKnown
  BY OpenAssumption DEF Init, HandlersKnown, HandlerKnown, Idle
<1>6. PoolsApart /\ ListsLinked /\ TableInv
  BY OpenAssumption DEF Init, PoolsApart, ListsLinked, TableInv, Live, StatesOf, Blank
<1> QED
  BY <1>3, <1>4, <1>5, <1>6 DEF IInv

-----------------------------------------------------------------------------
(***************************************************************************)
(* Steps that leave the states, the lists and the table alone.             *)
(***************************************************************************)
LEMMA StatesKept ==
    ASSUME IInv, UNCHANGED <<states, numbers>>
    PROVE  Numbered' /\ PoolsApart' /\ ListsLinked' /\ TableInv'
<1>1. /\ state' = state /\ head' = head /\ ht' = ht /\ pool' = pool /\ fresh' = fresh
      /\ lost' = lost /\ counter' = counter /\ open_owner_counter' = open_owner_counter
  BY DEF states, numbers
<1>2. Known' = Known
  BY <1>1 DEF Known
<1>3. Numbered'
  BY <1>1 DEF IInv, Numbered
<1>4. PoolsApart'
  BY <1>1 DEF IInv, PoolsApart, Live
<1>5. ListsLinked'
  BY <1>1 DEF IInv, ListsLinked, Live, StatesOf
<1>6. TableInv'
  BY <1>1, <1>2 DEF IInv, TableInv, Live, nfs4_BuildStateId_Other
<1> QED
  BY <1>3, <1>4, <1>5, <1>6

(***************************************************************************)
(* Worker w goes on with handler r; the table is kept and so are the       *)
(* numbers already given.                                                  *)
(***************************************************************************)
LEMMA HandlerStep ==
    ASSUME IInv, NEW w \in Workers, NEW r \in Handler,
           thread' = [thread EXCEPT ![w] = r],
           ht' = ht,
           \A o \in Owners : counter[o] # 0 => counter'[o] = counter[o],
           HandlerKnown(r, counter', ht),
           r.op = "io" \/ Continues(r, thread[w]) \/ ~Busy(r.owner),
           \A p \in stateid' : p[1] \in Known'
    PROVE  HandlersKnown' /\ thread' \in [Workers -> Handler]
<1>1. thread \in [Workers -> Handler] /\ HandlersKnown
  BY DEF IInv, TypeOK
<1>2. thread' \in [Workers -> Handler] /\ thread'[w] = r
      /\ \A v \in Workers \ {w} : thread'[v] = thread[v]
  BY <1>1
<1>3. ASSUME NEW u \in Workers, NEW v \in Workers,
             thread'[u].op \in {"open", "close"}, thread'[v].op \in {"open", "close"},
             thread'[u].owner = thread'[v].owner
      PROVE  u = v
  BY <1>1, <1>2, <1>3 DEF HandlersKnown, Busy, Continues
<1>4. ASSUME NEW v \in Workers PROVE HandlerKnown(thread'[v], counter', ht')
  BY <1>1, <1>2, Zenon DEF HandlersKnown, HandlerKnown
<1> QED
  BY <1>2, <1>3, <1>4 DEF HandlersKnown

(***************************************************************************)
(* Worker w goes on with handler r, and the owners keep their numbers too. *)
(***************************************************************************)
LEMMA QuietStep ==
    ASSUME IInv, NEW w \in Workers, NEW r \in Handler,
           thread' = [thread EXCEPT ![w] = r],
           UNCHANGED <<states, numbers>>,
           HandlerKnown(r, counter, ht),
           r.op = "io" \/ Continues(r, thread[w]) \/ ~Busy(r.owner),
           exists' \subseteq Files, requests' \in 0..MaxRequests,
           stateid' \subseteq Known \X Files
    PROVE  IInv'
<1>1. ht' = ht /\ counter' = counter /\ Known' = Known /\ Known \subseteq Owners
  BY DEF states, numbers, Known
<1>2. HandlersKnown' /\ thread' \in [Workers -> Handler]
  BY <1>1, HandlerStep, Zenon
<1>3. TypeOK'
  BY <1>1, <1>2 DEF IInv, TypeOK, states, numbers
<1> QED
  BY <1>2, <1>3, StatesKept DEF IInv

\* What the invariant says of one handler.
LEMMA HandlerTyped ==
    ASSUME IInv, NEW w \in Workers
    PROVE  /\ thread \in [Workers -> Handler] /\ thread[w] \in Handler
           /\ HandlerKnown(thread[w], counter, ht)
           /\ exists \subseteq Files /\ requests \in 0..MaxRequests
           /\ stateid \subseteq Known \X Files
BY DEF IInv, TypeOK, HandlersKnown

\* The handler of a worker that returns.
LEMMA IdleTyped ==
    ASSUME NEW number, NEW table
    PROVE  /\ Idle \in Handler /\ Idle.op = "none" /\ HandlerKnown(Idle, number, table)
           /\ \A r : Continues(Idle, r)
BY DEF Idle, Handler, Hows, HandlerKnown, Continues

\* The creation of the file changes no state.
LEMMA CreateStep ==
    ASSUME IInv, NEW w \in Workers, cache_inode_create(w)
    PROVE  IInv'
<1> DEFINE r == [thread[w] EXCEPT !.pc = "add"]
<1>0. thread[w] \in Handler /\ HandlerKnown(thread[w], counter, ht) /\ thread[w].pc = "create"
  BY HandlerTyped DEF cache_inode_create
<1>1. r \in Handler /\ Continues(r, thread[w]) /\ HandlerKnown(r, counter, ht)
  BY <1>0 DEF Handler, HandlerKnown, Continues
<1>2. thread' = [thread EXCEPT ![w] = r]
  BY HandlerTyped DEF cache_inode_create, Goto
<1> HIDE DEF r
<1>3. exists' \subseteq Files
  BY HandlerTyped, Zenon DEF cache_inode_create, HandlerKnown
<1> QED
  BY <1>1, <1>2, <1>3, HandlerTyped, QuietStep, Zenon DEF cache_inode_create

\* Opening the file in the FSAL ends OPEN and changes no state.
LEMMA OpenByNameStep ==
    ASSUME IInv, NEW w \in Workers, cache_inode_open_by_name(w)
    PROVE  IInv'
<1>1. thread' = [thread EXCEPT ![w] = Idle]
  BY DEF cache_inode_open_by_name, Return
<1>2. stateid' \subseteq Known \X Files
  <2>1. thread[w].owner \in Known /\ thread[w].file \in Files
    BY HandlerTyped, Zenon DEF cache_inode_open_by_name, HandlerKnown, Known
  <2> QED
    BY <2>1, HandlerTyped DEF cache_inode_open_by_name
<1> QED
  BY <1>1, <1>2, HandlerTyped, IdleTyped, QuietStep, Zenon DEF cache_inode_open_by_name

\* The access to the data ends READ or WRITE and changes no state.
LEMMA RdwrStep ==
    ASSUME IInv, NEW w \in Workers, cache_inode_rdwr(w)
    PROVE  IInv'
<1>1. thread' = [thread EXCEPT ![w] = Idle]
  BY DEF cache_inode_rdwr, Return
<1> QED
  BY <1>1, HandlerTyped, IdleTyped, QuietStep, Zenon DEF cache_inode_rdwr

\* cache_inode_state_iterate only moves its handler on, to a state or to the end of the scan.
LEMMA IterateStep ==
    ASSUME IInv, NEW w \in Workers, cache_inode_state_iterate(w)
    PROVE  IInv'
<1> DEFINE r == thread[w]
           next == IF r.at = NULL THEN head[r.file] ELSE state[r.at].next
           end == ScanEnd(w)
<1>1. r \in Handler /\ HandlerKnown(r, counter, ht) /\ r.pc = "iterate"
  BY HandlerTyped DEF cache_inode_state_iterate
<1>2. next \in States \union {NULL}
  <2>1. head \in [Files -> States \union {NULL}] /\ state \in [States -> StateRecord]
    BY DEF IInv, TypeOK
  <2> QED
    BY <1>1, <2>1 DEF HandlerKnown, Handler, StateRecord
<1>3. ASSUME NEW b \in BOOLEAN
      PROVE  /\ [end EXCEPT !.stale = b] \in Handler
             /\ Continues([end EXCEPT !.stale = b], r)
             /\ HandlerKnown([end EXCEPT !.stale = b], counter, ht)
  <2>1. end \in Handler /\ Continues(end, r) /\ HandlerKnown(end, counter, ht)
    <3>1. r.how \in Hows /\ r.own \in States \union {NULL} /\ r.op \in {"none", "open", "close", "io"}
      BY <1>1 DEF Handler
    <3> DEFINE q(l) == [[r EXCEPT !.at = NULL] EXCEPT !.pc = l]
    <3>2. end \in {Idle, q("add"), q("open"), q("rdwr")} /\ (end \in {q("add"), q("open")} => r.op = "open")
      BY <1>1, Zenon DEF ScanEnd, Handler
    <3>3. ASSUME NEW l \in {"add", "open", "rdwr"}, l \in {"add", "open"} => r.op = "open"
          PROVE  q(l) \in Handler /\ Continues(q(l), r) /\ HandlerKnown(q(l), counter, ht)
      BY <1>1, <3>3, Zenon DEF Handler, HandlerKnown, Continues
    <3>4. CASE end = Idle
      BY <3>4, IdleTyped
    <3>5. CASE end = q("add")
      BY <3>2, <3>3, <3>5
    <3>6. CASE end = q("open")
      BY <3>2, <3>3, <3>6
    <3>7. CASE end = q("rdwr")
      BY <3>2, <3>3, <3>7
    <3> QED
      BY <3>2, <3>4, <3>5, <3>6, <3>7
  <2> HIDE DEF end
  <2> QED
    BY <2>1 DEF Handler, HandlerKnown, Continues
<1>4. ASSUME NEW b \in BOOLEAN, next # NULL
      PROVE  LET q == [r EXCEPT !.pc = "test", !.at = next, !.stale = b]
             IN  q \in Handler /\ Continues(q, r) /\ HandlerKnown(q, counter, ht)
  BY <1>1, <1>2, <1>4, ZenonT(30) DEF Handler, HandlerKnown, Continues
<1>5. PICK q : /\ q \in Handler /\ Continues(q, r)
               /\ HandlerKnown(q, counter, ht)
               /\ thread' = [thread EXCEPT ![w] = q]
  <2>1. CASE r.at # NULL /\ state[r.at].pentry # r.file
    BY <2>1, <1>3, Zenon DEF cache_inode_state_iterate
  <2>2. CASE ~(r.at # NULL /\ state[r.at].pentry # r.file) /\ next = NULL
    BY <2>2, <1>3, Zenon DEF cache_inode_state_iterate
  <2>3. CASE ~(r.at # NULL /\ state[r.at].pentry # r.file) /\ next # NULL
    BY <2>3, <1>4, Zenon DEF cache_inode_state_iterate
  <2> QED
    BY <2>1, <2>2, <2>3
<1> QED
  BY <1>5, HandlerTyped, QuietStep, Zenon DEF cache_inode_state_iterate

\* The test of a found state only moves its handler on.
LEMMA TestStep ==
    ASSUME IInv, NEW w \in Workers, Test(w)
    PROVE  IInv'
<1> DEFINE r == thread[w]
           seen == [r EXCEPT !.pc = "iterate"]
<1>1. r \in Handler /\ HandlerKnown(r, counter, ht) /\ r.pc = "test" /\ r.at \in States
  BY HandlerTyped, Zenon DEF Test, HandlerKnown
<1>2. seen \in Handler /\ Continues(seen, r) /\ HandlerKnown(seen, counter, ht)
  BY <1>1 DEF Handler, HandlerKnown, Continues
<1>3. LET q == [seen EXCEPT !.own = r.at]
      IN  q \in Handler /\ Continues(q, r) /\ HandlerKnown(q, counter, ht)
  BY <1>1, Zenon DEF Handler, HandlerKnown, Continues
<1>4. PICK q : /\ q \in Handler /\ Continues(q, r)
               /\ HandlerKnown(q, counter, ht)
               /\ thread' = [thread EXCEPT ![w] = q]
  <2>1. \/ thread' = [thread EXCEPT ![w] = Idle]
        \/ thread' = [thread EXCEPT ![w] = seen]
        \/ thread' = [thread EXCEPT ![w] = [seen EXCEPT !.own = r.at]]
    BY DEF Test, Return
  <2> QED
    BY <2>1, <1>2, <1>3, IdleTyped, Zenon
<1>5. stateid' \subseteq Known \X Files
  <2>1. CASE stateid' = stateid
    BY <2>1, HandlerTyped
  <2>2. CASE r.how = "EXCLUSIVE4" /\ stateid' = stateid \union {<<r.owner, r.file>>}
    <3>1. r.owner \in Known /\ r.file \in Files
      BY <1>1, <2>2 DEF HandlerKnown, Known
    <3> QED
      BY <2>2, <3>1, HandlerTyped
  <2> QED
    BY <2>1, <2>2 DEF Test
<1> QED
  BY <1>4, <1>5, HandlerTyped, QuietStep, Zenon DEF Test

(***************************************************************************)
(* A request that is taken up and changes nothing but the handler.         *)
(***************************************************************************)
LEMMA StartStep ==
    ASSUME IInv, NEW w \in Workers, NEW r \in Handler,
           Start(w, r), r.op \in {"none", "io"} \/ ~Busy(r.owner), HandlerKnown(r, counter, ht),
           UNCHANGED <<states, numbers, exists, stateid>>
    PROVE  IInv'
<1>1. requests' \in 0..MaxRequests
  BY OpenAssumption, HandlerTyped DEF Start
<1>2. /\ thread' = [thread EXCEPT ![w] = r]
      /\ r.op = "io" \/ Continues(r, thread[w]) \/ ~Busy(r.owner)
  BY DEF Start, Continues
<1>3. exists' \subseteq Files /\ stateid' \subseteq Known \X Files
  BY HandlerTyped
<1> QED
  BY <1>1, <1>2, <1>3, QuietStep, Zenon

\* CLOSE begins with the stateid of an owner that has a number.
LEMMA CloseStep ==
    ASSUME IInv, NEW w \in Workers, NEW o \in Owners, NEW f \in Files, nfs4_op_close(w, o, f)
    PROVE  IInv'
<1> DEFINE found == nfs4_State_Get_Pointer(nfs4_BuildStateId_Other(f, o))
           r == [Idle EXCEPT !.op = "close", !.owner = o, !.file = f]
<1>1. CASE found = NULL
  BY <1>1, IdleTyped, StartStep DEF nfs4_op_close
<1>2. CASE found # NULL
  <2> DEFINE q == [r EXCEPT !.pc = "delete"]
  <2>1. Start(w, q) /\ o \in Known /\ ~Busy(o)
    BY <1>2, HandlerTyped DEF nfs4_op_close
  <2>2. nfs4_BuildStateId_Other(f, o) \in DOMAIN ht
    BY <1>2 DEF nfs4_State_Get_Pointer
  <2>3. q \in Handler /\ q.owner = o /\ HandlerKnown(q, counter, ht)
    BY <2>1, <2>2, Zenon DEF Idle, Handler, Hows, HandlerKnown, Known, nfs4_BuildStateId_Other
  <2> HIDE DEF q
  <2> QED
    BY <2>1, <2>3, StartStep DEF nfs4_op_close
<1> QED
  BY <1>1, <1>2

\* READ and WRITE begin with a stateid or with a special one, for which no owner is held.
LEMMA ReadOrWriteStep ==
    ASSUME IInv, NEW w \in Workers, NEW arg \in Accesses, ReadOrWrite(w, arg)
    PROVE  IInv'
<1> DEFINE o == arg.owner
           f == arg.file
           found == nfs4_State_Get_Pointer(nfs4_BuildStateId_Other(f, o))
           r == [Idle EXCEPT !.op = "io", !.owner = o, !.file = f, !.access = arg.access]
<1>1. o \in Owners \union {NULL} /\ f \in Files /\ arg.access \subseteq {"R", "W"}
  BY OpenAssumption
<1>2. found \in States \union {NULL}
  BY DEF nfs4_State_Get_Pointer, IInv, TypeOK
<1>3. LET q == [r EXCEPT !.pc = "iterate"]
      IN  q \in Handler /\ q.op = "io" /\ HandlerKnown(q, counter, ht)
  BY <1>1, Zenon DEF Idle, Handler, Hows, HandlerKnown
<1>4. found # NULL => LET q == [r EXCEPT !.own = found, !.pc = "iterate"]
                      IN  q \in Handler /\ q.op = "io" /\ HandlerKnown(q, counter, ht)
  BY <1>1, <1>2, Zenon DEF Idle, Handler, Hows, HandlerKnown
<1>5. PICK q \in Handler : q.op \in {"none", "io"} /\ HandlerKnown(q, counter, ht) /\ Start(w, q)
  <2>1. \/ Start(w, [r EXCEPT !.pc = "iterate"])
        \/ Start(w, Idle)
        \/ found # NULL /\ Start(w, [r EXCEPT !.own = found, !.pc = "iterate"])
    BY DEF ReadOrWrite
  <2> QED
    BY <2>1, <1>3, <1>4, IdleTyped, Zenon
<1> QED
  BY <1>5, StartStep DEF ReadOrWrite

\* The second lookup of CLOSE finds the state of its stateid.
LEMMA LookupStep ==
    ASSUME IInv, NEW w \in Workers, cache_inode_del_state_by_key(w)
    PROVE  IInv'
<1> DEFINE r == thread[w]
           other == nfs4_BuildStateId_Other(r.file, r.owner)
           q == [r EXCEPT !.pc = "unlink", !.at = ht[other]]
<1>1. r \in Handler /\ HandlerKnown(r, counter, ht) /\ r.pc = "delete"
  BY HandlerTyped DEF cache_inode_del_state_by_key
<1>2. other \in DOMAIN ht /\ ht[other] \in States /\ ht[other] # NULL
  BY <1>1, OpenAssumption DEF HandlerKnown, nfs4_BuildStateId_Other, IInv, TypeOK
<1>3. thread' = [thread EXCEPT ![w] = q]
  BY <1>2, HandlerTyped DEF cache_inode_del_state_by_key, nfs4_State_Get_Pointer
<1>4. q \in Handler /\ Continues(q, r) /\ HandlerKnown(q, counter, ht)
  <2>1. other = <<r.file, counter[r.owner] % DigestMod>>
    BY DEF nfs4_BuildStateId_Other
  <2> HIDE DEF other
  <2> QED
    BY <1>1, <1>2, <2>1, Zenon DEF Handler, HandlerKnown, Continues
<1> HIDE DEF q
<1> QED
  BY <1>3, <1>4, HandlerTyped, QuietStep, Zenon DEF cache_inode_del_state_by_key

-----------------------------------------------------------------------------
(***************************************************************************)
(* The step of nfs4_op_open in nfs_open_owner_Set: an unknown owner gets a *)
(* number above all others, or the number is used up; the owners that are  *)
(* known keep theirs.                                                      *)
(***************************************************************************)
LEMMA OwnerSet ==
    ASSUME Numbered, NEW o \in Owners, NEW b \in BOOLEAN, counter[o] = 0, nfs_open_owner_Set(o, b)
    PROVE  /\ Numbered'
           /\ b => counter'[o] # 0
           /\ \A p \in Owners : counter[p] # 0 => counter'[p] = counter[p]
<1>1. /\ open_owner_counter' = open_owner_counter + 1 /\ open_owner_counter' \in Nat
      /\ open_owner_counter \in Nat /\ \A p \in Owners : counter[p] \in 0..open_owner_counter
  BY DEF nfs_open_owner_Set, Numbered
<1>2. counter \in [Owners -> 0..open_owner_counter']
  BY <1>1 DEF Numbered
<1>3. CASE b
  <2>1. /\ counter' \in [Owners -> 0..open_owner_counter']
        /\ counter'[o] = open_owner_counter + 1
        /\ \A p \in Owners \ {o} : counter'[p] = counter[p]
    BY <1>1, <1>2, <1>3 DEF nfs_open_owner_Set
  <2> QED
    BY <1>1, <2>1 DEF Numbered
<1>4. CASE ~b
  BY <1>1, <1>2, <1>4 DEF nfs_open_owner_Set, Numbered
<1> QED
  BY <1>3, <1>4

\* OPEN begins by giving its owner a number, if it has none.
LEMMA OpenStep ==
    ASSUME IInv, NEW w \in Workers, NEW arg \in Opens, nfs4_op_open(w, arg)
    PROVE  IInv'
<1> DEFINE o == arg.owner
           r == [Idle EXCEPT !.op = "open", !.owner = o, !.file = arg.file, !.how = arg.how,
                             !.access = arg.access, !.deny = arg.deny]
           q(l) == [r EXCEPT !.pc = l]
<1>1. /\ o \in Owners /\ arg.file \in Files /\ arg.how \in Hows
      /\ arg.access \subseteq {"R", "W"} /\ arg.deny \subseteq {"R", "W"}
  BY OpenAssumption
<1>2. /\ Numbered' /\ \A p \in Owners : counter[p] # 0 => counter'[p] = counter[p]
      /\ Start(w, Idle) \/ counter'[o] # 0
  <2>1. CASE UNCHANGED numbers /\ (Start(w, Idle) \/ counter[o] # 0)
    BY <2>1 DEF numbers, IInv, Numbered
  <2>2. CASE counter[o] = 0 /\ nfs_open_owner_Set(o, FALSE) /\ Start(w, Idle)
    BY <2>2, <1>1, OwnerSet DEF IInv
  <2>3. CASE counter[o] = 0 /\ nfs_open_owner_Set(o, TRUE)
    BY <2>3, <1>1, OwnerSet DEF IInv
  <2> QED
    BY <2>1, <2>2, <2>3 DEF nfs4_op_open
<1>3. ASSUME NEW l \in {"iterate", "add", "create"}, counter'[o] # 0
      PROVE  q(l) \in Handler /\ q(l).owner = o /\ HandlerKnown(q(l), counter', ht)
  BY <1>1, <1>3 DEF Idle, Handler, Hows, HandlerKnown
<1>4. PICK h \in Handler : /\ h.op = "none" \/ h.owner = o
                           /\ HandlerKnown(h, counter', ht) /\ Start(w, h)
  <2>1. CASE Start(w, Idle)
    BY <2>1, IdleTyped, Zenon
  <2>2. CASE ~Start(w, Idle)
    <3>1. \E l \in {"iterate", "add", "create"} : Start(w, q(l))
      BY <2>2 DEF nfs4_op_open
    <3> QED
      BY <1>2, <1>3, <2>2, <3>1, Zenon
  <2> QED
    BY <2>1, <2>2
<1>5. /\ state' = state /\ head' = head /\ ht' = ht /\ pool' = pool /\ fresh' = fresh
      /\ lost' = lost /\ exists' = exists /\ stateid' = stateid
  BY DEF nfs4_op_open, states
<1>6. Known \subseteq Known'
  BY <1>2 DEF Known
<1>7. HandlersKnown' /\ thread' \in [Workers -> Handler]
  <2>1. thread' = [thread EXCEPT ![w] = h] /\ (Continues(h, thread[w]) \/ ~Busy(h.owner))
    BY <1>4 DEF Start, Continues, nfs4_op_open
  <2>2. \A p \in stateid' : p[1] \in Known'
    BY <1>5, <1>6 DEF IInv, HandlersKnown
  <2> QED
    BY <1>2, <1>4, <1>5, <2>1, <2>2, HandlerStep, Zenon
<1>8. TypeOK'
  <2>1. open_owner_counter' \in Nat /\ counter' \in [Owners -> 0..open_owner_counter']
    BY <1>2 DEF Numbered
  <2>2. requests' \in 0..MaxRequests
    BY <1>4, OpenAssumption, SMTT(30) DEF Start, IInv, TypeOK
  <2> QED
    BY <1>5, <1>7, <2>1, <2>2 DEF IInv, TypeOK
<1>9. PoolsApart' /\ ListsLinked'
  BY <1>5, SMTT(30) DEF IInv, PoolsApart, ListsLinked, Live, StatesOf
<1>10. TableInv'
  BY <1>2, <1>5, <1>6 DEF IInv, TableInv, Live, Known, nfs4_BuildStateId_Other
<1> QED
  BY <1>2, <1>7, <1>8, <1>9, <1>10 DEF IInv
=============================================================================
