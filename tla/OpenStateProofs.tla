-------------------------- MODULE OpenStateProofs ---------------------------
(***************************************************************************)
(* The invariant of OpenStateInv is kept by cache_inode_del_state_by_key   *)
(* and so by every step, and what follows from it.                         *)
(***************************************************************************)
EXTENDS OpenStateAddProofs

(***************************************************************************)
(* The state that CLOSE deletes, and what the step writes.                 *)
(***************************************************************************)
Deleted(w) == thread[w].at

\* The state that CLOSE deletes has its stateid, so that the step under the lock
\* takes it off the list of its file and releases it.
LEMMA DeletedIsFound ==
    ASSUME IInv, NEW w \in Workers, DeleteLocked(w)
    PROVE  LET s == Deleted(w)
               f == state[s].pentry
               other == nfs4_BuildStateId_Other(thread[w].file, thread[w].owner)
           IN  /\ s \in States /\ Live(s) /\ other \in DOMAIN ht /\ s = ht[other]
               /\ state[s].other = other /\ thread[w].owner \in Known
               /\ state' = Unlink(w, s, TRUE)
               /\ head' = IF head[f] = s THEN [head EXCEPT ![f] = state[s].next] ELSE head
               /\ ht' = Restrict(ht, DOMAIN ht \ {other})
               /\ pool' = [pool EXCEPT ![w] = s] /\ lost' = lost \ {s}
<1> DEFINE other == nfs4_BuildStateId_Other(thread[w].file, thread[w].owner)
           s == Deleted(w)
           n == state[s].next
<1>0. thread[w].pc = "unlink"
  BY DEF DeleteLocked
<1>2. other \in DOMAIN ht /\ s = ht[other] /\ thread[w].owner \in Known
  BY <1>0, HandlerTyped DEF HandlerKnown, nfs4_BuildStateId_Other, Known, Deleted
<1>3. s \in States /\ Live(s) /\ state[s].other = other
  BY <1>2 DEF IInv, TypeOK, TableInv
<1>1. /\ state' = Unlink(w, s, TRUE) /\ ht' = Restrict(ht, DOMAIN ht \ {other})
      /\ pool' = [pool EXCEPT ![w] = s] /\ lost' = lost \ {s}
      /\ head' = IF head[thread[w].file] = s THEN [head EXCEPT ![thread[w].file] = n] ELSE head
  BY <1>2, <1>3 DEF DeleteLocked, Deleted
<1>10. thread[w].file = state[s].pentry
  BY <1>3 DEF IInv, TableInv, nfs4_BuildStateId_Other
<1> QED
  BY <1>1, <1>2, <1>3, <1>10

\* The two neighbours of the deleted state are joined.
LEMMA DeletedIsLive ==
    ASSUME IInv, NEW w \in Workers, DeleteLocked(w)
    PROVE  LET s == Deleted(w)
               n == state[s].next
               p == state[s].prev
               other == nfs4_BuildStateId_Other(thread[w].file, thread[w].owner)
           IN  /\ s \in States /\ Live(s) /\ s # NULL /\ state[s].pentry \in Files
               /\ other \in DOMAIN ht /\ ht[other] = s /\ state[s].other = other
               /\ thread[w].owner \in Known
               /\ n \in States \union {NULL} /\ p \in States \union {NULL}
               /\ state' \in [States -> StateRecord]
               /\ state'[s].pentry = NULL /\ state'[s].next = pool[w]
               /\ \A t \in States \ {s} :
                     /\ state'[t].pentry = state[t].pentry /\ state'[t].powner = state[t].powner
                     /\ state'[t].other = state[t].other
                     /\ state'[t].prev = IF t = n THEN p ELSE state[t].prev
                     /\ state'[t].next = IF t = p THEN n ELSE state[t].next
<1> DEFINE other == nfs4_BuildStateId_Other(thread[w].file, thread[w].owner)
           s == Deleted(w)
           n == state[s].next
           p == state[s].prev
<1>1. /\ s \in States /\ Live(s) /\ other \in DOMAIN ht /\ s = ht[other]
      /\ state[s].other = other /\ thread[w].owner \in Known
      /\ state' = Unlink(w, s, TRUE)
  BY DeletedIsFound
<1>2. other \in DOMAIN ht /\ s = ht[other] /\ thread[w].owner \in Known
  BY <1>1
<1>3. s \in States /\ Live(s) /\ state[s].other = other
  BY <1>1
<1>4. state \in [States -> StateRecord] /\ pool[w] \in States \union {NULL}
  BY DEF IInv, TypeOK
<1> HIDE DEF s, other
<1>5. /\ n \in States \union {NULL} /\ p \in States \union {NULL}
      /\ state[s].pentry \in Files /\ s # NULL
  BY <1>3, <1>4, OpenAssumption DEF StateRecord, Live
<1>6. state'[s] = [Blank EXCEPT !.next = pool[w]]
  BY <1>1, <1>3, Zenon DEF Unlink
<1>7. state'[s] \in StateRecord /\ state'[s].pentry = NULL /\ state'[s].next = pool[w]
  BY <1>4, <1>6 DEF Blank, StateRecord
<1>8. ASSUME NEW t \in States \ {s}
      PROVE  /\ state'[t] \in StateRecord
             /\ state'[t].pentry = state[t].pentry /\ state'[t].powner = state[t].powner
             /\ state'[t].other = state[t].other
             /\ state'[t].prev = IF t = n THEN p ELSE state[t].prev
             /\ state'[t].next = IF t = p THEN n ELSE state[t].next
  <2>1. state'[t] = [state[t] EXCEPT !.prev = IF t = n THEN p ELSE state[t].prev,
                                     !.next = IF t = p THEN n ELSE state[t].next]
    BY <1>1, <1>4, Zenon DEF Unlink, StateRecord
  <2>2. state[t] \in StateRecord
    BY <1>4
  <2> HIDE DEF n, p
  <2> QED
    BY <1>5, <2>1, <2>2, Zenon DEF StateRecord
<1>9. state' \in [States -> StateRecord]
  BY <1>1, <1>7, <1>8, Zenon DEF Unlink
<1> QED
  BY <1>2, <1>3, <1>5, <1>7, <1>8, <1>9 DEF s, other

\* The deleted state becomes the first of the pool of its worker and is in no other.
LEMMA DeletedPools ==
    ASSUME IInv, NEW w \in Workers, DeleteLocked(w)
    PROVE  PoolsApart' /\ pool' \in [Workers -> States \union {NULL}]
<1> DEFINE s == Deleted(w)
           p == state[s].prev
<1>1. /\ s \in States /\ Live(s) /\ s # NULL
      /\ state'[s].pentry = NULL /\ state'[s].next = pool[w]
      /\ \A t \in States \ {s} :
            /\ state'[t].pentry = state[t].pentry
            /\ state'[t].next = IF t = p THEN state[s].next ELSE state[t].next
  BY DeletedIsLive
<1>2. p \in States => Live(p)
  BY <1>1, OpenAssumption, SMTT(30) DEF IInv, ListsLinked, Live
<1>3. pool' = [pool EXCEPT ![w] = s] /\ fresh' = fresh
  BY DeletedIsFound DEF DeleteLocked
<1> HIDE DEF s, p
<1>4. /\ pool \in [Workers -> States \union {NULL}] /\ state \in [States -> StateRecord]
      /\ fresh \subseteq States
  BY DEF IInv, TypeOK
<1>5. /\ pool' \in [Workers -> States \union {NULL}] /\ pool'[w] = s
      /\ \A v \in Workers \ {w} : pool'[v] = pool[v]
  BY <1>1, <1>3, <1>4
<1>6. /\ \A t \in States : ~Live(t)' <=> ~Live(t) \/ t = s
      /\ \A t \in States : ~Live(t) => state'[t].next = state[t].next /\ t # s
  BY <1>1, <1>2 DEF Live
<1>7. s \notin fresh
  BY <1>1 DEF IInv, PoolsApart
<1>8. \A t \in fresh' : ~Live(t)'
  BY <1>3, <1>4, <1>6 DEF IInv, PoolsApart
<1>9. ASSUME NEW v \in Workers, pool[v] # NULL
      PROVE  pool[v] \in States \ {s} /\ ~Live(pool[v]) /\ pool[v] \notin fresh
  BY <1>1, <1>4, <1>9 DEF IInv, PoolsApart
<1>10. ASSUME NEW v \in Workers, pool'[v] # NULL PROVE ~Live(pool[v])' /\ pool'[v] \notin fresh
  BY <1>1, <1>5, <1>6, <1>7, <1>9, <1>10, SMTT(30)
<1>11. ASSUME NEW u \in Workers, NEW v \in Workers, pool'[u] = pool'[v], pool'[u] # NULL
       PROVE  u = v
  BY <1>1, <1>5, <1>9, <1>11, SMTT(30) DEF IInv, PoolsApart
<1>12. ASSUME NEW t \in States, ~Live(t), state[t].next # NULL
       PROVE  /\ state[t].next \in States \ {s} /\ ~Live(state[t].next)
              /\ state[t].next \notin fresh
              /\ \A v \in Workers : pool[v] # state[t].next
  <2>1. state[t].next \in States
    BY <1>4, <1>12 DEF StateRecord
  <2> QED
    BY <1>1, <1>12, <2>1 DEF IInv, PoolsApart
<1>13. ASSUME NEW t \in States, ~Live(t)', state'[t].next # NULL
       PROVE  /\ state'[t].next \in States \ {s} /\ ~Live(state[t].next)'
              /\ state'[t].next \notin fresh
              /\ \A v \in Workers : pool'[v] # state'[t].next
              /\ \A u \in States : ~Live(u)' /\ state'[u].next = state'[t].next => u = t
  <2>1. CASE t = s
    <3>1. state'[t].next = pool[w] /\ pool[w] \in States \ {s} /\ ~Live(pool[w]) /\ pool[w] \notin fresh
      BY <1>1, <1>9, <1>13, <2>1
    <3>2. \A v \in Workers : pool'[v] # pool[w]
      BY <1>5, <1>13, <3>1 DEF IInv, PoolsApart
    <3>3. \A u \in States : ~Live(u) => state[u].next # pool[w]
      BY <1>12, <3>1, OpenAssumption
    <3>4. \A u \in States : ~Live(u)' /\ state'[u].next = pool[w] => u = t
      BY <1>6, <2>1, <3>3
    <3>5. ~Live(state[t].next)'
      BY <1>6, <3>1
    <3> QED
      BY <3>1, <3>2, <3>4, <3>5
  <2>2. CASE t # s
    <3>1. ~Live(t) /\ state'[t].next = state[t].next
      BY <1>6, <1>13, <2>2
    <3>2. /\ state[t].next \in States \ {s} /\ ~Live(state[t].next)
          /\ state[t].next \notin fresh
          /\ \A v \in Workers : pool[v] # state[t].next
      BY <1>12, <1>13, <3>1
    <3>3. \A v \in Workers : pool'[v] # state[t].next
      BY <1>5, <3>2
    <3>4. ASSUME NEW u \in States, ~Live(u)', state'[u].next = state[t].next PROVE u = t
      <4>1. u # s
        BY <1>1, <3>2, <3>4
      <4>2. ~Live(u) /\ state[u].next = state[t].next
        BY <1>6, <3>4, <4>1
      <4> QED
        BY <1>13, <3>1, <4>2 DEF IInv, PoolsApart
    <3>5. ~Live(state[t].next)'
      BY <1>6, <3>1, <3>2
    <3> QED
      BY <3>1, <3>2, <3>3, <3>4, <3>5
  <2> QED
    BY <2>1, <2>2
<1> QED
  BY <1>3, <1>5, <1>8, <1>10, <1>11, <1>13 DEF PoolsApart

\* Without the deleted state the links of its list answer one another.
LEMMA DeletedLists ==
    ASSUME IInv, NEW w \in Workers, DeleteLocked(w)
    PROVE  ListsLinked' /\ head' \in [Files -> States \union {NULL}]
<1> DEFINE s == Deleted(w)
           f == state[s].pentry
           n == state[s].next
           p == state[s].prev
<1>1. /\ s \in States /\ Live(s) /\ s # NULL /\ f \in Files /\ f # NULL
      /\ n \in States \union {NULL} /\ p \in States \union {NULL}
      /\ state'[s].pentry = NULL
      /\ \A t \in States \ {s} :
            /\ state'[t].pentry = state[t].pentry
            /\ state'[t].prev = IF t = n THEN p ELSE state[t].prev
            /\ state'[t].next = IF t = p THEN n ELSE state[t].next
  <2>1. f \in Files /\ f # NULL
    BY DeletedIsLive, SMTT(30) DEF Live
  <2> QED
    BY <2>1, DeletedIsLive
<1>2. head' = IF head[f] = s THEN [head EXCEPT ![f] = n] ELSE head
  BY DeletedIsFound
<1>3. /\ n # NULL => state[n].pentry = f /\ state[n].prev = s
      /\ p # NULL => state[p].pentry = f /\ state[p].next = s
      /\ p = NULL => head[f] = s
      /\ head[f] = s => p = NULL
  <2> HIDE DEF s
  <2>1. ListsLinked
    BY DEF IInv
  <2>2. /\ n # NULL => state[n].pentry = f /\ state[n].prev = s
        /\ p # NULL => state[p].pentry = f /\ state[p].next = s
        /\ p = NULL => head[f] = s
    BY <1>1, <2>1 DEF ListsLinked
  <2>3. head[f] = s => p = NULL
    BY <1>1, <2>1 DEF ListsLinked
  <2> QED
    BY <2>2, <2>3
<1>4. state[s].pentry = f /\ state[s].next = n /\ state[s].prev = p
  OBVIOUS
<1> HIDE DEF s, f, n, p
<1>5. head \in [Files -> States \union {NULL}] /\ state \in [States -> StateRecord] /\ NULL \notin States
  BY OpenAssumption DEF IInv, TypeOK
<1>6. /\ head' \in [Files -> States \union {NULL}]
      /\ \A g \in Files : head'[g] = IF head[g] = s /\ g = f THEN n ELSE head[g]
  BY <1>1, <1>2, <1>5
<1>7. ASSUME NEW g \in Files, head'[g] # NULL
      PROVE  /\ state'[head'[g]].pentry = g
             /\ state'[head'[g]].prev = NULL
             /\ \E t \in StatesOf(g)' : state'[t].next = NULL
  <2>1. CASE head[g] = s /\ g = f
    <3>1. head'[g] = n /\ n # NULL /\ n \in States /\ p = NULL /\ n # s
      BY <1>1, <1>3, <1>4, <1>6, <1>7, <2>1, SMTT(30)
    <3>2. PICK t \in StatesOf(f) : state[t].next = NULL
      BY <1>1, <2>1 DEF IInv, ListsLinked
    <3>3. t \in States \ {s} /\ t # p
      BY <1>4, <1>5, <3>1, <3>2 DEF StatesOf
    <3>4. t \in StatesOf(g)' /\ state'[t].next = NULL
      BY <1>1, <2>1, <3>2, <3>3 DEF StatesOf
    <3> QED
      BY <1>1, <1>3, <2>1, <3>1, <3>4
  <2>2. CASE ~(head[g] = s /\ g = f)
    <3>1. head'[g] = head[g] /\ head[g] \in States /\ head[g] # NULL
      BY <1>5, <1>6, <1>7, <2>2
    <3>2. state[head[g]].pentry = g /\ state[head[g]].prev = NULL
      BY <3>1 DEF IInv, ListsLinked
    <3>3. head[g] \in States \ {s} /\ head[g] # n
      BY <1>1, <1>3, <1>4, <2>2, <3>1, <3>2
    <3>4. PICK t \in StatesOf(g) : state[t].next = NULL
      BY <3>1 DEF IInv, ListsLinked
    <3>5. \E q \in StatesOf(g)' : state'[q].next = NULL
      <4>1. CASE t = s
        <5>1. n = NULL /\ g = f /\ p # NULL /\ p \in States /\ p # s
          BY <1>1, <1>3, <1>4, <2>2, <3>4, <4>1 DEF StatesOf
        <5>2. p \in StatesOf(g)' /\ state'[p].next = NULL
          BY <1>1, <1>3, <5>1 DEF StatesOf
        <5> QED
          BY <5>2
      <4>2. CASE t # s
        <5>1. t \in States \ {s} /\ t # p
          BY <1>1, <1>3, <1>5, <3>4, <4>2 DEF StatesOf
        <5>2. t \in StatesOf(g)' /\ state'[t].next = NULL
          BY <1>1, <3>4, <5>1 DEF StatesOf
        <5> QED
          BY <5>2
      <4> QED
        BY <4>1, <4>2
    <3> QED
      BY <1>1, <3>1, <3>2, <3>3, <3>5
  <2> QED
    BY <2>1, <2>2
<1>8. ASSUME NEW t \in States, Live(t)'
      PROVE  /\ state'[t].prev = NULL => head'[state'[t].pentry] = t
             /\ state'[t].next # NULL => /\ state'[state'[t].next].pentry = state'[t].pentry
                                        /\ state'[state'[t].next].prev = t
             /\ state'[t].prev # NULL => /\ state'[state'[t].prev].pentry = state'[t].pentry
                                        /\ state'[state'[t].prev].next = t
  <2>1. t \in States \ {s} /\ Live(t) /\ state[t].pentry \in Files
        /\ state[t].next \in States \union {NULL} /\ state[t].prev \in States \union {NULL}
    BY <1>1, <1>5, <1>8, SMTT(30) DEF Live, StateRecord
  <2>2. /\ state[t].prev = NULL => head[state[t].pentry] = t
        /\ state[t].next # NULL => /\ state[state[t].next].pentry = state[t].pentry
                                  /\ state[state[t].next].prev = t
        /\ state[t].prev # NULL => /\ state[state[t].prev].pentry = state[t].pentry
                                  /\ state[state[t].prev].next = t
    BY <2>1 DEF IInv, ListsLinked
  <2>3. state'[t].prev = NULL => head'[state'[t].pentry] = t
    BY <1>1, <1>3, <1>5, <1>6, <2>1, <2>2
  <2>4. state'[t].next # NULL => /\ state'[state'[t].next].pentry = state'[t].pentry
                                 /\ state'[state'[t].next].prev = t
    <3>1. CASE t = p
      BY <1>1, <1>3, <1>4, <1>5, <2>1, <3>1, SMTT(30)
    <3>2. CASE t # p
      <4>1. state'[t].next = state[t].next
        BY <1>1, <2>1, <3>2, SMTT(30)
      <4>2. state[t].next # NULL => state[t].next \in States \ {s} /\ state[t].next # n
        BY <1>1, <1>3, <1>4, <2>1, <2>2, <3>2
      <4> QED
        BY <1>1, <2>1, <2>2, <4>1, <4>2
    <3> QED
      BY <3>1, <3>2
  <2>5. state'[t].prev # NULL => /\ state'[state'[t].prev].pentry = state'[t].pentry
                                 /\ state'[state'[t].prev].next = t
    <3>1. CASE t = n
      BY <1>1, <1>3, <1>4, <1>5, <2>1, <3>1, SMTT(30)
    <3>2. CASE t # n
      <4>1. state'[t].prev = state[t].prev
        BY <1>1, <2>1, <3>2, SMTT(30)
      <4>2. state[t].prev # NULL => state[t].prev \in States \ {s} /\ state[t].prev # p
        BY <1>1, <1>3, <1>4, <2>1, <2>2, <3>2, SMTT(30)
      <4> QED
        BY <1>1, <2>1, <2>2, <4>1, <4>2
    <3> QED
      BY <3>1, <3>2
  <2> QED
    BY <2>3, <2>4, <2>5
<1> QED
  BY <1>6, <1>7, <1>8 DEF ListsLinked

\* The deleted stateid leaves the table, and every other one still finds its state.
LEMMA DeletedTable ==
    ASSUME IInv, NEW w \in Workers, DeleteLocked(w)
    PROVE  /\ TableInv'
           /\ DOMAIN ht' \subseteq Files \X (0..(DigestMod - 1))
           /\ \A k \in DOMAIN ht' : ht'[k] \in States
<1> DEFINE s == Deleted(w)
           other == nfs4_BuildStateId_Other(thread[w].file, thread[w].owner)
<1>1. /\ s \in States /\ Live(s) /\ state'[s].pentry = NULL
      /\ other \in DOMAIN ht /\ ht[other] = s /\ state[s].other = other
      /\ \A t \in States \ {s} : /\ state'[t].pentry = state[t].pentry
                                 /\ state'[t].powner = state[t].powner
                                 /\ state'[t].other = state[t].other
  BY DeletedIsLive, SMTT(30)
<1>2. ht' = Restrict(ht, DOMAIN ht \ {other}) /\ lost' = lost \ {s} /\ counter' = counter
  BY DeletedIsFound DEF DeleteLocked, numbers
<1> HIDE DEF s, other
<1>3. DOMAIN ht' = DOMAIN ht \ {other} /\ \A k \in DOMAIN ht \ {other} : ht'[k] = ht[k]
  BY <1>2 DEF Restrict
<1>4. /\ DOMAIN ht' \subseteq Files \X (0..(DigestMod - 1))
      /\ \A k \in DOMAIN ht' : ht'[k] \in States
  BY <1>3 DEF IInv, TypeOK
<1>5. Known' = Known /\ \A g, q : nfs4_BuildStateId_Other(g, q)' = nfs4_BuildStateId_Other(g, q)
  BY <1>2 DEF Known, nfs4_BuildStateId_Other
<1>6. ASSUME NEW k \in DOMAIN ht' PROVE Live(ht[k])' /\ state'[ht'[k]].other = k
  <2>1. k \in DOMAIN ht /\ k # other /\ ht'[k] = ht[k]
    BY <1>3
  <2>2. ht[k] \in States /\ Live(ht[k]) /\ state[ht[k]].other = k
    BY <2>1, SMTT(30) DEF IInv, TypeOK, TableInv
  <2> QED
    BY <1>1, <2>1, <2>2 DEF Live
<1>7. ASSUME NEW t \in States, Live(t)'
      PROVE  /\ state'[t].powner \in Known
             /\ state'[t].other = nfs4_BuildStateId_Other(state'[t].pentry, state'[t].powner)
             /\ t \notin lost' => state'[t].other \in DOMAIN ht' /\ ht'[state'[t].other] = t
  <2>1. /\ t # s /\ Live(t) /\ state'[t].pentry = state[t].pentry
        /\ state'[t].powner = state[t].powner /\ state'[t].other = state[t].other
    BY <1>1, <1>7 DEF Live
  <2>2. /\ state[t].powner \in Known
        /\ state[t].other = nfs4_BuildStateId_Other(state[t].pentry, state[t].powner)
        /\ t \notin lost => state[t].other \in DOMAIN ht /\ ht[state[t].other] = t
    BY <2>1 DEF IInv, TableInv
  <2> QED
    BY <1>1, <1>2, <1>3, <2>1, <2>2, SMTT(30)
<1> QED
  BY <1>4, <1>5, <1>6, <1>7, SMTT(30) DEF TableInv

\* No other handler was about to delete the same stateid, since owners have one request each.
LEMMA DeletedHandlers ==
    ASSUME NoWrap, IInv, NEW w \in Workers, DeleteLocked(w)
    PROVE  HandlersKnown' /\ thread' \in [Workers -> Handler]
<1> DEFINE other == nfs4_BuildStateId_Other(thread[w].file, thread[w].owner)
<1>1. /\ thread' = [thread EXCEPT ![w] = Idle] /\ counter' = counter /\ stateid' = stateid
      /\ ht' = Restrict(ht, DOMAIN ht \ {other}) /\ thread[w].owner \in Known
  BY DeletedIsFound DEF DeleteLocked, Return, numbers
<1>2. thread \in [Workers -> Handler] /\ HandlersKnown
  BY DEF IInv, TypeOK
<1>3. /\ thread' \in [Workers -> Handler] /\ thread'[w] = Idle
      /\ \A v \in Workers \ {w} : thread'[v] = thread[v]
  BY <1>1, <1>2, IdleTyped
<1>8. thread[w].op = "close"
  BY <1>2 DEF HandlersKnown, HandlerKnown, DeleteLocked
<1>4. ASSUME NEW v \in Workers \ {w} PROVE HandlerKnown(thread[v], counter, ht')
  <2>1. HandlerKnown(thread[v], counter, ht)
    BY <1>2 DEF HandlersKnown
  <2>2. ASSUME thread[v].pc \in {"delete", "unlink"}
        PROVE  LET k == <<thread[v].file, counter[thread[v].owner] % DigestMod>>
               IN  k \in DOMAIN ht' /\ ht'[k] = ht[k]
    <3>1. thread[v].owner \in Known /\ thread[v].op = "close"
      BY <2>1, <2>2 DEF HandlerKnown, Known
    <3>2. thread[v].owner # thread[w].owner
      BY <1>2, <1>8, <3>1 DEF HandlersKnown
    <3>3. nfs4_BuildStateId_Other(thread[v].file, thread[v].owner) # other
      BY <1>1, <3>1, <3>2, StateidsDiffer DEF IInv
    <3>4. nfs4_BuildStateId_Other(thread[v].file, thread[v].owner) \in DOMAIN ht
      BY <2>1, <2>2 DEF HandlerKnown, nfs4_BuildStateId_Other
    <3> HIDE DEF other
    <3> QED
      BY <1>1, <3>3, <3>4 DEF Restrict, nfs4_BuildStateId_Other
  <2> QED
    BY <2>1, <2>2 DEF HandlerKnown
<1>5. \A v \in Workers : HandlerKnown(thread'[v], counter', ht')
  BY <1>1, <1>3, <1>4, IdleTyped
<1>6. ASSUME NEW u \in Workers, NEW v \in Workers,
             thread'[u].op \in {"open", "close"}, thread'[v].op \in {"open", "close"},
             thread'[u].owner = thread'[v].owner
      PROVE  u = v
  BY <1>2, <1>3, <1>6, IdleTyped DEF HandlersKnown
<1>7. \A p \in stateid' : p[1] \in Known'
  BY <1>1, <1>2 DEF HandlersKnown, Known
<1> QED
  BY <1>3, <1>5, <1>6, <1>7 DEF HandlersKnown

\* The step of cache_inode_del_state_by_key under the lock keeps the invariant.
LEMMA DelStep ==
    ASSUME NoWrap, IInv, NEW w \in Workers, DeleteLocked(w)
    PROVE  IInv'
<1>1. /\ counter' = counter /\ open_owner_counter' = open_owner_counter
      /\ exists' = exists /\ stateid' = stateid
      /\ requests' = requests /\ fresh' = fresh /\ lost' \subseteq lost
  BY SMTT(30) DEF DeleteLocked, numbers
<1>2. state' \in [States -> StateRecord]
  BY DeletedIsLive
<1>3. PoolsApart' /\ pool' \in [Workers -> States \union {NULL}]
  BY DeletedPools
<1>4. ListsLinked' /\ head' \in [Files -> States \union {NULL}]
  BY DeletedLists
<1>5. /\ TableInv' /\ DOMAIN ht' \subseteq Files \X (0..(DigestMod - 1))
      /\ \A k \in DOMAIN ht' : ht'[k] \in States
  BY DeletedTable
<1>6. HandlersKnown' /\ thread' \in [Workers -> Handler]
  BY DeletedHandlers
<1>7. Numbered'
  BY <1>1 DEF IInv, Numbered
<1>8. TypeOK'
  <2>1. open_owner_counter' \in Nat /\ counter' \in [Owners -> 0..open_owner_counter']
    BY <1>7 DEF Numbered
  <2>2. /\ exists' \subseteq Files /\ stateid' \subseteq Owners \X Files
        /\ requests' \in 0..MaxRequests /\ fresh' \subseteq States /\ lost' \subseteq States
    BY <1>1 DEF IInv, TypeOK
  <2> QED
    BY <1>2, <1>3, <1>4, <1>5, <1>6, <2>1, <2>2, Zenon DEF TypeOK
<1> QED
  BY <1>3, <1>4, <1>5, <1>6, <1>7, <1>8, SMTT(30) DEF IInv

-----------------------------------------------------------------------------
(***************************************************************************)
(* The numbers of the owners only grow.                                    *)
(***************************************************************************)
LEMMA NumbersGrow ==
    ASSUME open_owner_counter \in Nat, [Next]_vars
    PROVE  open_owner_counter' \in Nat /\ (NoWrap' => NoWrap)
<1>1. open_owner_counter \in Nat /\ DigestMod \in Nat
  BY OpenAssumption
<1>2. open_owner_counter' \in {open_owner_counter, open_owner_counter + 1}
  <2>1. CASE UNCHANGED vars
    BY <2>1 DEF vars, numbers
  <2>2. ASSUME NEW w \in Workers, NEW arg \in Opens, nfs4_op_open(w, arg)
        PROVE  open_owner_counter' \in {open_owner_counter, open_owner_counter + 1}
    BY <2>2 DEF nfs4_op_open, nfs_open_owner_Set, numbers
  <2>3. ASSUME NEW w \in Workers,
               \/ \E o \in Owners, f \in Files : nfs4_op_close(w, o, f)
               \/ \E arg \in Accesses : ReadOrWrite(w, arg)
               \/ cache_inode_create(w) \/ cache_inode_state_iterate(w) \/ Test(w)
               \/ cache_inode_add_state(w) \/ cache_inode_open_by_name(w)
               \/ cache_inode_del_state_by_key(w) \/ DeleteLocked(w) \/ cache_inode_rdwr(w)
        PROVE  UNCHANGED numbers
    BY <2>3, Zenon DEF nfs4_op_close, ReadOrWrite, cache_inode_create, cache_inode_state_iterate,
       Test, cache_inode_add_state, cache_inode_open_by_name, cache_inode_del_state_by_key,
       DeleteLocked, cache_inode_rdwr
  <2> QED
    BY <2>1, <2>2, <2>3 DEF Next, numbers
<1> QED
  BY <1>1, <1>2 DEF NoWrap

(***************************************************************************)
(* The invariant is inductive until the numbers go round.                  *)
(***************************************************************************)
THEOREM NextIInv == NoWrap /\ IInv /\ [Next]_vars => IInv'
<1> SUFFICES ASSUME NoWrap, IInv, [Next]_vars PROVE IInv'
  OBVIOUS
<1>1. CASE UNCHANGED vars
  <2>1. UNCHANGED <<states, numbers>> /\ Known' = Known
    BY <1>1 DEF vars, numbers, Known
  <2>2. TypeOK'
    BY <1>1 DEF vars, states, numbers, IInv, TypeOK
  <2>3. HandlersKnown'
    BY <1>1, <2>1 DEF vars, states, numbers, IInv, HandlersKnown
  <2> QED
    BY <2>1, <2>2, <2>3, StatesKept DEF IInv
<1>2. ASSUME NEW w \in Workers,
             \/ \E arg \in Opens : nfs4_op_open(w, arg)
             \/ \E o \in Owners, f \in Files : nfs4_op_close(w, o, f)
             \/ \E arg \in Accesses : ReadOrWrite(w, arg)
             \/ cache_inode_create(w)
             \/ cache_inode_state_iterate(w)
             \/ Test(w)
             \/ cache_inode_add_state(w)
             \/ cache_inode_open_by_name(w)
             \/ cache_inode_del_state_by_key(w)
             \/ DeleteLocked(w)
             \/ cache_inode_rdwr(w)
      PROVE  IInv'
  BY <1>2, OpenStep, CloseStep, ReadOrWriteStep, CreateStep, IterateStep, TestStep,
     AddStep, OpenByNameStep, LookupStep, DelStep, RdwrStep
<1> QED
  BY <1>1, <1>2 DEF Next

\* The invariant holds until the numbers of the owners go round.
THEOREM SpecIInv == Spec => [](NoWrap => IInv)
<1> DEFINE J == open_owner_counter \in Nat /\ (NoWrap => IInv)
<1>1. Init => J
  BY InitIInv DEF IInv, Numbered
<1>2. J /\ [Next]_vars => J'
  BY NextIInv, NumbersGrow
<1> QED
  BY <1>1, <1>2, PTL DEF Spec

(***************************************************************************)
(* cache_inode_state_t, the table of stateids and the local variables of   *)
(* the handlers keep their types, and no owner has a number that           *)
(* nfs_open_owner_Set has not given, until the numbers go round.           *)
(***************************************************************************)
THEOREM OpenTypes == Spec => [](NoWrap => TypeOK)
<1>1. IInv => TypeOK
  BY DEF IInv
<1> QED
  BY <1>1, SpecIInv, PTL

(***************************************************************************)
(* cache_inode_add_state and cache_inode_del_state_by_key keep the links   *)
(* of every list: the neighbours of a state are states of its file and     *)
(* point back to it, whatever other workers add and delete.                *)
(***************************************************************************)
THEOREM ListsStayLinked == Spec => [](NoWrap => ListsLinked)
<1>1. IInv => ListsLinked
  BY DEF IInv
<1> QED
  BY <1>1, SpecIInv, PTL

(***************************************************************************)
(* GET_PREALLOC never hands out a state that a file, another pool or       *)
(* another state of a pool still leads to.                                 *)
(***************************************************************************)
THEOREM PoolsStayApart == Spec => [](NoWrap => PoolsApart)
<1>1. IInv => PoolsApart
  BY DEF IInv
<1> QED
  BY <1>1, SpecIInv, PTL

\* Only cache_inode_state_iterate takes a handler from "iterate" to "test".
LEMMA OnlyIterateTests ==
    ASSUME TypeOK, Next, NEW w \in Workers,
           thread[w].pc = "iterate", thread'[w].pc = "test"
    PROVE  cache_inode_state_iterate(w)
<1>1. thread \in [Workers -> Handler] /\ Idle.pc = "idle"
  BY DEF TypeOK, Idle
<1>2. ASSUME NEW v \in Workers,
             \/ \E arg \in Opens : nfs4_op_open(v, arg)
             \/ \E o \in Owners, f \in Files : nfs4_op_close(v, o, f)
             \/ \E arg \in Accesses : ReadOrWrite(v, arg)
      PROVE  FALSE
  <2>1. PICK q : Start(v, q)
    BY <1>2, Zenon DEF nfs4_op_open, nfs4_op_close, ReadOrWrite
  <2> QED
    BY <1>1, <2>1 DEF Start
<1>3. ASSUME NEW v \in Workers, cache_inode_add_state(v)
      PROVE  FALSE
  <2>1. thread[v].pc = "add" /\ v # w
    BY <1>3 DEF cache_inode_add_state
  <2>2. CASE Return(v)
    BY <1>1, <2>1, <2>2 DEF Return
  <2>3. CASE \E q : thread' = [Grown(v, thread[v].file) EXCEPT ![v] = q]
    <3>1. thread'[w] = Grown(v, thread[v].file)[w]
      BY <2>1, <2>3, Zenon DEF Grown
    <3>2. Grown(v, thread[v].file)[w] \in {thread[w], [thread[w] EXCEPT !.stale = TRUE]}
      BY DEF Grown
    <3> QED
      BY <1>1, <3>1, <3>2 DEF Handler
  <2> QED
    BY <1>3, <2>2, <2>3, Zenon DEF cache_inode_add_state
<1>4. ASSUME NEW v \in Workers,
             \/ cache_inode_create(v) \/ Test(v) \/ cache_inode_open_by_name(v)
             \/ cache_inode_del_state_by_key(v) \/ DeleteLocked(v) \/ cache_inode_rdwr(v)
             \/ (cache_inode_state_iterate(v) /\ v # w)
      PROVE  FALSE
  <2>1. v # w
    BY <1>4 DEF cache_inode_create, Test, cache_inode_open_by_name,
       cache_inode_del_state_by_key, DeleteLocked, cache_inode_rdwr
  <2>2. \E q : thread' = [thread EXCEPT ![v] = q]
    BY <1>4, Zenon DEF cache_inode_create, Test, cache_inode_open_by_name, Goto, Return,
       cache_inode_del_state_by_key, DeleteLocked, cache_inode_rdwr, cache_inode_state_iterate
  <2> QED
    BY <1>1, <2>1, <2>2
<1> QED
  BY <1>2, <1>3, <1>4 DEF Next

(***************************************************************************)
(* A scan never leaves the list of its file, although the state it stands  *)
(* on may be released and used again between two calls of                  *)
(* cache_inode_state_iterate.                                              *)
(***************************************************************************)
THEOREM ScansStayInFile == Spec => ScanStaysInFile
<1> DEFINE Stays == NoWrap => \A w \in Workers :
                      (thread[w].pc = "iterate" /\ thread'[w].pc = "test")
                          => state[thread'[w].at].pentry = thread[w].file
<1>1. (NoWrap => IInv) /\ [Next]_vars => [Stays]_vars
  <2> SUFFICES ASSUME NoWrap, IInv, Next, NEW w \in Workers,
                      thread[w].pc = "iterate", thread'[w].pc = "test"
               PROVE  state[thread'[w].at].pentry = thread[w].file
    OBVIOUS
  <2> DEFINE r == thread[w]
             next == IF r.at = NULL THEN head[r.file] ELSE state[r.at].next
  <2>1. r \in Handler /\ HandlerKnown(r, counter, ht)
    BY HandlerTyped
  <2>2. thread \in [Workers -> Handler]
    BY DEF IInv, TypeOK
  <2>5. cache_inode_state_iterate(w)
    BY <2>2, OnlyIterateTests DEF IInv
  <2>6. thread'[w] = IF r.at # NULL /\ state[r.at].pentry # r.file
                     THEN [ScanEnd(w) EXCEPT !.stale = ScanEnd(w) # Idle]
                     ELSE IF next = NULL THEN [ScanEnd(w) EXCEPT !.stale = r.at # NULL /\ @]
                     ELSE [r EXCEPT !.pc = "test", !.at = next, !.stale = r.at # NULL /\ @]
    BY <2>2, <2>5, Zenon DEF cache_inode_state_iterate
  <2>7. ASSUME NEW b PROVE [ScanEnd(w) EXCEPT !.stale = b].pc # "test"
    <3>1. ScanEnd(w) \in {Idle} \union
             {[[r EXCEPT !.at = NULL] EXCEPT !.pc = l] : l \in {"add", "open", "rdwr"}}
      BY Zenon DEF ScanEnd
    <3>2. ASSUME NEW l \in {"add", "open", "rdwr"}
          PROVE  LET q == [[r EXCEPT !.at = NULL] EXCEPT !.pc = l]
                 IN  q \in Handler /\ q.pc # "test"
      BY <2>1, <3>2, Zenon DEF Handler
    <3>3. Idle \in Handler /\ Idle.pc # "test"
      BY IdleTyped DEF Idle
    <3>4. ScanEnd(w) \in Handler /\ ScanEnd(w).pc # "test"
      BY <3>1, <3>2, <3>3
    <3> QED
      BY <3>4, Zenon DEF Handler
  <2>8. /\ r.at = NULL \/ state[r.at].pentry = r.file
        /\ next # NULL /\ thread'[w].at = next
    BY <2>1, <2>6, <2>7 DEF Handler
  <2>9. r.file \in Files /\ r.at \in States \union {NULL} /\ r.file # NULL
    BY <2>1, OpenAssumption DEF HandlerKnown, Handler
  <2>3. CASE r.at = NULL
    BY <2>3, <2>8, <2>9 DEF IInv, ListsLinked
  <2>4. CASE r.at # NULL
    BY <2>4, <2>8, <2>9 DEF IInv, ListsLinked, Live
  <2> QED
    BY <2>3, <2>4
<1> QED
  BY <1>1, SpecIInv, PTL DEF Spec, ScanStaysInFile

(***************************************************************************)
(* Until the numbers of the owners go round, a stateid finds the state of  *)
(* its owner and file and no other, for any number of workers, files,      *)
(* states and owners: CLOSE, READ and WRITE of one owner never act on the  *)
(* state of another (nfs4_BuildStateId_Other, nfs4_State_Set,              *)
(* nfs4_State_Del).                                                        *)
(***************************************************************************)
THEOREM StateidsExact == Spec => []TableExact
<1>1. ASSUME NoWrap, IInv PROVE TableExact
  <2>1. \A k \in DOMAIN ht : Live(ht[k]) /\ state[ht[k]].other = k /\ ht[k] \in States
    BY <1>1 DEF IInv, TypeOK, TableInv
  <2>2. ASSUME NEW o \in Owners, NEW f \in Files,
               counter[o] # 0, nfs4_State_Get_Pointer(nfs4_BuildStateId_Other(f, o)) # NULL
        PROVE  LET s == nfs4_State_Get_Pointer(nfs4_BuildStateId_Other(f, o))
               IN  state[s].powner = o /\ state[s].pentry = f
    <3> DEFINE s == nfs4_State_Get_Pointer(nfs4_BuildStateId_Other(f, o))
    <3>1. s \in States /\ Live(s) /\ state[s].other = nfs4_BuildStateId_Other(f, o)
      BY <2>1, <2>2 DEF nfs4_State_Get_Pointer
    <3>2. /\ state[s].powner \in Known /\ o \in Known
          /\ state[s].other = nfs4_BuildStateId_Other(state[s].pentry, state[s].powner)
      BY <1>1, <2>2, <3>1 DEF IInv, TableInv, Known
    <3> HIDE DEF s
    <3>3. nfs4_BuildStateId_Other(state[s].pentry, state[s].powner) = nfs4_BuildStateId_Other(f, o)
      BY <3>1, <3>2
    <3>4. Numbered
      BY <1>1 DEF IInv
    <3>5. state[s].pentry = f /\ state[s].powner = o
      BY <3>2, <3>3, <3>4, <1>1, StateidsDiffer
    <3> QED
      BY <3>5 DEF s
  <2>3. \A s \in States : Live(s) /\ s \notin lost => nfs4_State_Get_Pointer(state[s].other) = s
    BY <1>1 DEF IInv, TableInv, nfs4_State_Get_Pointer
  <2> QED
    BY <2>1, <2>2, <2>3 DEF TableExact
<1>2. (NoWrap => IInv) => TableExact
  BY <1>1 DEF TableExact
<1> QED
  BY <1>2, SpecIInv, PTL
=============================================================================
