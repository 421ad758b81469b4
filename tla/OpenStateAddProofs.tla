------------------------- MODULE OpenStateAddProofs -------------------------
(***************************************************************************)
(* The invariant of OpenStateInv is kept by cache_inode_add_state, which   *)
(* takes a state from the pool of the worker, links it at the end of the   *)
(* file's list and enters it into the table.                               *)
(***************************************************************************)
EXTENDS OpenStateInv

(***************************************************************************)
(* GET_PREALLOC finds a state of no file to which no state, list or other  *)
(* pool leads.                                                             *)
(***************************************************************************)
LEMMA AllocatedIsFree ==
    ASSUME IInv, NEW w \in Workers, NEW s \in Allocated(w)
    PROVE  /\ s \in States /\ ~Live(s) /\ s # NULL
           /\ \A t \in States : state[t].next # s /\ (Live(t) => state[t].prev # s)
           /\ \A f \in Files : head[f] # s
           /\ \A v \in Workers \ {w} : pool[v] # s
<1>1. s \in States /\ ~Live(s) /\ (pool[w] = s \/ s \in fresh)
  BY DEF Allocated, IInv, TypeOK, PoolsApart
<1>2. s # NULL
  BY <1>1, OpenAssumption
<1>3. \A v \in Workers \ {w} : pool[v] # s
  BY <1>1, <1>2 DEF IInv, PoolsApart
<1>4. \A f \in Files : head[f] # s
  BY <1>1, <1>2, OpenAssumption DEF IInv, ListsLinked, Live
<1>5. ASSUME NEW t \in States, ~Live(t) PROVE state[t].next # s
  BY <1>1, <1>2, <1>5 DEF IInv, PoolsApart
<1>6. ASSUME NEW t \in States, Live(t) PROVE state[t].next # s /\ state[t].prev # s
  BY <1>1, <1>2, <1>6 DEF IInv, ListsLinked, Live
<1> QED
  BY <1>1, <1>2, <1>3, <1>4, <1>5, <1>6

(***************************************************************************)
(* The state after which cache_inode_add_state puts the new one.           *)
(***************************************************************************)
Last(f) == IF head[f] = NULL THEN NULL ELSE Tail(f)

\* Tail finds the state without a next one, if the list has any state.
LEMMA LastIsLast ==
    ASSUME IInv, NEW f \in Files, head[f] # NULL
    PROVE  Last(f) \in States /\ state[Last(f)].pentry = f /\ state[Last(f)].next = NULL
<1>1. \E s \in StatesOf(f) : state[s].next = NULL
  BY DEF IInv, ListsLinked
<1>2. Tail(f) \in StatesOf(f) /\ state[Tail(f)].next = NULL
  BY <1>1 DEF Tail
<1> QED
  BY <1>2 DEF Last, StatesOf

(***************************************************************************)
(* What the step does to states, lists, pools and table when it adds s.    *)
(***************************************************************************)
Added(w, s) ==
    LET r == thread[w]
        f == r.file
        o == r.owner
        other == nfs4_BuildStateId_Other(f, o)
    IN
    /\ Allocate(w, s)
    /\ head' = IF Last(f) = NULL THEN [head EXCEPT ![f] = s] ELSE head
    /\ state' = [t \in States |->
          IF t = s THEN [pentry |-> f, powner |-> o, access |-> r.access,
                         deny |-> r.deny, other |-> other,
                         verifier |-> IF r.how = "EXCLUSIVE4" THEN o ELSE NULL,
                         next |-> NULL, prev |-> Last(f)]
          ELSE IF t = Last(f) THEN [state[t] EXCEPT !.next = s]
          ELSE state[t]]
    /\ \/ /\ ht' = [k \in DOMAIN ht \union {other} |-> IF k = other THEN s ELSE ht[k]]
          /\ lost' = lost \union ({nfs4_State_Get_Pointer(other)} \ {NULL})
          /\ thread' = [Grown(w, f) EXCEPT ![w].pc = "open"]
       \/ /\ ht' = ht
          /\ lost' = lost \union {s}
          /\ thread' = [Grown(w, f) EXCEPT ![w] = Idle]

\* cache_inode_add_state adds a state it allocated, or fails and leaves all states alone.
LEMMA AddAdds ==
    ASSUME NEW w \in Workers, cache_inode_add_state(w)
    PROVE  \/ thread' = [thread EXCEPT ![w] = Idle] /\ UNCHANGED states
           \/ \E s \in Allocated(w) : Added(w, s)
BY Zenon DEF cache_inode_add_state, Added, Last, Return

(***************************************************************************)
(* The records that the step writes.                                       *)
(***************************************************************************)
LEMMA AddedStates ==
    ASSUME IInv, NEW w \in Workers, thread[w].pc = "add", NEW s \in Allocated(w), Added(w, s)
    PROVE  LET f == thread[w].file
               o == thread[w].owner
           IN  /\ state' \in [States -> StateRecord] /\ f \in Files /\ o \in Known
               /\ state'[s].pentry = f /\ state'[s].powner = o
               /\ state'[s].other = nfs4_BuildStateId_Other(f, o)
               /\ state'[s].next = NULL /\ state'[s].prev = Last(f)
               /\ \A t \in States \ {s} :
                     /\ state'[t].pentry = state[t].pentry /\ state'[t].powner = state[t].powner
                     /\ state'[t].other = state[t].other /\ state'[t].prev = state[t].prev
                     /\ state'[t].next = IF t = Last(f) THEN s ELSE state[t].next
               /\ Last(f) = NULL <=> head[f] = NULL
               /\ Last(f) # s
<1> DEFINE f == thread[w].file
           o == thread[w].owner
<1>1. /\ thread[w] \in Handler /\ f \in Files /\ o \in Known /\ o \in Owners
  BY HandlerTyped, Zenon DEF HandlerKnown, Known
<1>2. s \in States /\ ~Live(s) /\ s # NULL
  BY AllocatedIsFree
<1>3. nfs4_BuildStateId_Other(f, o) \in Files \X (0..(DigestMod - 1))
  BY <1>1, OpenAssumption DEF nfs4_BuildStateId_Other, IInv, Numbered
<1>4. /\ Last(f) \in States \union {NULL} /\ (Last(f) = NULL <=> head[f] = NULL)
      /\ Last(f) # s
  BY <1>1, <1>2, LastIsLast, OpenAssumption DEF Last, Live
<1>5. state \in [States -> StateRecord]
  BY DEF IInv, TypeOK
<1> HIDE DEF f, o
<1>6. \A t \in States \ {s} : state'[t] = IF t = Last(f) THEN [state[t] EXCEPT !.next = s]
                                        ELSE state[t]
  BY <1>2 DEF Added, f
<1>7. state'[s] = [pentry |-> f, powner |-> o, access |-> thread[w].access,
                   deny |-> thread[w].deny, other |-> nfs4_BuildStateId_Other(f, o),
                   verifier |-> IF thread[w].how = "EXCLUSIVE4" THEN o ELSE NULL,
                   next |-> NULL, prev |-> Last(f)]
  BY <1>2 DEF Added, f, o
<1>8. state'[s] \in StateRecord
  BY <1>1, <1>3, <1>4, <1>7 DEF StateRecord, Handler
<1>9. \A t \in States \ {s} :
         /\ state'[t] \in StateRecord
         /\ state'[t].pentry = state[t].pentry /\ state'[t].powner = state[t].powner
         /\ state'[t].other = state[t].other /\ state'[t].prev = state[t].prev
         /\ state'[t].next = IF t = Last(f) THEN s ELSE state[t].next
  <2> SUFFICES ASSUME NEW t \in States \ {s}
               PROVE  /\ state'[t] \in StateRecord
                      /\ state'[t].pentry = state[t].pentry /\ state'[t].powner = state[t].powner
                      /\ state'[t].other = state[t].other /\ state'[t].prev = state[t].prev
                      /\ state'[t].next = IF t = Last(f) THEN s ELSE state[t].next
    OBVIOUS
  <2>1. state[t] \in StateRecord
    BY <1>5
  <2>2. CASE t = Last(f)
    <3>1. state'[t] = [state[t] EXCEPT !.next = s]
      BY <1>6, <2>2
    <3> QED
      BY <1>2, <2>1, <2>2, <3>1 DEF StateRecord
  <2>3. CASE t # Last(f)
    BY <1>6, <2>1, <2>3, Zenon
  <2> QED
    BY <2>2, <2>3
<1>10. state' \in [States -> StateRecord]
  <2>1. DOMAIN state' = States /\ state' = [t \in DOMAIN state' |-> state'[t]]
    BY DEF Added
  <2> QED
    BY <1>8, <1>9, <2>1
<1> QED
  BY <1>1, <1>4, <1>7, <1>9, <1>10 DEF f, o

\* After the addition the pools lead to free states only, one of them shorter.
LEMMA AddedPools ==
    ASSUME IInv, NEW w \in Workers, thread[w].pc = "add", NEW s \in Allocated(w), Added(w, s)
    PROVE  PoolsApart' /\ pool' \in [Workers -> States \union {NULL}] /\ fresh' \subseteq States
<1> DEFINE f == thread[w].file
<1>1. /\ s \in States /\ ~Live(s) /\ s # NULL
      /\ \A t \in States : state[t].next # s
      /\ \A v \in Workers \ {w} : pool[v] # s
  BY AllocatedIsFree
<1>2. f \in Files /\ f # NULL /\ (Last(f) # NULL => Last(f) \in States /\ Live(Last(f)))
  BY AddedStates, LastIsLast, OpenAssumption DEF Live
<1>3. /\ Live(s)'
      /\ \A t \in States : ~Live(t)' <=> ~Live(t) /\ t # s
      /\ \A t \in States : ~Live(t)' => state'[t].next = state[t].next
  <2>1. /\ state'[s].pentry = f
        /\ \A t \in States \ {s} : /\ state'[t].pentry = state[t].pentry
                                   /\ state'[t].next = IF t = Last(f) THEN s ELSE state[t].next
    BY AddedStates
  <2> HIDE DEF f
  <2>2. Live(s)'
    BY <1>2, <2>1 DEF Live
  <2>3. ASSUME NEW t \in States, t # s
        PROVE  /\ Live(t)' <=> Live(t)
               /\ ~Live(t) => state'[t].next = state[t].next
    <3>1. t \in States \ {s} /\ t # NULL
      BY <2>3, OpenAssumption
    <3> QED
      BY <1>2, <2>1, <3>1 DEF Live
  <2> QED
    BY <1>1, <2>2, <2>3
<1>4. pool \in [Workers -> States \union {NULL}] /\ state[s].next \in States \union {NULL}
      /\ fresh \subseteq States
  BY <1>1 DEF IInv, TypeOK, StateRecord
<1> HIDE DEF f
<1>5. CASE pool[w] # NULL
  <2>1. pool[w] = s /\ fresh' = fresh /\ pool' = [pool EXCEPT ![w] = state[s].next]
    BY <1>5 DEF Allocated, Added, Allocate
  <2>2. pool'[w] = state[s].next /\ \A v \in Workers \ {w} : pool'[v] = pool[v]
    BY <2>1, <1>4
  <2>3. s \notin fresh
    BY <2>1, <1>1 DEF IInv, PoolsApart
  <2>4. \A t \in fresh' : ~Live(t)'
    BY <2>1, <2>3, <1>3, <1>4 DEF IInv, PoolsApart
  <2>5. ASSUME NEW v \in Workers, pool'[v] # NULL
        PROVE  ~Live(pool[v])' /\ pool'[v] \in States /\ pool'[v] # s /\ ~Live(pool'[v]) /\ pool'[v] \notin fresh
    BY <2>1, <2>2, <2>5, <1>1, <1>3, <1>4 DEF IInv, PoolsApart
  <2>6. ASSUME NEW u \in Workers, NEW v \in Workers, pool'[u] = pool'[v], pool'[u] # NULL
        PROVE  u = v
    BY <2>1, <2>2, <2>6, <1>1, <1>4 DEF IInv, PoolsApart
  <2>7. ASSUME NEW t \in States, ~Live(t)', state'[t].next # NULL
        PROVE  /\ state'[t].next = state[t].next /\ ~Live(t) /\ t # s
               /\ state[t].next \in States \ {s} /\ ~Live(state[t].next)
               /\ state[t].next \notin fresh
               /\ \A v \in Workers : pool'[v] # state[t].next
               /\ \A u \in States : ~Live(u)' /\ state'[u].next = state[t].next => u = t
    <3>1. ~Live(t) /\ t # s /\ state'[t].next = state[t].next /\ state[t].next # NULL
      BY <2>7, <1>3
    <3>2. state[t].next \in States
      BY <3>1 DEF IInv, TypeOK, StateRecord
    <3> QED
      BY <3>1, <3>2, <2>1, <2>2, <1>1, <1>3 DEF IInv, PoolsApart
  <2>8. \A t \in States : ~Live(t)' /\ state'[t].next # NULL => ~Live(state[t].next)'
    BY <2>7, <1>3
  <2> QED
    BY <2>1, <2>4, <2>5, <2>6, <2>7, <2>8, <1>4 DEF PoolsApart
<1>6. CASE pool[w] = NULL
  <2>1. s \in fresh /\ fresh' = fresh \ {s} /\ pool' = pool
    BY <1>6 DEF Allocated, Added, Allocate
  <2>2. ASSUME NEW t \in States, ~Live(t)', state'[t].next # NULL
        PROVE  /\ state'[t].next = state[t].next /\ ~Live(t)
               /\ state[t].next \in States \ {s} /\ ~Live(state[t].next)
    <3>1. ~Live(t) /\ t # s /\ state'[t].next = state[t].next /\ state[t].next # NULL
      BY <2>2, <1>3
    <3>2. state[t].next \in States
      BY <3>1 DEF IInv, TypeOK, StateRecord
    <3> QED
      BY <3>1, <3>2, <1>1 DEF IInv, PoolsApart
  <2>3. \A t \in States : ~Live(t)' /\ state'[t].next # NULL => ~Live(state[t].next)'
    BY <2>2, <1>3
  <2>4. \A v \in Workers : pool'[v] # NULL => pool[v] \in States \ {s}
    BY <2>1, <1>1, <1>4, <1>6
  <2>5. \A v \in Workers : pool'[v] # NULL => ~Live(pool[v])'
    BY <2>1, <2>4, <1>3 DEF IInv, PoolsApart
  <2> QED
    BY <2>1, <2>2, <2>3, <2>5, <1>3, <1>4 DEF IInv, PoolsApart
<1> QED
  BY <1>5, <1>6

\* The new state is linked behind the last one, and every link is answered.
LEMMA AddedLists ==
    ASSUME IInv, NEW w \in Workers, thread[w].pc = "add", NEW s \in Allocated(w), Added(w, s)
    PROVE  ListsLinked' /\ head' \in [Files -> States \union {NULL}]
<1> DEFINE f == thread[w].file
           last == Last(f)
<1>1. /\ s \in States /\ ~Live(s) /\ s # NULL
      /\ \A t \in States : state[t].next # s /\ (Live(t) => state[t].prev # s)
      /\ \A g \in Files : head[g] # s
  BY AllocatedIsFree, SMTT(30)
<1>2. /\ f \in Files /\ f # NULL
      /\ head[f] # NULL => /\ last \in States /\ last # NULL /\ last # s
                          /\ state[last].pentry = f /\ state[last].next = NULL
      /\ head[f] = NULL => last = NULL
  BY AddedStates, LastIsLast, OpenAssumption DEF Last
<1>3. /\ state'[s].pentry = f /\ state'[s].next = NULL /\ state'[s].prev = last
      /\ \A t \in States \ {s} : /\ state'[t].pentry = state[t].pentry
                                 /\ state'[t].prev = state[t].prev
                                 /\ state'[t].next = IF t = last THEN s ELSE state[t].next
  BY AddedStates
<1>4. head' = IF last = NULL THEN [head EXCEPT ![f] = s] ELSE head
  BY DEF Added
<1> HIDE DEF f, last
<1>5. head \in [Files -> States \union {NULL}] /\ state \in [States -> StateRecord]
  BY DEF IInv, TypeOK
<1>6. /\ head' \in [Files -> States \union {NULL}]
      /\ \A g \in Files : head'[g] = IF g = f /\ head[f] = NULL THEN s ELSE head[g]
  BY <1>1, <1>2, <1>4, <1>5, OpenAssumption
<1>7. ASSUME NEW g \in Files, head'[g] # NULL
      PROVE  /\ state'[head'[g]].pentry = g
             /\ state'[head'[g]].prev = NULL
             /\ \E t \in StatesOf(g)' : state'[t].next = NULL
  <2>1. CASE g = f
    <3>1. s \in StatesOf(g)' /\ state'[s].next = NULL
      BY <1>1, <1>3, <2>1 DEF StatesOf
    <3>2. CASE head[f] = NULL
      BY <1>2, <1>3, <1>6, <2>1, <3>1, <3>2, SMTT(30)
    <3>3. CASE head[f] # NULL
      <4>1. head'[g] = head[g] /\ head[g] \in States \ {s}
        BY <1>1, <1>5, <1>6, <2>1, <3>3
      <4> QED
        BY <1>3, <3>1, <4>1, <1>7 DEF IInv, ListsLinked
    <3> QED
      BY <3>2, <3>3
  <2>2. CASE g # f
    <3>1. head'[g] = head[g] /\ head[g] \in States \ {s}
      BY <1>1, <1>5, <1>6, <1>7, <2>2
    <3>2. PICK t \in StatesOf(g) : state[t].next = NULL
      BY <3>1, <1>7 DEF IInv, ListsLinked
    <3>3. t \in States \ {s} /\ t # last /\ g # NULL
      BY <1>1, <1>2, <2>2, OpenAssumption DEF StatesOf, Live
    <3>4. t \in StatesOf(g)' /\ state'[t].next = NULL
      BY <1>3, <3>2, <3>3 DEF StatesOf
    <3> QED
      BY <1>3, <3>1, <3>4, <1>7 DEF IInv, ListsLinked
  <2> QED
    BY <2>1, <2>2
<1>8. ASSUME NEW t \in States, Live(t)'
      PROVE  /\ state'[t].prev = NULL => head'[state'[t].pentry] = t
             /\ state'[t].next # NULL => /\ state'[state'[t].next].pentry = state'[t].pentry
                                        /\ state'[state'[t].next].prev = t
             /\ state'[t].prev # NULL => /\ state'[state'[t].prev].pentry = state'[t].pentry
                                        /\ state'[state'[t].prev].next = t
  <2>1. CASE t = s
    BY <2>1, <1>1, <1>2, <1>3, <1>6
  <2>2. CASE t # s
    <3>1. /\ Live(t) /\ t \in States \ {s} /\ t # NULL /\ state[t].pentry \in Files
          /\ state[t].next \in States \union {NULL} /\ state[t].prev \in States \union {NULL}
      BY <2>2, <1>3, <1>5, <1>8, OpenAssumption DEF Live, StateRecord
    <3>2. state[t].next # s /\ state[t].prev # s
      BY <1>1, <3>1, SMTT(30)
    <3>3. state'[t].prev = NULL => head'[state'[t].pentry] = t
      BY <3>1, <1>1, <1>2, <1>3, <1>6, SMTT(30) DEF IInv, ListsLinked
    <3>4. state'[t].next # NULL => /\ state'[state'[t].next].pentry = state'[t].pentry
                                   /\ state'[state'[t].next].prev = t
      <4>1. CASE t = last
        BY <4>1, <3>1, <1>1, <1>2, <1>3, SMTT(30)
      <4>2. CASE t # last
        BY <4>2, <3>1, <3>2, <1>1, <1>3, SMTT(30) DEF IInv, ListsLinked
      <4> QED
        BY <4>1, <4>2
    <3>5. state'[t].prev # NULL => /\ state'[state'[t].prev].pentry = state'[t].pentry
                                   /\ state'[state'[t].prev].next = t
      <4>1. state'[t].prev = state[t].prev
        BY <3>1, <1>3
      <4>2. state[t].prev # NULL => state[t].prev # last
        BY <3>1, <1>2 DEF IInv, ListsLinked
      <4> QED
        BY <4>1, <4>2, <3>1, <3>2, <1>3, SMTT(30) DEF IInv, ListsLinked
    <3> QED
      BY <3>3, <3>4, <3>5
  <2> QED
    BY <2>1, <2>2
<1> QED
  BY <1>6, <1>7, <1>8 DEF ListsLinked

\* Under the new stateid the table has the new state, or what it had if nfs4_State_Set failed.
LEMMA AddedTable ==
    ASSUME IInv, NEW w \in Workers, thread[w].pc = "add", NEW s \in Allocated(w), Added(w, s),
           counter' = counter
    PROVE  /\ TableInv' /\ lost' \subseteq States
           /\ \A k \in DOMAIN ht :
                 /\ k \in DOMAIN ht'
                 /\ ht'[k] = ht[k] \/ k = nfs4_BuildStateId_Other(thread[w].file, thread[w].owner)
           /\ DOMAIN ht' \subseteq Files \X (0..(DigestMod - 1))
           /\ \A k \in DOMAIN ht' : ht'[k] \in States
<1> DEFINE f == thread[w].file
           o == thread[w].owner
           other == nfs4_BuildStateId_Other(f, o)
<1>1. s \in States /\ ~Live(s)
  BY AllocatedIsFree, SMTT(30)
<1>2. /\ state'[s].pentry = f /\ state'[s].powner = o /\ state'[s].other = other
      /\ state' \in [States -> StateRecord] /\ o \in Known /\ f \in Files /\ f # NULL
      /\ \A t \in States \ {s} : /\ state'[t].pentry = state[t].pentry
                                 /\ state'[t].powner = state[t].powner
                                 /\ state'[t].other = state[t].other
  BY AddedStates, OpenAssumption
<1>3. \/ /\ ht' = [k \in DOMAIN ht \union {other} |-> IF k = other THEN s ELSE ht[k]]
         /\ lost' = lost \union ({nfs4_State_Get_Pointer(other)} \ {NULL})
      \/ ht' = ht /\ lost' = lost \union {s}
  BY SMTT(30) DEF Added
<1>4. other \in Files \X (0..(DigestMod - 1))
  BY <1>1, <1>2, OpenAssumption DEF nfs4_BuildStateId_Other, IInv, Numbered, Known
<1>5. Known' = Known /\ \A g, p : nfs4_BuildStateId_Other(g, p)' = nfs4_BuildStateId_Other(g, p)
  BY DEF Known, nfs4_BuildStateId_Other
<1>6. /\ DOMAIN ht \subseteq Files \X (0..(DigestMod - 1)) /\ lost \subseteq States
      /\ \A k \in DOMAIN ht : ht[k] \in States \ {s} /\ Live(ht[k]) /\ state[ht[k]].other = k
  BY <1>1 DEF IInv, TypeOK, TableInv
<1> HIDE DEF f, o, other
<1>7. /\ lost' \subseteq States
      /\ \A k \in DOMAIN ht : k \in DOMAIN ht' /\ (ht'[k] = ht[k] \/ k = other)
      /\ DOMAIN ht' \subseteq Files \X (0..(DigestMod - 1))
      /\ \A k \in DOMAIN ht' : ht'[k] \in States
  BY <1>1, <1>3, <1>4, <1>6 DEF nfs4_State_Get_Pointer
<1>8. ASSUME NEW k \in DOMAIN ht' PROVE Live(ht[k])' /\ state'[ht'[k]].other = k
  <2>1. CASE ht'[k] = s /\ k = other
    BY <1>2, <2>1 DEF Live
  <2>2. CASE k \in DOMAIN ht /\ ht'[k] = ht[k]
    BY <1>2, <1>6, <2>2 DEF Live
  <2> QED
    BY <1>3, <2>1, <2>2
<1>9. ASSUME NEW t \in States, Live(t)'
      PROVE  /\ state'[t].powner \in Known
             /\ state'[t].other = nfs4_BuildStateId_Other(state'[t].pentry, state'[t].powner)
             /\ t \notin lost' => state'[t].other \in DOMAIN ht' /\ ht'[state'[t].other] = t
  <2>1. CASE t = s
    BY <1>2, <1>3, <2>1 DEF other
  <2>2. CASE t # s
    <3>1. /\ Live(t) /\ state'[t].pentry = state[t].pentry
          /\ state'[t].powner = state[t].powner /\ state'[t].other = state[t].other
      BY <1>2, <1>9, <2>2 DEF Live
    <3>2. /\ state[t].powner \in Known
          /\ state[t].other = nfs4_BuildStateId_Other(state[t].pentry, state[t].powner)
          /\ t \notin lost => state[t].other \in DOMAIN ht /\ ht[state[t].other] = t
      BY <3>1 DEF IInv, TableInv
    <3>3. ASSUME t \notin lost' PROVE state[t].other \in DOMAIN ht' /\ ht'[state[t].other] = t
      <4>1. t \notin lost /\ t # NULL
        BY <1>3, <3>3, OpenAssumption
      <4>2. CASE ht' = ht
        BY <3>2, <4>1, <4>2
      <4>3. CASE ht' # ht
        <5>1. t # nfs4_State_Get_Pointer(other)
          BY <1>3, <3>3, <4>1, <4>3
        <5>2. state[t].other # other
          BY <3>2, <4>1, <5>1 DEF nfs4_State_Get_Pointer
        <5> QED
          BY <1>3, <3>2, <4>1, <4>3, <5>2
      <4> QED
        BY <4>2, <4>3
    <3> QED
      BY <3>1, <3>2, <3>3
  <2> QED
    BY <2>1, <2>2
<1> QED
  BY <1>5, <1>7, <1>8, <1>9 DEF TableInv, other, f, o

\* The other handlers keep what they rely on: a CLOSE of another owner has
\* another stateid, and a scan of the same file becomes stale.
LEMMA AddedHandlers ==
    ASSUME NoWrap, IInv, NEW w \in Workers, thread[w].pc = "add", NEW s \in Allocated(w),
           Added(w, s), counter' = counter, stateid' = stateid,
           \A k \in DOMAIN ht :
              /\ k \in DOMAIN ht'
              /\ ht'[k] = ht[k] \/ k = nfs4_BuildStateId_Other(thread[w].file, thread[w].owner)
    PROVE  HandlersKnown' /\ thread' \in [Workers -> Handler]
<1> DEFINE f == thread[w].file
           q == [thread[w] EXCEPT !.pc = "open"]
<1>1. /\ thread \in [Workers -> Handler] /\ thread[w] \in Handler
      /\ \A v \in Workers : HandlerKnown(thread[v], counter, ht)
  BY DEF IInv, TypeOK, HandlersKnown
<1>2. q \in Handler /\ Continues(q, thread[w]) /\ HandlerKnown(q, counter, ht')
  BY <1>1, Zenon DEF Handler, HandlerKnown, Continues
<1>3. /\ thread' = [v \in Workers |-> thread'[v]]
      /\ thread'[w] \in {q, Idle}
      /\ \A v \in Workers \ {w} : thread'[v] \in {thread[v], [thread[v] EXCEPT !.stale = TRUE]}
  BY <1>1, Zenon DEF Added, Grown
<1> HIDE DEF f, q
<1>4. thread'[w] \in Handler /\ Continues(thread'[w], thread[w])
      /\ HandlerKnown(thread'[w], counter, ht')
  BY <1>2, <1>3, IdleTyped
<1>5. ASSUME NEW v \in Workers \ {w}
      PROVE  thread'[v] \in Handler /\ thread'[v].op = thread[v].op
             /\ thread'[v].owner = thread[v].owner /\ HandlerKnown(thread'[v], counter, ht')
  <2> DEFINE k == <<thread[v].file, counter[thread[v].owner] % DigestMod>>
  <2>1. thread[v].pc \in {"delete", "unlink"} => k \in DOMAIN ht /\ k \in DOMAIN ht' /\ ht'[k] = ht[k]
    <3> SUFFICES ASSUME thread[v].pc \in {"delete", "unlink"}
                 PROVE  k \in DOMAIN ht /\ k \in DOMAIN ht' /\ ht'[k] = ht[k]
      OBVIOUS
    <3>1. thread[v].op = "close" /\ thread[v].owner \in Known /\ k \in DOMAIN ht
      BY <1>1, Zenon DEF HandlerKnown, Known
    <3>2. thread[w].op = "open" /\ thread[w].owner \in Known
      BY <1>1, Zenon DEF HandlerKnown, Known
    <3>3. thread[v].owner # thread[w].owner
      BY <3>1, <3>2 DEF IInv, HandlersKnown
    <3>4. nfs4_BuildStateId_Other(thread[v].file, thread[v].owner)
             # nfs4_BuildStateId_Other(thread[w].file, thread[w].owner)
      BY <3>1, <3>2, <3>3, StateidsDiffer DEF IInv
    <3>5. k # nfs4_BuildStateId_Other(thread[w].file, thread[w].owner)
      BY <3>4 DEF nfs4_BuildStateId_Other
    <3> QED
      BY <3>1, <3>5
  <2>2. thread[v] \in Handler /\ HandlerKnown(thread[v], counter, ht')
    BY <1>1, <2>1, Zenon DEF HandlerKnown
  <2>3. CASE thread'[v] = thread[v]
    BY <2>2, <2>3
  <2>4. CASE thread'[v] = [thread[v] EXCEPT !.stale = TRUE]
    BY <2>2, <2>4, ZenonT(30) DEF Handler, HandlerKnown
  <2> QED
    BY <1>3, <2>3, <2>4
<1>6. thread' \in [Workers -> Handler] /\ \A v \in Workers : HandlerKnown(thread'[v], counter, ht')
  BY <1>3, <1>4, <1>5
<1>7. ASSUME NEW u \in Workers, NEW v \in Workers,
             thread'[u].op \in {"open", "close"}, thread'[v].op \in {"open", "close"},
             thread'[u].owner = thread'[v].owner
      PROVE  u = v
  BY <1>4, <1>5, <1>7 DEF IInv, HandlersKnown, Continues
<1>8. \A p \in stateid' : p[1] \in Known'
  BY DEF IInv, HandlersKnown, Known
<1> QED
  BY <1>6, <1>7, <1>8, SMTT(30) DEF HandlersKnown

\* cache_inode_add_state keeps the invariant.
LEMMA AddStep ==
    ASSUME NoWrap, IInv, NEW w \in Workers, cache_inode_add_state(w)
    PROVE  IInv'
<1>1. /\ thread[w].pc = "add" /\ exists' = exists /\ stateid' = stateid
      /\ requests' = requests /\ UNCHANGED numbers
      /\ counter' = counter /\ open_owner_counter' = open_owner_counter
  BY DEF cache_inode_add_state, numbers
<1>2. CASE thread' = [thread EXCEPT ![w] = Idle] /\ UNCHANGED states
  BY <1>1, <1>2, HandlerTyped, IdleTyped, QuietStep, Zenon
<1>3. ASSUME NEW s \in Allocated(w), Added(w, s)
      PROVE  IInv'
  <2>1. state' \in [States -> StateRecord]
    BY <1>1, <1>3, AddedStates
  <2>2. PoolsApart' /\ pool' \in [Workers -> States \union {NULL}] /\ fresh' \subseteq States
    BY <1>1, <1>3, AddedPools
  <2>3. ListsLinked' /\ head' \in [Files -> States \union {NULL}]
    BY <1>1, <1>3, AddedLists
  <2>4. /\ TableInv' /\ lost' \subseteq States
        /\ \A k \in DOMAIN ht :
              /\ k \in DOMAIN ht'
              /\ ht'[k] = ht[k] \/ k = nfs4_BuildStateId_Other(thread[w].file, thread[w].owner)
        /\ DOMAIN ht' \subseteq Files \X (0..(DigestMod - 1))
        /\ \A k \in DOMAIN ht' : ht'[k] \in States
    BY <1>1, <1>3, AddedTable
  <2>5. HandlersKnown' /\ thread' \in [Workers -> Handler]
    BY <1>1, <1>3, <2>4, AddedHandlers
  <2>6. Numbered'
    BY <1>1 DEF IInv, Numbered
  <2>7. TypeOK'
    <3>1. open_owner_counter' \in Nat /\ counter' \in [Owners -> 0..open_owner_counter']
      BY <2>6 DEF Numbered
    <3>2. exists' \subseteq Files /\ stateid' \subseteq Owners \X Files /\ requests' \in 0..MaxRequests
      BY <1>1 DEF IInv, TypeOK
    <3> QED
      BY <2>1, <2>2, <2>3, <2>4, <2>5, <3>1, <3>2, Zenon DEF TypeOK
  <2> QED
    BY <2>2, <2>3, <2>4, <2>5, <2>6, <2>7, SMTT(30) DEF IInv
<1> QED
  BY <1>2, <1>3, AddAdds, SMTT(30)
=============================================================================
