------------------------------- MODULE RWLock -------------------------------
(***************************************************************************)
(* The readers/writer lock of src/src/RW_Lock/RW_Lock.c.  One such lock    *)
(* protects every cache_inode entry and every partition of every hash      *)
(* table of the server.                                                    *)
(*                                                                         *)
(* Every access to the four counters happens with plock->mutexProtect      *)
(* held, so the code between two points where a thread gives the mutex up  *)
(* (its unlock, or a pthread_cond_wait) is one action.  A thread blocked   *)
(* in pthread_cond_wait is at "rwait" or "wwait".  A signal moves it to    *)
(* "rwoken" or "wwoken": it left the condition variable's queue but still  *)
(* competes for the mutex, and other threads may get it first.             *)
(***************************************************************************)
EXTENDS Integers, FiniteSets

CONSTANTS
    Threads,        \* the threads that share the lock
    MaxOps,         \* acquisitions each thread asks for
    SpuriousWakeups \* whether pthread_cond_wait may return without a signal

ASSUME RWLockAssumption ==
    /\ IsFiniteSet(Threads)
    /\ MaxOps \in Nat
    /\ SpuriousWakeups \in BOOLEAN

VARIABLES
    pc,             \* what each thread does with the lock
    left,           \* how many times each thread will still ask for the lock
    nbr_active,     \* the counters of rw_lock_t
    nbr_waiting,
    nbw_active,
    nbw_waiting

counters == <<nbr_active, nbr_waiting, nbw_active, nbw_waiting>>
vars == <<pc, left, counters>>

PC == {"idle", "rwait", "rwoken", "reading", "wwait", "wwoken", "writing"}

At(l) == {t \in Threads : pc[t] = l}

-----------------------------------------------------------------------------
(***************************************************************************)
(* rw_lock_init                                                            *)
(***************************************************************************)
Init ==
    /\ pc = [t \in Threads |-> "idle"]
    /\ left = [t \in Threads |-> MaxOps]
    /\ nbr_active = 0
    /\ nbr_waiting = 0
    /\ nbw_active = 0
    /\ nbw_waiting = 0

(***************************************************************************)
(* The calling thread t moves to l while one thread waiting on condWrite,  *)
(* if there is one, is signalled.                                          *)
(***************************************************************************)
SignalCondWrite(t, l) ==
    IF At("wwait") = {}
    THEN pc' = [pc EXCEPT ![t] = l]
    ELSE \E u \in At("wwait") : pc' = [pc EXCEPT ![t] = l, ![u] = "wwoken"]

(***************************************************************************)
(* The calling thread t moves to l while every thread waiting on condRead  *)
(* is woken.                                                               *)
(***************************************************************************)
BroadcastCondRead(t, l) ==
    pc' = [u \in Threads |-> CASE u = t            -> l
                               [] pc[u] = "rwait"  -> "rwoken"
                               [] OTHER            -> pc[u]]

Ask(t) ==
    /\ pc[t] = "idle"
    /\ left[t] > 0
    /\ left' = [left EXCEPT ![t] = @ - 1]

(***************************************************************************)
(* P_r up to its pthread_cond_wait, or to its return.                      *)
(***************************************************************************)
P_r(t) ==
    /\ Ask(t)
    /\ UNCHANGED <<nbw_active, nbw_waiting>>
    /\ \/ /\ nbw_active > 0 \/ nbw_waiting > 0
          /\ nbr_waiting' = nbr_waiting + 1
          /\ pc' = [pc EXCEPT ![t] = "rwait"]
          /\ UNCHANGED nbr_active
       \/ /\ ~(nbw_active > 0 \/ nbw_waiting > 0)
          /\ nbr_active' = nbr_active + 1
          /\ pc' = [pc EXCEPT ![t] = "reading"]
          /\ UNCHANGED nbr_waiting

(***************************************************************************)
(* P_r after its pthread_cond_wait: the condition is tested by an "if",    *)
(* so it is not tested again.                                              *)
(***************************************************************************)
P_r_Resume(t) ==
    /\ pc[t] = "rwoken"
    /\ nbr_waiting' = nbr_waiting - 1
    /\ nbr_active' = nbr_active + 1
    /\ pc' = [pc EXCEPT ![t] = "reading"]
    /\ UNCHANGED <<left, nbw_active, nbw_waiting>>

\* Mutant of V_r: the last reader forgets the waiting writers.
V_r_NoSignal(t) ==
    /\ pc[t] = "reading"
    /\ nbr_active' = nbr_active - 1
    /\ pc' = [pc EXCEPT ![t] = "idle"]
    /\ UNCHANGED <<left, nbr_waiting, nbw_active, nbw_waiting>>

V_r(t) ==
    /\ pc[t] = "reading"
    /\ nbr_active' = nbr_active - 1
    /\ IF nbr_active' = 0 /\ nbw_waiting > 0
       THEN SignalCondWrite(t, "idle")
       ELSE pc' = [pc EXCEPT ![t] = "idle"]
    /\ UNCHANGED <<left, nbr_waiting, nbw_active, nbw_waiting>>

\* Mutant of P_w: the readers are left out of the condition.
P_w_IgnoreReaders(t) ==
    /\ Ask(t)
    /\ UNCHANGED <<nbr_active, nbr_waiting>>
    /\ \/ /\ nbw_active > 0
          /\ nbw_waiting' = nbw_waiting + 1
          /\ pc' = [pc EXCEPT ![t] = "wwait"]
          /\ UNCHANGED nbw_active
       \/ /\ nbw_active = 0
          /\ nbw_active' = nbw_active + 1
          /\ pc' = [pc EXCEPT ![t] = "writing"]
          /\ UNCHANGED nbw_waiting

(***************************************************************************)
(* P_w up to its first pthread_cond_wait, or to its return.                *)
(***************************************************************************)
P_w(t) ==
    /\ Ask(t)
    /\ UNCHANGED <<nbr_active, nbr_waiting>>
    /\ \/ /\ nbr_active > 0 \/ nbw_active > 0
          /\ nbw_waiting' = nbw_waiting + 1
          /\ pc' = [pc EXCEPT ![t] = "wwait"]
          /\ UNCHANGED nbw_active
       \/ /\ ~(nbr_active > 0 \/ nbw_active > 0)
          /\ nbw_active' = nbw_active + 1
          /\ pc' = [pc EXCEPT ![t] = "writing"]
          /\ UNCHANGED nbw_waiting

\* Mutant of P_w_Resume: an "if" in place of the "while" of P_w.
P_w_ResumeNoRecheck(t) ==
    /\ pc[t] = "wwoken"
    /\ nbw_waiting' = nbw_waiting - 1
    /\ nbw_active' = nbw_active + 1
    /\ pc' = [pc EXCEPT ![t] = "writing"]
    /\ UNCHANGED <<left, nbr_active, nbr_waiting>>

(***************************************************************************)
(* One more turn of the "while" loop of P_w.                               *)
(***************************************************************************)
P_w_Resume(t) ==
    /\ pc[t] = "wwoken"
    /\ UNCHANGED <<left, nbr_active, nbr_waiting>>
    /\ \/ /\ nbr_active > 0 \/ nbw_active > 0
          /\ pc' = [pc EXCEPT ![t] = "wwait"]
          /\ UNCHANGED <<nbw_active, nbw_waiting>>
       \/ /\ ~(nbr_active > 0 \/ nbw_active > 0)
          /\ nbw_waiting' = nbw_waiting - 1
          /\ nbw_active' = nbw_active + 1
          /\ pc' = [pc EXCEPT ![t] = "writing"]

\* Mutant of V_w: pthread_cond_signal in place of the broadcast.
V_w_SignalReader(t) ==
    /\ pc[t] = "writing"
    /\ nbw_active' = nbw_active - 1
    /\ CASE nbw_waiting > 0                             -> SignalCondWrite(t, "idle")
         [] nbw_waiting = 0 /\ At("rwait") # {}         ->
               \E u \in At("rwait") : pc' = [pc EXCEPT ![t] = "idle", ![u] = "rwoken"]
         [] OTHER                                       -> pc' = [pc EXCEPT ![t] = "idle"]
    /\ UNCHANGED <<left, nbr_active, nbr_waiting, nbw_waiting>>

V_w(t) ==
    /\ pc[t] = "writing"
    /\ nbw_active' = nbw_active - 1
    /\ CASE nbw_waiting > 0                     -> SignalCondWrite(t, "idle")
         [] nbw_waiting = 0 /\ nbr_waiting > 0  -> BroadcastCondRead(t, "idle")
         [] OTHER                               -> pc' = [pc EXCEPT ![t] = "idle"]
    /\ UNCHANGED <<left, nbr_active, nbr_waiting, nbw_waiting>>

\* Mutant of rw_lock_downgrade: the waiting readers are not let go.
DowngradeNoBroadcast(t) ==
    /\ pc[t] = "writing"
    /\ nbw_active' = nbw_active - 1
    /\ nbr_active' = nbr_active + 1
    /\ pc' = [pc EXCEPT ![t] = "reading"]
    /\ UNCHANGED <<left, nbr_waiting, nbw_waiting>>

rw_lock_downgrade(t) ==
    /\ pc[t] = "writing"
    /\ nbw_active' = nbw_active - 1
    /\ nbr_active' = nbr_active + 1
    /\ IF nbr_waiting > 0
       THEN BroadcastCondRead(t, "reading")
       ELSE pc' = [pc EXCEPT ![t] = "reading"]
    /\ UNCHANGED <<left, nbr_waiting, nbw_waiting>>

(***************************************************************************)
(* POSIX lets pthread_cond_wait return although nobody signalled.          *)
(***************************************************************************)
SpuriousWakeup(t) ==
    /\ SpuriousWakeups
    /\ \/ pc[t] = "rwait" /\ pc' = [pc EXCEPT ![t] = "rwoken"]
       \/ pc[t] = "wwait" /\ pc' = [pc EXCEPT ![t] = "wwoken"]
    /\ UNCHANGED <<left, counters>>

(***************************************************************************)
(* The steps of a thread that is inside P_r or P_w, or holds the lock.     *)
(***************************************************************************)
Proceed(t) ==
    \/ P_r_Resume(t)
    \/ P_w_Resume(t)
    \/ V_r(t)
    \/ V_w(t)
    \/ rw_lock_downgrade(t)

Next ==
    \E t \in Threads :
        \/ P_r(t)
        \/ P_w(t)
        \/ Proceed(t)
        \/ SpuriousWakeup(t)

(***************************************************************************)
(* A thread that can run is scheduled, and no thread keeps the lock for    *)
(* ever.  Nothing obliges a thread to ask for it.                          *)
(***************************************************************************)
Fairness == \A t \in Threads : WF_vars(Proceed(t))

Spec == Init /\ [][Next]_vars

FairSpec == Spec /\ Fairness
-----------------------------------------------------------------------------
(***************************************************************************)
(* Every thread is at a known point and the unsigned counters of rw_lock_t *)
(* never wrap below zero.                                                  *)
(***************************************************************************)
TypeOK ==
    /\ pc \in [Threads -> PC]
    /\ left \in [Threads -> 0 .. MaxOps]
    /\ nbr_active \in Nat
    /\ nbr_waiting \in Nat
    /\ nbw_active \in Nat
    /\ nbw_waiting \in Nat

(***************************************************************************)
(* The counters of rw_lock_t count the threads: P_r, V_r, P_w, V_w and     *)
(* rw_lock_downgrade never lose or duplicate a holder or a waiter, however *)
(* their critical sections interleave.                                     *)
(***************************************************************************)
CountersExact ==
    /\ nbr_active = Cardinality(At("reading"))
    /\ nbr_waiting = Cardinality(At("rwait") \cup At("rwoken"))
    /\ nbw_active = Cardinality(At("writing"))
    /\ nbw_waiting = Cardinality(At("wwait") \cup At("wwoken"))

(***************************************************************************)
(* P_w excludes writers from each other: two threads never hold the lock   *)
(* for writing at the same time.                                           *)
(***************************************************************************)
WriterExclusion ==
    \A t, u \in Threads : pc[t] = "writing" /\ pc[u] = "writing" => t = u

(***************************************************************************)
(* A reader blocked on condRead is never forgotten: as long as it sleeps   *)
(* some writer holds the lock or waits for it, and that writer's V_w or    *)
(* rw_lock_downgrade is what will wake the reader.                         *)
(***************************************************************************)
NoForgottenReader ==
    At("rwait") # {} => nbw_active > 0 \/ nbw_waiting > 0

(***************************************************************************)
(* A writer blocked on condWrite is never forgotten: as long as it sleeps, *)
(* either somebody holds the lock, or the wake-up sent by V_r or V_w is on *)
(* its way to one of the waiting writers.                                  *)
(***************************************************************************)
NoForgottenWriter ==
    At("wwait") # {} => nbr_active > 0 \/ nbw_active > 0 \/ At("wwoken") # {}

(***************************************************************************)
(* P_w lets a writer in only when no other thread holds the lock, so that  *)
(* nobody breaks a read lock obtained by P_r or kept by rw_lock_downgrade. *)
(***************************************************************************)
WriterEntersAlone ==
    [][\A t \in Threads :
          pc[t] # "writing" /\ pc'[t] = "writing"
             => \A u \in Threads \ {t} : pc'[u] \notin {"reading", "writing"}]_vars

(***************************************************************************)
(* "nobody must be active": a reader and a writer never hold the lock      *)
(* together, as the comments of P_r and P_w say.                           *)
(***************************************************************************)
ReaderWriterExclusion ==
    At("writing") # {} => At("reading") = {}

(***************************************************************************)
(* Every thread blocked in P_r or in P_w gets the lock in the end, when    *)
(* the threads stop asking for it sooner or later.                         *)
(***************************************************************************)
EveryWaiterServed ==
    \A t \in Threads :
        /\ pc[t] \in {"rwait", "rwoken"} ~> pc[t] = "reading"
        /\ pc[t] \in {"wwait", "wwoken"} ~> pc[t] = "writing"
=============================================================================
