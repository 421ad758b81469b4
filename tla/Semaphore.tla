----------------------------- MODULE Semaphore ------------------------------
(***************************************************************************)
(* The counting semaphore of SemN.c, used the way the FSALs use it: a      *)
(* thread takes a token (TakeTokenFSCall), makes its file system calls and *)
(* gives the token back (ReleaseTokenFSCall), so that at most value calls  *)
(* run at the same time.                                                   *)
(*                                                                         *)
(* Both operations run under sem->mutex and are one step, except that P    *)
(* releases the mutex while it waits on sem->cond.                         *)
(***************************************************************************)
EXTENDS Integers, FiniteSets

CONSTANTS
    Threads,
    value               \* the tokens that semaphore_init is given

ASSUME SemaphoreAssumption ==
    /\ IsFiniteSet(Threads)
    /\ value \in Nat \ {0}

VARIABLES
    pc,                 \* "idle", "waiting" (on cond), "woken" or "calling"
    count               \* sem->count; negative when threads wait

vars == <<pc, count>>

At(l) == {t \in Threads : pc[t] = l}

Init ==
    /\ pc = [t \in Threads |-> "idle"]
    /\ count = value

semaphore_P(t) ==
    /\ pc[t] = "idle"
    /\ count' = count - 1
    /\ pc' = [pc EXCEPT ![t] = IF count' < 0 THEN "waiting" ELSE "calling"]

\* Mutant of semaphore_P_Resume: the test is not repeated after the wait.
semaphore_P_ResumeNoRecheck(t) ==
    /\ pc[t] = "woken"
    /\ pc' = [pc EXCEPT ![t] = "calling"]
    /\ UNCHANGED count

(***************************************************************************)
(* Back from pthread_cond_wait, the test of the loop.                      *)
(***************************************************************************)
semaphore_P_Resume(t) ==
    /\ pc[t] = "woken"
    /\ pc' = [pc EXCEPT ![t] = IF count < 0 THEN "waiting" ELSE "calling"]
    /\ UNCHANGED count

semaphore_V(t) ==
    /\ pc[t] = "calling"
    /\ count' = count + 1
    /\ \/ /\ count' <= 0
          /\ \E u \in At("waiting") : pc' = [pc EXCEPT ![t] = "idle", ![u] = "woken"]
       \/ /\ count' > 0 \/ At("waiting") = {}
          /\ pc' = [pc EXCEPT ![t] = "idle"]

(***************************************************************************)
(* pthread_cond_wait may return without a signal.                          *)
(***************************************************************************)
SpuriousWakeup(t) ==
    /\ pc[t] = "waiting"
    /\ pc' = [pc EXCEPT ![t] = "woken"]
    /\ UNCHANGED count

Next ==
    \E t \in Threads :
        semaphore_P(t) \/ semaphore_P_Resume(t) \/ semaphore_V(t) \/ SpuriousWakeup(t)

Spec == Init /\ [][Next]_vars

-----------------------------------------------------------------------------
(***************************************************************************)
(* Each thread is at a known place, and sem->count never leaves the range  *)
(* from all threads asking for a token to none.                            *)
(***************************************************************************)
TypeOK ==
    /\ pc \in [Threads -> {"idle", "waiting", "woken", "calling"}]
    /\ count \in (value - Cardinality(Threads)) .. value

(***************************************************************************)
(* sem->count is the number of tokens minus the number of threads that     *)
(* hold one or ask for one.                                                *)
(***************************************************************************)
CountExact ==
    count = value - Cardinality(At("calling"))
                  - Cardinality(At("waiting") \cup At("woken"))

(***************************************************************************)
(* What TakeTokenFSCall is for: no more than value threads are in the file *)
(* system at the same time.                                                *)
(***************************************************************************)
CallsBounded == Cardinality(At("calling")) <= value
=============================================================================
