------------------------- MODULE ExportReloadProofs -------------------------
(***************************************************************************)
(* Proof, for every number of workers and with or without spurious         *)
(* wake-ups, that the export list is replaced only while no worker reads   *)
(* it, although the admin thread and the workers share no lock.            *)
(***************************************************************************)
EXTENDS ExportReload, TLAPS

(***************************************************************************)
(* The locations from which a worker whose flag is raised cannot get to    *)
(* "work".                                                                 *)
(***************************************************************************)
Held == {"test", "body", "blocking", "blocked", "unblocked"}

(***************************************************************************)
(* The workers whose flag the admin thread has raised and not yet lowered. *)
(***************************************************************************)
Raised(w) ==
    \/ apc = "pause" /\ w < i
    \/ apc = "pausesignal" /\ w <= i
    \/ apc \in {"spin", "replace"}
    \/ apc = "wake" /\ w >= i
    \/ apc = "wakesignal" /\ w > i

(***************************************************************************)
(* The workers that the admin thread has seen waiting since then.          *)
(***************************************************************************)
Seen(w) ==
    \/ apc = "spin" /\ w < i
    \/ apc = "replace"

(***************************************************************************)
(* The inductive invariant.  waiting_for_exports may be stale: a worker    *)
(* that is seen waiting may have been woken by the reload before.  What    *)
(* matters is that it clears the flag before it reads the other one.       *)
(***************************************************************************)
IInv ==
    /\ TypeOK
    /\ apc = "replace" => i = 0
    /\ \A w \in Workers :
          /\ waiting_for_exports[w] => wpc[w] \in {"blocking", "blocked", "unblocked"}
          /\ Raised(w) => reparse_exports_in_progress[w]
          /\ Seen(w) => wpc[w] \in Held

-----------------------------------------------------------------------------
\* At start no flag is set and the invariant holds.
LEMMA InitIInv == Init => IInv
<1> SUFFICES ASSUME Init PROVE IInv
  OBVIOUS
<1>1. 0 \in Workers
  BY ExportReloadAssumption DEF Workers
<1>2. TypeOK
  BY <1>1, Zenon DEF Init, TypeOK
<1>3. \A w \in Workers : ~waiting_for_exports[w] /\ ~Raised(w) /\ ~Seen(w)
  BY DEF Init, Raised, Seen
<1> QED
  BY <1>2, <1>3 DEF Init, IInv

(***************************************************************************)
(* The admin thread's steps.                                               *)
(***************************************************************************)
LEMMA AdminIInv ==
    ASSUME IInv, admin_replace_exports \/ AdminStep
    PROVE  IInv'
<1> USE ExportReloadAssumption DEF IInv, TypeOK, Workers
<1>1. CASE admin_replace_exports
  BY <1>1 DEF admin_replace_exports, Raised, Seen
<1>2. CASE A_Start
  BY <1>2, Zenon DEF A_Start, Raised, Seen
<1>3. CASE A_Parse
  BY <1>3 DEF A_Parse, Raised, Seen
<1>4. CASE A_Pause
  BY <1>4 DEF A_Pause, Raised, Seen
<1>5. CASE A_PauseSignal
  BY <1>5 DEF A_PauseSignal, NextWorker, Raised, Seen
<1>6. CASE A_Spin
  BY <1>6 DEF A_Spin, NextWorker, Raised, Seen, Held
<1>7. CASE A_Replace
  BY <1>7 DEF A_Replace, Raised, Seen
<1>8. CASE A_Wake
  BY <1>8 DEF A_Wake, Raised, Seen
<1>9. CASE A_WakeSignal
  BY <1>9 DEF A_WakeSignal, NextWorker, Raised, Seen
<1> QED
  BY <1>1, <1>2, <1>3, <1>4, <1>5, <1>6, <1>7, <1>8, <1>9 DEF AdminStep

(***************************************************************************)
(* The workers' and the receivers' steps.                                  *)
(***************************************************************************)
LEMMA WorkerIInv ==
    ASSUME IInv, NEW w \in Workers,
           WorkerStep(w) \/ SpuriousWakeup(w) \/ Enqueue(w)
    PROVE  IInv'
<1> USE DEF IInv, TypeOK, Goto, adminVars
<1>1. CASE W_Test(w)
  BY <1>1 DEF W_Test, Raised, Seen, Held
<1>2. CASE W_Body(w)
  BY <1>2, Zenon DEF W_Body, Raised, Seen, Held
<1>3. CASE W_CondWait(w)
  BY <1>3 DEF W_CondWait, Raised, Seen, Held
<1>4. CASE W_Unblocked(w)
  BY <1>4 DEF W_Unblocked, Raised, Seen, Held
<1>5. CASE W_Work(w)
  BY <1>5 DEF W_Work, Raised, Seen, Held
<1>6. CASE SpuriousWakeup(w)
  BY <1>6 DEF SpuriousWakeup, Raised, Seen, Held
<1>7. CASE Enqueue(w)
  BY <1>7 DEF Enqueue, Raised, Seen, Held
<1> QED
  BY <1>1, <1>2, <1>3, <1>4, <1>5, <1>6, <1>7 DEF WorkerStep

(***************************************************************************)
(* IInv holds in every reachable state.                                    *)
(***************************************************************************)
THEOREM SpecIInv == Spec => []IInv
<1>1. IInv /\ [Next]_vars => IInv'
  <2> SUFFICES ASSUME IInv, [Next]_vars PROVE IInv'
    OBVIOUS
  <2>1. CASE UNCHANGED vars
    BY <2>1 DEF vars, adminVars, IInv, TypeOK, Raised, Seen
  <2>2. CASE Next
    BY <2>2, AdminIInv, WorkerIInv DEF Next
  <2> QED
    BY <2>1, <2>2
<1> QED
  BY <1>1, InitIInv, PTL DEF Spec

(***************************************************************************)
(* The flags, the locations and the loop index of the reload keep their    *)
(* types.                                                                  *)
(***************************************************************************)
THEOREM ReloadTypes == Spec => []TypeOK
BY SpecIInv, PTL DEF IInv

(***************************************************************************)
(* rebuild_export_list never frees or overwrites the export list while a   *)
(* worker processes a request.                                             *)
(***************************************************************************)
THEOREM ListReplacedWhileUnused == Spec => []ReplacedWhileUnused
<1>1. IInv => ReplacedWhileUnused
  BY DEF IInv, ReplacedWhileUnused, Seen, Held
<1> QED
  BY <1>1, SpecIInv, PTL
=============================================================================
