------------------------ MODULE RuntimeLease_proofs ------------------------
(***************************************************************************)
(* Proofs for RuntimeLease, for any number of processes and any bounds.    *)
(* The inductive invariant joins the three stated ones with LeaseInv, the  *)
(* reason they hold: from its ownership check to its commit a transaction  *)
(* keeps the account row, which a start needs before it fences the writer. *)
(***************************************************************************)
EXTENDS RuntimeLease, TLAPS

Inv == TypeOK /\ OneActiveRun /\ LedgerIsCurrent /\ LeaseInv

(* The initial state: nobody runs, nothing is locked. *)
LEMMA InitInv == Init => Inv
BY LeaseAssumption DEF Init, Inv, TypeOK, OneActiveRun, LedgerIsCurrent, LeaseInv, Owns, Steps

(* AcquireLease keeps the invariant. *)
LEMMA AcquireLeaseInv == ASSUME NEW p \in Procs, Inv, AcquireLease(p) PROVE Inv'
<1> USE LeaseAssumption DEF Inv, tables, AcquireLease
<1>1. TypeOK'
  BY DEF TypeOK, Steps, Owns, LeaseInv
<1>2. OneActiveRun'
  BY DEF TypeOK, OneActiveRun
<1>3. LedgerIsCurrent'
  BY DEF TypeOK, OneActiveRun, LedgerIsCurrent, LeaseInv, Owns
<1>4. LeaseInv'
  BY DEF TypeOK, OneActiveRun, LedgerIsCurrent, LeaseInv, Owns, Steps
<1> QED
  BY <1>1, <1>2, <1>3, <1>4 DEF Inv

(* AssertLease keeps the invariant. *)
LEMMA AssertLeaseInv == ASSUME NEW p \in Procs, Inv, AssertLease(p) PROVE Inv'
<1> USE LeaseAssumption DEF Inv, tables, AssertLease
<1>1. TypeOK'
  BY DEF TypeOK, Steps, Owns, LeaseInv
<1>2. OneActiveRun'
  BY DEF TypeOK, OneActiveRun
<1>3. LedgerIsCurrent'
  BY DEF TypeOK, OneActiveRun, LedgerIsCurrent, LeaseInv, Owns
<1>4. LeaseInv'
  BY DEF TypeOK, OneActiveRun, LedgerIsCurrent, LeaseInv, Owns, Steps
<1> QED
  BY <1>1, <1>2, <1>3, <1>4 DEF Inv

(* BeginRun keeps the invariant. *)
LEMMA BeginRunInv == ASSUME NEW p \in Procs, Inv, BeginRun(p) PROVE Inv'
<1> USE LeaseAssumption DEF Inv, tables, BeginRun
<1>1. TypeOK'
  BY DEF TypeOK, Steps, Owns, LeaseInv
<1>2. OneActiveRun'
  BY DEF TypeOK, OneActiveRun
<1>3. LedgerIsCurrent'
  BY DEF TypeOK, OneActiveRun, LedgerIsCurrent, LeaseInv, Owns
<1>4. LeaseInv'
  BY DEF TypeOK, OneActiveRun, LedgerIsCurrent, LeaseInv, Owns, Steps
<1> QED
  BY <1>1, <1>2, <1>3, <1>4 DEF Inv

(* CommitRun keeps the invariant. *)
LEMMA CommitRunInv == ASSUME NEW p \in Procs, Inv, CommitRun(p) PROVE Inv'
<1> USE LeaseAssumption DEF Inv, tables, CommitRun
<1>1. TypeOK'
  BY DEF TypeOK, Steps, Owns, LeaseInv
<1>2. OneActiveRun'
  BY DEF TypeOK, OneActiveRun
<1>3. LedgerIsCurrent'
  BY DEF TypeOK, OneActiveRun, LedgerIsCurrent, LeaseInv, Owns
<1>4. LeaseInv'
  BY DEF TypeOK, OneActiveRun, LedgerIsCurrent, LeaseInv, Owns, Steps
<1> QED
  BY <1>1, <1>2, <1>3, <1>4 DEF Inv

(* LoadLedger keeps the invariant. *)
LEMMA LoadLedgerInv == ASSUME NEW p \in Procs, Inv, LoadLedger(p) PROVE Inv'
<1> USE LeaseAssumption DEF Inv, tables, LoadLedger
<1>1. TypeOK'
  BY DEF TypeOK, Steps, Owns, LeaseInv
<1>2. OneActiveRun'
  BY DEF TypeOK, OneActiveRun
<1>3. LedgerIsCurrent'
  BY DEF TypeOK, OneActiveRun, LedgerIsCurrent, LeaseInv, Owns
<1>4. LeaseInv'
  BY DEF TypeOK, OneActiveRun, LedgerIsCurrent, LeaseInv, Owns, Steps
<1> QED
  BY <1>1, <1>2, <1>3, <1>4 DEF Inv

(* LockAccount keeps the invariant. *)
LEMMA LockAccountInv == ASSUME NEW p \in Procs, Inv, LockAccount(p) PROVE Inv'
<1> USE LeaseAssumption DEF Inv, tables, LockAccount
<1>1. TypeOK'
  BY DEF TypeOK, Steps, Owns, LeaseInv
<1>2. OneActiveRun'
  BY DEF TypeOK, OneActiveRun
<1>3. LedgerIsCurrent'
  BY DEF TypeOK, OneActiveRun, LedgerIsCurrent, LeaseInv, Owns
<1>4. LeaseInv'
  BY DEF TypeOK, OneActiveRun, LedgerIsCurrent, LeaseInv, Owns, Steps
<1> QED
  BY <1>1, <1>2, <1>3, <1>4 DEF Inv

(* AssertOwner keeps the invariant. *)
LEMMA AssertOwnerInv == ASSUME NEW p \in Procs, Inv, AssertOwner(p) PROVE Inv'
<1> USE LeaseAssumption DEF Inv, tables, AssertOwner, MayWrite
<1>1. TypeOK'
  BY DEF TypeOK, Steps, Owns, LeaseInv
<1>2. OneActiveRun'
  BY DEF TypeOK, OneActiveRun
<1>3. LedgerIsCurrent'
  BY DEF TypeOK, OneActiveRun, LedgerIsCurrent, LeaseInv, Owns
<1>4. LeaseInv'
  BY DEF TypeOK, OneActiveRun, LedgerIsCurrent, LeaseInv, Owns, Steps
<1> QED
  BY <1>1, <1>2, <1>3, <1>4 DEF Inv

(* CommitAccount keeps the invariant. *)
LEMMA CommitAccountInv == ASSUME NEW p \in Procs, Inv, CommitAccount(p) PROVE Inv'
<1> USE LeaseAssumption DEF Inv, tables, CommitAccount
<1>1. TypeOK'
  BY DEF TypeOK, Steps, Owns, LeaseInv
<1>2. OneActiveRun'
  BY DEF TypeOK, OneActiveRun
<1>3. LedgerIsCurrent'
  BY DEF TypeOK, OneActiveRun, LedgerIsCurrent, LeaseInv, Owns
<1>4. LeaseInv'
  BY DEF TypeOK, OneActiveRun, LedgerIsCurrent, LeaseInv, Owns, Steps
<1> QED
  BY <1>1, <1>2, <1>3, <1>4 DEF Inv

(* Abort keeps the invariant. *)
LEMMA AbortInv == ASSUME NEW p \in Procs, Inv, Abort(p) PROVE Inv'
<1> USE LeaseAssumption DEF Inv, tables, Abort
<1>1. TypeOK'
  BY DEF TypeOK, Steps, Owns, LeaseInv
<1>2. OneActiveRun'
  BY DEF TypeOK, OneActiveRun
<1>3. LedgerIsCurrent'
  BY DEF TypeOK, OneActiveRun, LedgerIsCurrent, LeaseInv, Owns
<1>4. LeaseInv'
  BY DEF TypeOK, OneActiveRun, LedgerIsCurrent, LeaseInv, Owns, Steps
<1> QED
  BY <1>1, <1>2, <1>3, <1>4 DEF Inv

(* Terminate keeps the invariant. *)
LEMMA TerminateInv == ASSUME NEW p \in Procs, Inv, Terminate(p) PROVE Inv'
<1> USE LeaseAssumption DEF Inv, tables, Terminate, HeartbeatFails
<1>1. TypeOK'
  BY DEF TypeOK, Steps, Owns, LeaseInv
<1>2. OneActiveRun'
  BY DEF TypeOK, OneActiveRun
<1>3. LedgerIsCurrent'
  BY DEF TypeOK, OneActiveRun, LedgerIsCurrent, LeaseInv, Owns
<1>4. LeaseInv'
  BY DEF TypeOK, OneActiveRun, LedgerIsCurrent, LeaseInv, Owns, Steps
<1> QED
  BY <1>1, <1>2, <1>3, <1>4 DEF Inv

(* Shutdown keeps the invariant. *)
LEMMA ShutdownInv == ASSUME NEW p \in Procs, Inv, Shutdown(p) PROVE Inv'
<1> USE LeaseAssumption DEF Inv, tables, Shutdown
<1>1. TypeOK'
  BY DEF TypeOK, Steps, Owns, LeaseInv
<1>2. OneActiveRun'
  BY DEF TypeOK, OneActiveRun
<1>3. LedgerIsCurrent'
  BY DEF TypeOK, OneActiveRun, LedgerIsCurrent, LeaseInv, Owns
<1>4. LeaseInv'
  BY DEF TypeOK, OneActiveRun, LedgerIsCurrent, LeaseInv, Owns, Steps
<1> QED
  BY <1>1, <1>2, <1>3, <1>4 DEF Inv

(* StopRun keeps the invariant. *)
LEMMA StopRunInv == ASSUME NEW p \in Procs, Inv, StopRun(p) PROVE Inv'
<1> USE LeaseAssumption DEF Inv, tables, StopRun
<1>1. TypeOK'
  BY DEF TypeOK, Steps, Owns, LeaseInv
<1>2. OneActiveRun'
  BY DEF TypeOK, OneActiveRun
<1>3. LedgerIsCurrent'
  BY DEF TypeOK, OneActiveRun, LedgerIsCurrent, LeaseInv, Owns
<1>4. LeaseInv'
  BY DEF TypeOK, OneActiveRun, LedgerIsCurrent, LeaseInv, Owns, Steps
<1> QED
  BY <1>1, <1>2, <1>3, <1>4 DEF Inv

(* Crash keeps the invariant. *)
LEMMA CrashInv == ASSUME NEW p \in Procs, Inv, Crash(p) PROVE Inv'
<1> USE LeaseAssumption DEF Inv, tables, Crash
<1>1. TypeOK'
  BY DEF TypeOK, Steps, Owns, LeaseInv
<1>2. OneActiveRun'
  BY DEF TypeOK, OneActiveRun
<1>3. LedgerIsCurrent'
  BY DEF TypeOK, OneActiveRun, LedgerIsCurrent, LeaseInv, Owns
<1>4. LeaseInv'
  BY DEF TypeOK, OneActiveRun, LedgerIsCurrent, LeaseInv, Owns, Steps
<1> QED
  BY <1>1, <1>2, <1>3, <1>4 DEF Inv

(* The cost tool and a broken lease connection keep the invariant. *)
LEMMA EnvironmentInv == Inv /\ (RecordCost \/ LoseLease) => Inv'
<1> SUFFICES ASSUME Inv, RecordCost \/ LoseLease PROVE Inv'
  OBVIOUS
<1>1. CASE RecordCost
  BY <1>1, LeaseAssumption
  DEF Inv, RecordCost, TypeOK, OneActiveRun, LedgerIsCurrent, LeaseInv, Owns, Steps
<1>2. CASE LoseLease
  BY <1>2, LeaseAssumption
  DEF Inv, LoseLease, TypeOK, OneActiveRun, LedgerIsCurrent, LeaseInv, Owns, Steps
<1> QED
  BY <1>1, <1>2

(* Every step keeps the invariant. *)
LEMMA NextInv == Inv /\ [Next]_vars => Inv'
<1> SUFFICES ASSUME Inv, [Next]_vars PROVE Inv'
  OBVIOUS
<1>1. CASE UNCHANGED vars
  BY <1>1 DEF Inv, vars, tables, TypeOK, OneActiveRun, LedgerIsCurrent, LeaseInv, Owns
<1>2. CASE RecordCost \/ LoseLease
  BY <1>2, EnvironmentInv
<1>3. ASSUME NEW p \in Procs,
             \/ AcquireLease(p) \/ AssertLease(p) \/ BeginRun(p) \/ CommitRun(p) \/ LoadLedger(p)
             \/ LockAccount(p) \/ AssertOwner(p) \/ CommitAccount(p) \/ Abort(p)
             \/ Terminate(p) \/ Shutdown(p) \/ StopRun(p) \/ Crash(p)
      PROVE  Inv'
  BY <1>3, AcquireLeaseInv, AssertLeaseInv, BeginRunInv, CommitRunInv, LoadLedgerInv, LockAccountInv, AssertOwnerInv, CommitAccountInv, AbortInv, TerminateInv, ShutdownInv, StopRunInv, CrashInv
<1> QED
  BY <1>1, <1>2, <1>3 DEF Next

(* The inductive invariant holds throughout. *)
THEOREM SpecInv == Spec => []Inv
BY InitInv, NextInv, PTL DEF Spec

(* The tables and the processes keep their types. *)
THEOREM SpecTypeOK == Spec => []TypeOK
BY SpecInv, PTL DEF Inv

(* At most one system run is active, for any number of processes: two starts *)
(* that both saw their lease are serialised by the account row.              *)
THEOREM SpecOneActiveRun == Spec => []OneActiveRun
BY SpecInv, PTL DEF Inv

(* The owner's ledger reflects every committed change of the account, so a   *)
(* former owner's open transaction can never commit behind its back.         *)
THEOREM SpecLedgerIsCurrent == Spec => []LedgerIsCurrent
BY SpecInv, PTL DEF Inv

(* Between its ownership check and its commit a writer is not fenced off.    *)
THEOREM SpecLeaseInv == Spec => []LeaseInv
BY SpecInv, PTL DEF Inv
=============================================================================
