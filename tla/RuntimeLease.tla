---------------------------- MODULE RuntimeLease ----------------------------
(***************************************************************************)
(* Who may write the paper account: the advisory lock of a runtime, which  *)
(* lives and dies with one PostgreSQL connection, the system_runs rows, and *)
(* the check every account transaction makes of them under the lock of the *)
(* account row (database.py), as start(), the heartbeat loop and shutdown()*)
(* use them (runtime.py).                                                  *)
(*                                                                         *)
(* version counts the committed changes of the account; seen[p] is the     *)
(* version that the ledger in the memory of process p reflects.            *)
(***************************************************************************)
EXTENDS Integers

CONSTANTS
    Procs,       \* processes that may run the bot
    None,        \* no process
    MaxRuns,     \* bound: system runs ever started
    MaxVersion   \* bound: account transactions

ASSUME LeaseAssumption == None \notin Procs /\ MaxRuns \in Nat /\ MaxVersion \in Nat

VARIABLES
    lease,    \* the process whose connection holds the advisory lock
    lock,     \* the process whose transaction holds the account row
    active,   \* system_runs with no stopped_at
    nextRun,  \* next run id
    version,  \* of the committed account
    pc,       \* "down", "leased", "checked", "starting", "started", "running", "stopping"
    own,      \* _owned_system_run_id, 0 for none
    txn,      \* account transaction: "none", "locked", "asserted"
    seen      \* version reflected by the process's ledger

tables == <<lease, lock, active, nextRun, version>>
vars == <<tables, pc, own, txn, seen>>

Owns(p) == own[p] # 0 /\ own[p] \in active

-----------------------------------------------------------------------------
(* Start *)

(* acquire_runtime_lease: pg_try_advisory_lock on a connection of its own.   *)
AcquireLease(p) ==
    /\ pc[p] = "down" /\ lease = None
    /\ lease' = p
    /\ pc' = [pc EXCEPT ![p] = "leased"]
    /\ UNCHANGED <<lock, active, nextRun, version, own, txn, seen>>

(* start_system_run checks the lease before its transaction begins.          *)
AssertLease(p) ==
    /\ pc[p] = "leased" /\ lease = p
    /\ pc' = [pc EXCEPT ![p] = "checked"]
    /\ UNCHANGED <<tables, own, txn, seen>>

(* Mutant: the transaction of start_system_run ignores the account row *)
BeginRunUnlocked(p) ==
    /\ pc[p] = "checked"
    /\ pc' = [pc EXCEPT ![p] = "starting"]
    /\ UNCHANGED <<tables, own, txn, seen>>

(* ... then waits for the account row ... *)
BeginRun(p) ==
    /\ pc[p] = "checked" /\ lock = None
    /\ lock' = p
    /\ pc' = [pc EXCEPT ![p] = "starting"]
    /\ UNCHANGED <<lease, active, nextRun, version, own, txn, seen>>

(* ... and closes every active run as it inserts its own. *)
CommitRun(p) ==
    /\ pc[p] = "starting" /\ nextRun <= MaxRuns
    /\ active' = {nextRun}
    /\ own' = [own EXCEPT ![p] = nextRun]
    /\ nextRun' = nextRun + 1
    /\ lock' = IF lock = p THEN None ELSE lock
    /\ pc' = [pc EXCEPT ![p] = "started"]
    /\ UNCHANGED <<lease, version, txn, seen>>

(* load_paper_ledger, restore_from_database *)
LoadLedger(p) ==
    /\ pc[p] = "started"
    /\ seen' = [seen EXCEPT ![p] = version]
    /\ pc' = [pc EXCEPT ![p] = "running"]
    /\ UNCHANGED <<tables, own, txn>>

-----------------------------------------------------------------------------
(* Account transactions: commit_paper_entry, commit_paper_exit,             *)
(* update_paper_marks, persist_risk_state                                   *)

LockAccount(p) ==
    /\ pc[p] = "running" /\ txn[p] = "none" /\ lock = None
    /\ lock' = p
    /\ txn' = [txn EXCEPT ![p] = "locked"]
    /\ UNCHANGED <<lease, active, nextRun, version, pc, own, seen>>

(* _assert_transaction_runtime_owner *)
MayWrite(p) == IF own[p] = 0 THEN active = {} ELSE own[p] \in active

AssertOwner(p) ==
    /\ txn[p] = "locked"
    /\ IF MayWrite(p)
       THEN txn' = [txn EXCEPT ![p] = "asserted"] /\ UNCHANGED lock
       ELSE txn' = [txn EXCEPT ![p] = "none"] /\ lock' = None
    /\ UNCHANGED <<lease, active, nextRun, version, pc, own, seen>>

(* The commit, and the ledger of the process follows it. *)
CommitAccount(p) ==
    /\ txn[p] = "asserted" /\ version < MaxVersion
    /\ version' = version + 1
    /\ seen' = [seen EXCEPT ![p] = version + 1]
    /\ txn' = [txn EXCEPT ![p] = "none"] /\ lock' = None
    /\ UNCHANGED <<lease, active, nextRun, pc, own>>

Abort(p) ==
    /\ txn[p] # "none"
    /\ txn' = [txn EXCEPT ![p] = "none"] /\ lock' = None
    /\ UNCHANGED <<lease, active, nextRun, version, pc, own, seen>>

(* record_operational_cost, from the command line, needs a stopped bot.     *)
RecordCost ==
    /\ lock = None /\ active = {} /\ version < MaxVersion
    /\ version' = version + 1
    /\ UNCHANGED <<lease, lock, active, nextRun, pc, own, txn, seen>>

-----------------------------------------------------------------------------
(* Losing the lease, stopping *)

(* The lease connection breaks; the process does not know yet. *)
LoseLease ==
    /\ lease # None
    /\ lease' = None
    /\ UNCHANGED <<lock, active, nextRun, version, pc, own, txn, seen>>

(* Mutant: the heartbeat only looks at the lease *)
HeartbeatFailsLeaseOnly(p) == pc[p] = "running" /\ lease # p

(* heartbeat_system_run: assert_runtime_lease, then the row. *)
HeartbeatFails(p) == pc[p] = "running" /\ (lease # p \/ ~Owns(p))

(* _heartbeat_loop ends the process; start() fails on a lost lease. *)
Terminate(p) ==
    /\ HeartbeatFails(p) \/ (pc[p] = "leased" /\ lease # p)
    /\ pc' = [pc EXCEPT ![p] = "stopping"]
    /\ UNCHANGED <<tables, own, txn, seen>>

Shutdown(p) ==
    /\ pc[p] \in {"leased", "started", "running"}
    /\ pc' = [pc EXCEPT ![p] = "stopping"]
    /\ UNCHANGED <<tables, own, txn, seen>>

(* shutdown(): transactions have ended, stop_system_run closes the process's *)
(* run, release_runtime_lease the lock.                                      *)
StopRun(p) ==
    /\ pc[p] = "stopping" /\ txn[p] = "none"
    /\ active' = active \ {own[p]}
    /\ own' = [own EXCEPT ![p] = 0]
    /\ lease' = IF lease = p THEN None ELSE lease
    /\ pc' = [pc EXCEPT ![p] = "down"]
    /\ UNCHANGED <<lock, nextRun, version, txn, seen>>

(* The process dies: its connections and transactions go, its run stays      *)
(* active until the next one starts.  The commit under way may have happened.*)
Crash(p) ==
    /\ pc[p] # "down"
    /\ \/ UNCHANGED version
       \/ txn[p] = "asserted" /\ version < MaxVersion /\ version' = version + 1
    /\ pc' = [pc EXCEPT ![p] = "down"]
    /\ own' = [own EXCEPT ![p] = 0]
    /\ txn' = [txn EXCEPT ![p] = "none"]
    /\ lock' = IF lock = p THEN None ELSE lock
    /\ lease' = IF lease = p THEN None ELSE lease
    /\ UNCHANGED <<active, nextRun, seen>>

-----------------------------------------------------------------------------

Init ==
    /\ lease = None /\ lock = None /\ active = {} /\ nextRun = 1 /\ version = 0
    /\ pc = [p \in Procs |-> "down"]
    /\ own = [p \in Procs |-> 0]
    /\ txn = [p \in Procs |-> "none"]
    /\ seen = [p \in Procs |-> 0]

Next ==
    \/ \E p \in Procs :
        \/ AcquireLease(p) \/ AssertLease(p) \/ BeginRun(p) \/ CommitRun(p) \/ LoadLedger(p)
        \/ LockAccount(p) \/ AssertOwner(p) \/ CommitAccount(p) \/ Abort(p)
        \/ Terminate(p) \/ Shutdown(p) \/ StopRun(p) \/ Crash(p)
    \/ RecordCost \/ LoseLease

Spec == Init /\ [][Next]_vars

(* The heartbeat loop runs every thirty seconds, transactions end by         *)
(* themselves, and a shutdown that has begun is finished.                    *)
Fairness ==
    \A p \in Procs : /\ WF_vars(Terminate(p)) /\ WF_vars(StopRun(p))
                     /\ WF_vars(AssertOwner(p) \/ Abort(p))

FairSpec == Spec /\ Fairness

-----------------------------------------------------------------------------
(* Properties *)

Steps == {"down", "leased", "checked", "starting", "started", "running", "stopping"}

(* Types of the tables and of the processes. *)
TypeOK ==
    /\ lease \in Procs \cup {None} /\ lock \in Procs \cup {None}
    /\ nextRun \in Nat \ {0} /\ active \subseteq 1..nextRun - 1 /\ version \in Nat
    /\ pc \in [Procs -> Steps]
    /\ own \in [Procs -> Nat]
    /\ txn \in [Procs -> {"none", "locked", "asserted"}]
    /\ seen \in [Procs -> Nat]

(* However leases are lost and taken over, one run at most is active: two    *)
(* starts that both saw their lease are serialised by the account row.       *)
OneActiveRun == \A r, s \in active : r = s

(* The process whose run is active works on the account as it is committed:  *)
(* nothing a former owner or the cost tool wrote is missing from its ledger. *)
LedgerIsCurrent == \A p \in Procs : (pc[p] = "running" /\ Owns(p)) => seen[p] = version

(* Why: a transaction keeps the account row from its check to its commit,    *)
(* and a start that would fence it needs that row, so between the two the    *)
(* writer's run stays active; run ids are never shared.                      *)
LeaseInv ==
    /\ \A p \in Procs : (txn[p] # "none" \/ pc[p] = "starting") => lock = p
    /\ \A p \in Procs : txn[p] # "none" => pc[p] \in {"running", "stopping"} /\ own[p] # 0
    /\ \A p \in Procs : txn[p] = "asserted" => Owns(p)
    /\ \A p \in Procs : (txn[p] # "none" /\ Owns(p)) => seen[p] = version
    /\ \A p \in Procs : pc[p] \in {"started", "running"} => own[p] # 0
    /\ \A p \in Procs : pc[p] \in {"down", "leased", "checked", "starting"} => own[p] = 0
    /\ \A p, q \in Procs : (own[p] = own[q] /\ own[p] # 0) => p = q
    /\ \A p \in Procs : own[p] < nextRun

(* A process that was fenced off ends.                                       *)
FencedProcessesEnd ==
    \A p \in Procs : (pc[p] = "running" /\ ~Owns(p)) ~> pc[p] # "running"
=============================================================================
