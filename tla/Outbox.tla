------------------------------- MODULE Outbox -------------------------------
(***************************************************************************)
(* The durable Telegram outbox: the rows of outbox_events, the delivery    *)
(* workers (outbox.py), the transactions they call (database.py) and the   *)
(* operator's reconcile_outbox script.                                     *)
(*                                                                         *)
(* A row is named by its idempotency key.  A claim token (a fresh uuid4 in *)
(* the code) is the row's attempt number: every claim increments attempts, *)
(* so the pair (row, attempt) is as unique as the uuid.  The clock is      *)
(* abstracted to one flag per row: due[k] says that available_at has come  *)
(* (a PENDING or FAILED row) or that the 30 second lease has run out (a    *)
(* SENDING row).                                                           *)
(***************************************************************************)
EXTENDS Naturals, FiniteSets

CONSTANTS
    Keys,         \* idempotency keys of the messages the runtime may enqueue
    Workers,      \* delivery workers: one per running process
    Blocked,      \* keys whose type is not allowed or whose text is empty
    Reports,      \* keys of daily reports, stored together with a report row
    BatchLimit,   \* rows claimed by one poll (100 in deliver_once)
    MaxAttempts,  \* attempts after which a rejected row is DEAD (10)
    MaxRetries    \* bound: operator retries of one row

ASSUME OutboxAssumption ==
    /\ IsFiniteSet(Keys)
    /\ Blocked \subseteq Keys /\ Reports \subseteq Keys
    /\ BatchLimit \in Nat \ {0}
    /\ MaxAttempts \in Nat \ {0}
    /\ MaxRetries \in Nat
    /\ "none" \notin Keys

VARIABLES
    delivery_state, \* row state; "ABSENT" before the insert
    attempts,       \* claims made of the row
    claim_token,    \* token of the live claim, 0 for NULL
    due,            \* the row's timer (available_at or lease) has run out
    created,        \* rank of the row in created_at order
    report,         \* daily_reports row: "none", "stored" or "sent"
    hold,           \* hold[w][k]: token of k in w's batch, 0 when not in it
    cur,            \* the event w's loop has an outcome for, or "none"
    outcome,        \* what the send of cur[w] ended in
    sent,           \* history: tokens whose send reached the chat
    retries         \* history: operator retries of the row

rowVars == <<delivery_state, attempts, claim_token, due, created, report>>
workerVars == <<hold, cur, outcome>>
vars == <<rowVars, workerVars, sent, retries>>

Deliverable == {"PENDING", "FAILED", "SENDING"}
Settled == {"DELIVERED", "DEAD", "UNCERTAIN"}
Outcomes == {"accepted", "rejected", "forbidden", "unknown"}

NoClaims == [k \in Keys |-> 0]

Init ==
    /\ delivery_state = [k \in Keys |-> "ABSENT"]
    /\ attempts = [k \in Keys |-> 0]
    /\ claim_token = [k \in Keys |-> 0]
    /\ due = [k \in Keys |-> FALSE]
    /\ created = [k \in Keys |-> 0]
    /\ report = [k \in Keys |-> "none"]
    /\ hold = [w \in Workers |-> NoClaims]
    /\ cur = [w \in Workers |-> "none"]
    /\ outcome = [w \in Workers |-> "none"]
    /\ sent = [k \in Keys |-> {}]
    /\ retries = [k \in Keys |-> 0]

-----------------------------------------------------------------------------
(* _insert_outbox: the row appears once; a conflict on the key does nothing *)
InsertOutbox(k) ==
    /\ delivery_state[k] = "ABSENT"
    /\ delivery_state' = [delivery_state EXCEPT ![k] = "PENDING"]
    /\ due' = [due EXCEPT ![k] = TRUE]
    /\ created' = [created EXCEPT ![k] =
           1 + Cardinality({j \in Keys : delivery_state[j] # "ABSENT"})]
    /\ UNCHANGED <<attempts, claim_token, workerVars, sent, retries>>

EnqueueOutbox(k) ==
    /\ k \notin Reports
    /\ InsertOutbox(k)
    /\ UNCHANGED report

(* The report row and its message are inserted in one transaction. *)
StoreDailyReport(k) ==
    /\ k \in Reports
    /\ report[k] = "none"
    /\ InsertOutbox(k)
    /\ report' = [report EXCEPT ![k] = "stored"]

-----------------------------------------------------------------------------
Idle(w) == hold[w] = NoClaims

(* Mutant: leases never expire *)
ExpiredNever == {}

(* Mutant: an expired lease is claimed again instead of becoming UNCERTAIN *)
ClaimableReclaims ==
    {k \in Keys : delivery_state[k] \in {"PENDING", "FAILED", "SENDING"} /\ due[k]}

(* SENDING rows whose lease ran out, and rows that may be claimed now. *)
Expired == {k \in Keys : delivery_state[k] = "SENDING" /\ due[k]}
Claimable == {k \in Keys : delivery_state[k] \in {"PENDING", "FAILED"} /\ due[k]}

(* ORDER BY created_at LIMIT BatchLimit *)
OldestOf(S) ==
    {k \in S : Cardinality({j \in S : created[j] < created[k]}) < BatchLimit}

(* pending_outbox: expire old leases, then claim a batch under new tokens. *)
PendingOutbox(w) ==
    /\ Idle(w)
    /\ LET claimed == OldestOf(Claimable) IN
       /\ delivery_state' = [k \in Keys |->
              IF k \in claimed THEN "SENDING"
              ELSE IF k \in Expired THEN "UNCERTAIN" ELSE delivery_state[k]]
       /\ attempts' = [k \in Keys |->
              IF k \in claimed THEN attempts[k] + 1 ELSE attempts[k]]
       /\ claim_token' = [k \in Keys |->
              IF k \in claimed THEN attempts[k] + 1
              ELSE IF k \in Expired THEN 0 ELSE claim_token[k]]
       /\ due' = [k \in Keys |-> due[k] /\ k \notin claimed]
       /\ hold' = [hold EXCEPT ![w] = [k \in Keys |->
              IF k \in claimed THEN attempts[k] + 1 ELSE 0]]
    /\ UNCHANGED <<created, report, cur, outcome, sent, retries>>

(* The next event of the batch's for loop: the oldest one still held. *)
IsNext(w, k) ==
    /\ hold[w][k] # 0
    /\ \A j \in Keys : hold[w][j] # 0 => created[k] <= created[j]

(* One iteration up to its mark: a blocked or empty message is not sent; a  *)
(* 2xx answer means the chat has the message, another status that it has    *)
(* not, a disallowed chat is refused before any request, and after any      *)
(* other exception (a timeout) the chat may or may not have it.             *)
Send(w, k, o) ==
    /\ cur[w] = "none" /\ IsNext(w, k)
    /\ k \in Blocked => o = "forbidden"
    /\ cur' = [cur EXCEPT ![w] = k]
    /\ outcome' = [outcome EXCEPT ![w] = o]
    /\ \/ /\ o \in {"accepted", "unknown"}
          /\ sent' = [sent EXCEPT ![k] = @ \cup {hold[w][k]}]
       \/ o # "accepted" /\ UNCHANGED sent
    /\ UNCHANGED <<rowVars, hold, retries>>

-----------------------------------------------------------------------------
(* Mutant: the claim is not validated *)
ClaimIsValidNoFence(w, k) == TRUE

(* _validate_outbox_claim *)
ClaimIsValid(w, k) ==
    delivery_state[k] = "SENDING" /\ claim_token[k] = hold[w][k]

(* Mutant: a timeout is retried like a refusal *)
MarkedStateRetriesUnknown(k, o) ==
    CASE o = "accepted"  -> "DELIVERED"
      [] o = "forbidden" -> "DEAD"
      [] o \in {"rejected", "unknown"}
            -> IF attempts[k] >= MaxAttempts THEN "DEAD" ELSE "FAILED"

(* The state each mark_outbox_* call gives the row. *)
MarkedState(k, o) ==
    CASE o = "accepted"  -> "DELIVERED"
      [] o = "forbidden" -> "DEAD"
      [] o = "rejected"  -> IF attempts[k] >= MaxAttempts THEN "DEAD" ELSE "FAILED"
      [] o = "unknown"   -> "UNCERTAIN"

(* Mutant: the report is not stamped with the delivery *)
ReportAfterForgets(k, state) == report

(* _apply_outbox_delivery also stamps the daily report of the message. *)
ReportAfter(k, state) ==
    IF state = "DELIVERED" /\ report[k] # "none"
    THEN [report EXCEPT ![k] = "sent"] ELSE report

(* mark_outbox_delivered / failed / uncertain / dead under a live claim. *)
MarkOutbox(w, k) ==
    /\ cur[w] = k
    /\ ClaimIsValid(w, k)
    /\ LET state == MarkedState(k, outcome[w]) IN
       /\ delivery_state' = [delivery_state EXCEPT ![k] = state]
       /\ report' = ReportAfter(k, state)
    /\ claim_token' = [claim_token EXCEPT ![k] = 0]
    /\ due' = [due EXCEPT ![k] = FALSE]
    /\ hold' = [hold EXCEPT ![w][k] = 0]
    /\ cur' = [cur EXCEPT ![w] = "none"]
    /\ outcome' = [outcome EXCEPT ![w] = "none"]
    /\ UNCHANGED <<attempts, created, sent, retries>>

DropBatch(w) ==
    /\ hold' = [hold EXCEPT ![w] = NoClaims]
    /\ cur' = [cur EXCEPT ![w] = "none"]
    /\ outcome' = [outcome EXCEPT ![w] = "none"]
    /\ UNCHANGED <<rowVars, sent, retries>>

(* "outbox claim was superseded" leaves deliver_once: _run logs it and the  *)
(* rest of the batch is forgotten, its rows still SENDING.                  *)
MarkSuperseded(w, k) ==
    /\ cur[w] = k
    /\ ~ClaimIsValid(w, k)
    /\ DropBatch(w)

(* A crash, the cancellation by stop(), or a database error in a mark. *)
Crash(w) ==
    /\ ~Idle(w)
    /\ DropBatch(w)

(* Time passes: a back-off or a lease runs out. *)
TimerElapses(k) ==
    /\ delivery_state[k] \in {"FAILED", "SENDING"} /\ ~due[k]
    /\ due' = [due EXCEPT ![k] = TRUE]
    /\ UNCHANGED <<delivery_state, attempts, claim_token, created, report,
                   workerVars, sent, retries>>

-----------------------------------------------------------------------------
(* Mutant: the script does not look at the state of the row *)
ResolveUncertainAnyState(k, state) ==
    /\ delivery_state[k] # "ABSENT"
    /\ delivery_state' = [delivery_state EXCEPT ![k] = state]
    /\ claim_token' = [claim_token EXCEPT ![k] = 0]
    /\ due' = [due EXCEPT ![k] = (state = "FAILED")]
    /\ report' = ReportAfter(k, state)
    /\ UNCHANGED <<attempts, created, workerVars, sent>>

(* resolve_uncertain_outbox, run by an operator who first looks in the chat: *)
(* retry only when the message is not there, delivered with the id of the    *)
(* message that is.                                                          *)
ResolveUncertain(k, state) ==
    /\ delivery_state[k] = "UNCERTAIN"
    /\ delivery_state' = [delivery_state EXCEPT ![k] = state]
    /\ claim_token' = [claim_token EXCEPT ![k] = 0]
    /\ due' = [due EXCEPT ![k] = (state = "FAILED")]
    /\ report' = ReportAfter(k, state)
    /\ UNCHANGED <<attempts, created, workerVars, sent>>

OperatorRetry(k) ==
    /\ retries[k] < MaxRetries
    /\ sent[k] = {}
    /\ ResolveUncertain(k, "FAILED")
    /\ retries' = [retries EXCEPT ![k] = @ + 1]

OperatorDelivered(k) ==
    /\ sent[k] # {}
    /\ ResolveUncertain(k, "DELIVERED")
    /\ UNCHANGED retries

OperatorDead(k) ==
    /\ ResolveUncertain(k, "DEAD")
    /\ UNCHANGED retries

-----------------------------------------------------------------------------
WorkerStep(w) ==
    \/ PendingOutbox(w)
    \/ \E k \in Keys, o \in Outcomes : Send(w, k, o)
    \/ \E k \in Keys : MarkOutbox(w, k)
    \/ \E k \in Keys : MarkSuperseded(w, k)

RowStep(k) ==
    \/ EnqueueOutbox(k)
    \/ StoreDailyReport(k)
    \/ TimerElapses(k)
    \/ OperatorRetry(k)
    \/ OperatorDelivered(k)
    \/ OperatorDead(k)

Next ==
    \/ \E k \in Keys : RowStep(k)
    \/ \E w \in Workers : WorkerStep(w) \/ Crash(w)

(* The worker task polls for ever, every send has a timeout, and time       *)
(* passes.  Nothing obliges the runtime to enqueue, the operator to act, or *)
(* a worker to crash.                                                       *)
Fairness ==
    /\ \A w \in Workers : WF_vars(WorkerStep(w))
    /\ \A k \in Keys : WF_vars(TimerElapses(k))

Spec == Init /\ [][Next]_vars
FairSpec == Spec /\ Fairness

-----------------------------------------------------------------------------
(* The type of every variable. *)
TypeOK ==
    /\ delivery_state \in [Keys -> {"ABSENT"} \cup Deliverable \cup Settled]
    /\ attempts \in [Keys -> Nat]
    /\ claim_token \in [Keys -> Nat]
    /\ due \in [Keys -> BOOLEAN]
    /\ created \in [Keys -> Nat]
    /\ report \in [Keys -> {"none", "stored", "sent"}]
    /\ hold \in [Workers -> [Keys -> Nat]]
    /\ cur \in [Workers -> Keys \cup {"none"}]
    /\ outcome \in [Workers -> Outcomes \cup {"none"}]
    /\ sent \in [Keys -> SUBSET Nat]
    /\ retries \in [Keys -> Nat]

(* Without an operator's retry a message reaches the chat at most once,     *)
(* whatever the crashes, expired leases, superseded claims and back-offs    *)
(* between pending_outbox, the send and its mark.                           *)
NoAutomaticResend ==
    \A k \in Keys : retries[k] = 0 => \A s, t \in sent[k] : s = t

(* A row the worker gave up on as not delivered (FAILED, to be claimed      *)
(* again) was really not delivered by any claim, until an operator retries. *)
RetriedOnlyIfUnsent ==
    \A k \in Keys :
        delivery_state[k] \in {"PENDING", "FAILED"} /\ retries[k] = 0
            => sent[k] = {} /\ \A w \in Workers : hold[w][k] = 0

(* DELIVERED is never claimed for a message that reached nobody, and a      *)
(* daily report is stamped as sent exactly when its message is DELIVERED.   *)
DeliveredMeansSent ==
    \A k \in Keys :
        /\ delivery_state[k] = "DELIVERED" => sent[k] # {}
        /\ (report[k] = "sent") <=> (delivery_state[k] = "DELIVERED" /\ k \in Reports)

(* A worker whose claim was superseded changes nothing: a DELIVERED or DEAD *)
(* row never changes again, and an UNCERTAIN row changes only to a state an *)
(* operator chose, never by a late mark of the claim that expired.          *)
SettledIsFinal ==
    [][\A k \in Keys :
          /\ delivery_state[k] \in {"DELIVERED", "DEAD"}
                 => delivery_state'[k] = delivery_state[k]
          /\ delivery_state[k] = "UNCERTAIN" /\ delivery_state'[k] # "UNCERTAIN"
                 => UNCHANGED <<hold, cur>>]_vars

(* Under the worker's fairness every enqueued message is settled: it is     *)
(* DELIVERED or DEAD, or UNCERTAIN and left to the operator.                *)
EventuallySettled ==
    \A k \in Keys : delivery_state[k] \in Deliverable ~> delivery_state[k] \in Settled

-----------------------------------------------------------------------------
(* A row as the abstract specification sees it. *)
StatusOf(k) ==
    CASE delivery_state[k] = "ABSENT" -> "absent"
      [] delivery_state[k] \in Deliverable -> "open"
      [] delivery_state[k] = "UNCERTAIN" -> "unknown"
      [] delivery_state[k] = "DELIVERED" -> "delivered"
      [] delivery_state[k] = "DEAD" -> "dead"

CopiesOf(k) == Cardinality(sent[k])

PermitsOf(k) ==
    IF delivery_state[k] = "ABSENT" THEN 0 ELSE 1 + retries[k] - CopiesOf(k)

Promise == INSTANCE Delivery WITH
    Messages <- Keys,
    status <- [k \in Keys |-> StatusOf(k)],
    copies <- [k \in Keys |-> CopiesOf(k)],
    permits <- [k \in Keys |-> PermitsOf(k)]

(* The leased, fenced outbox implements the permits of Delivery: the copies *)
(* of a message never exceed one plus the operator's retries, and every     *)
(* change of a row is a settlement or a reconciliation.                     *)
ImplementsDelivery == Promise!Spec

(* docs/TELEGRAM.md: an operator who uses retry "only after confirming that *)
(* Telegram did not deliver the message" causes no second copy.             *)
CarefulRetryIsSafe ==
    \A k \in Keys : \A s, t \in sent[k] : s = t

=============================================================================
