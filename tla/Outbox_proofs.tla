---------------------------- MODULE Outbox_proofs ----------------------------
(***************************************************************************)
(* For every set of keys and workers, every batch limit and every number   *)
(* of attempts: the type invariant of Outbox, that no message reaches the  *)
(* chat twice unless an operator retried it, that what is DELIVERED is in  *)
(* the chat, that a settled row stays settled, and that the outbox         *)
(* implements Delivery.                                                    *)
(***************************************************************************)
EXTENDS Outbox, FiniteSetTheorems, TLAPS

(* Tokens are attempt numbers: the row's live token is its last attempt,    *)
(* and no worker holds a token that was not yet issued.                     *)
TokensIssued ==
    \A k \in Keys :
        /\ delivery_state[k] = "SENDING" => claim_token[k] = attempts[k]
        /\ delivery_state[k] = "SENDING" => attempts[k] # 0
        /\ \A w \in Workers : hold[w][k] <= attempts[k]
        /\ \A t \in sent[k] : t <= attempts[k]

(* A token is in the batch of one worker only. *)
TokensUnique ==
    \A v, w \in Workers, k \in Keys :
        hold[v][k] # 0 /\ hold[v][k] = hold[w][k] => v = w

(* The loop variable is an event of the worker's batch, and a token still   *)
(* to be sent, or whose send was refused, has reached nobody.               *)
HeldUnsent ==
    \A w \in Workers, k \in Keys :
        /\ cur[w] = k => hold[w][k] # 0 /\ outcome[w] \in Outcomes
        /\ hold[w][k] # 0 /\ (cur[w] = k => outcome[w] \in {"rejected", "forbidden"})
               => hold[w][k] \notin sent[k]

(* While no operator retried the row, only its last attempt can still be    *)
(* held or have been sent, and none while the row waits to be claimed.      *)
LastAttemptOnly ==
    \A k \in Keys : retries[k] = 0 =>
        /\ \A w \in Workers : hold[w][k] \in {0, attempts[k]}
        /\ \A t \in sent[k] : t = attempts[k]
        /\ delivery_state[k] \in {"ABSENT", "PENDING", "FAILED"}
               => sent[k] = {} /\ \A w \in Workers : hold[w][k] = 0

Inv == TypeOK /\ TokensIssued /\ TokensUnique /\ HeldUnsent /\ LastAttemptOnly

-----------------------------------------------------------------------------
(* The state a mark gives a row is one of the row states. *)
LEMMA MarkedStateType ==
    ASSUME NEW k \in Keys, NEW o \in Outcomes, TypeOK
    PROVE  MarkedState(k, o) \in Deliverable \cup Settled
  BY DEF MarkedState, Outcomes, Deliverable, Settled, TypeOK

(* Only a refused message is put back for another attempt. *)
LEMMA MarkedStateOpen ==
    ASSUME NEW k \in Keys, NEW o \in Outcomes,
           MarkedState(k, o) \in {"ABSENT", "PENDING", "FAILED", "SENDING"}
    PROVE  o = "rejected" /\ MarkedState(k, o) = "FAILED"
  BY DEF MarkedState, Outcomes

(* Stamping a delivery keeps report a function of the report states. *)
LEMMA ReportAfterType ==
    ASSUME NEW k \in Keys, NEW s, TypeOK
    PROVE  ReportAfter(k, s) \in [Keys -> {"none", "stored", "sent"}]
  BY DEF ReportAfter, TypeOK

(* The limit of a poll only leaves rows out. *)
LEMMA ClaimedClaimable ==
    OldestOf(Claimable) \subseteq Claimable
  BY DEF OldestOf

(* No row, no claim, nothing sent. *)
LEMMA InitInv == Init => Inv
<1> SUFFICES ASSUME Init PROVE Inv
  OBVIOUS
<1> USE DEF Init, NoClaims
<1>1. TypeOK
  BY DEF TypeOK, Deliverable, Settled, Outcomes
<1>2. TokensIssued /\ TokensUnique /\ LastAttemptOnly
  BY DEF TokensIssued, TokensUnique, LastAttemptOnly
<1>3. HeldUnsent
  BY OutboxAssumption DEF HeldUnsent
<1> QED BY <1>1, <1>2, <1>3 DEF Inv

-----------------------------------------------------------------------------
(* Inserting a row, or its timer running out, touches no claim. *)
LEMMA RowStepInv ==
    ASSUME Inv, NEW k \in Keys,
           EnqueueOutbox(k) \/ StoreDailyReport(k) \/ TimerElapses(k)
    PROVE  Inv'
<1> USE DEF Inv
<1>1. CASE EnqueueOutbox(k) \/ StoreDailyReport(k)
  <2> USE <1>1 DEF EnqueueOutbox, StoreDailyReport, InsertOutbox, workerVars
  <2>1. 1 + Cardinality({j \in Keys : delivery_state[j] # "ABSENT"}) \in Nat
    BY OutboxAssumption, FS_CardinalityType, FS_Subset
  <2>2. TypeOK'
    <3>1. due' \in [Keys -> BOOLEAN]
      BY DEF TypeOK
    <3>2. report' \in [Keys -> {"none", "stored", "sent"}]
      BY DEF TypeOK
    <3>3. delivery_state' \in [Keys -> {"ABSENT"} \cup Deliverable \cup Settled]
      BY DEF TypeOK, Deliverable
    <3>4. created' \in [Keys -> Nat]
      BY <2>1 DEF TypeOK
    <3> QED BY <3>1, <3>2, <3>3, <3>4 DEF TypeOK
  <2>3. (TokensIssued /\ TokensUnique /\ HeldUnsent)'
    BY DEF TypeOK, TokensIssued, TokensUnique, HeldUnsent
  <2>4. LastAttemptOnly'
    BY DEF TypeOK, LastAttemptOnly
  <2> QED BY <2>2, <2>3, <2>4
<1>2. CASE TimerElapses(k)
  <2> USE <1>2 DEF TimerElapses, workerVars
  <2>1. TypeOK'
    BY DEF TypeOK
  <2>2. (TokensIssued /\ TokensUnique /\ HeldUnsent /\ LastAttemptOnly)'
    BY DEF TokensIssued, TokensUnique, HeldUnsent, LastAttemptOnly
  <2> QED BY <2>1, <2>2
<1> QED BY <1>1, <1>2

(* A poll issues a token larger than every token of the row before it. *)
LEMMA PendingOutboxInv ==
    ASSUME Inv, NEW w \in Workers, PendingOutbox(w)
    PROVE  Inv'
<1> USE DEF Inv, PendingOutbox, Idle, NoClaims
<1> DEFINE claimed == OldestOf(Claimable)
<1>1. /\ claimed \subseteq Keys
      /\ \A k \in claimed : delivery_state[k] \in {"PENDING", "FAILED"}
      /\ \A k \in Expired : delivery_state[k] = "SENDING"
  BY ClaimedClaimable DEF Claimable, Expired
<1>2. \A k \in Keys : hold[w][k] = 0
  BY DEF TypeOK
<1> HIDE DEF claimed
<1>3. /\ delivery_state' = [k \in Keys |->
             IF k \in claimed THEN "SENDING"
             ELSE IF k \in Expired THEN "UNCERTAIN" ELSE delivery_state[k]]
      /\ attempts' = [k \in Keys |->
             IF k \in claimed THEN attempts[k] + 1 ELSE attempts[k]]
      /\ claim_token' = [k \in Keys |->
             IF k \in claimed THEN attempts[k] + 1
             ELSE IF k \in Expired THEN 0 ELSE claim_token[k]]
      /\ due' = [k \in Keys |-> due[k] /\ k \notin claimed]
      /\ hold' = [hold EXCEPT ![w] = [k \in Keys |->
             IF k \in claimed THEN attempts[k] + 1 ELSE 0]]
      /\ UNCHANGED <<created, report, cur, outcome, sent, retries>>
  BY DEF claimed
<1> USE <1>1, <1>2, <1>3
<1> HIDE DEF PendingOutbox
<1>4. TypeOK'
  BY DEF TypeOK, Deliverable, Settled
<1>5. TokensIssued'
  BY DEF TypeOK, TokensIssued
<1>6. TokensUnique'
  BY DEF TypeOK, TokensIssued, TokensUnique
<1>7. HeldUnsent'
  BY DEF TypeOK, TokensIssued, HeldUnsent
<1>8. LastAttemptOnly'
  BY DEF TypeOK, LastAttemptOnly
<1> QED BY <1>4, <1>5, <1>6, <1>7, <1>8

(* A send records a token that had reached nobody. *)
LEMMA SendInv ==
    ASSUME Inv, NEW w \in Workers, NEW k \in Keys, NEW o \in Outcomes, Send(w, k, o)
    PROVE  Inv'
<1> USE DEF Inv, Send, IsNext, rowVars
<1>1. TypeOK'
  BY DEF TypeOK
<1>2. TokensUnique'
  BY DEF TokensUnique
<1>3. \A j \in Keys : \A t \in sent'[j] : t \in sent[j] \/ (j = k /\ t = hold[w][k])
  BY DEF TypeOK
<1>4. TokensIssued'
  BY <1>3 DEF TypeOK, TokensIssued
<1>5. HeldUnsent'
  <2> SUFFICES ASSUME NEW v \in Workers, NEW j \in Keys
               PROVE  /\ cur'[v] = j => hold'[v][j] # 0 /\ outcome'[v] \in Outcomes
                      /\ hold'[v][j] # 0 /\ (cur'[v] = j => outcome'[v] \in {"rejected", "forbidden"})
                            => hold'[v][j] \notin sent'[j]
    BY DEF HeldUnsent
  <2>1. CASE v # w
    BY <2>1, <1>3 DEF TypeOK, HeldUnsent, TokensUnique
  <2>2. CASE v = w /\ j # k
    BY <2>2, <1>3, OutboxAssumption DEF TypeOK, HeldUnsent
  <2>3. CASE v = w /\ j = k
    <3>1. hold[w][k] \notin sent[k]
      BY OutboxAssumption DEF HeldUnsent
    <3> QED BY <2>3, <3>1 DEF TypeOK, Outcomes
  <2> QED BY <2>1, <2>2, <2>3
<1>6. LastAttemptOnly'
  BY DEF TypeOK, LastAttemptOnly
<1> QED BY <1>1, <1>2, <1>4, <1>5, <1>6

(* A mark under a live claim: a refused message was not sent, and its token *)
(* was the only one held.                                                   *)
LEMMA MarkOutboxInv ==
    ASSUME Inv, NEW w \in Workers, NEW k \in Keys, MarkOutbox(w, k)
    PROVE  Inv'
<1> USE DEF Inv, MarkOutbox, ClaimIsValid
<1> DEFINE state == MarkedState(k, outcome[w])
<1>1. cur[w] = k /\ hold[w][k] # 0
  BY DEF HeldUnsent
<1>2. outcome[w] \in Outcomes
  BY <1>1 DEF HeldUnsent
<1>3. state \in Deliverable \cup Settled
  BY <1>2, MarkedStateType
<1>4. state \in {"ABSENT", "PENDING", "FAILED", "SENDING"}
         => outcome[w] = "rejected" /\ state = "FAILED"
  BY <1>2, MarkedStateOpen
<1>5. ReportAfter(k, state) \in [Keys -> {"none", "stored", "sent"}]
  BY ReportAfterType
<1> HIDE DEF state
<1>6. /\ delivery_state' = [delivery_state EXCEPT ![k] = state]
      /\ report' = ReportAfter(k, state)
  BY DEF state
<1>7. due' \in [Keys -> BOOLEAN]
  BY Zenon DEF TypeOK
<1>8. TypeOK'
  BY <1>3, <1>5, <1>6, <1>7 DEF TypeOK
<1>9. TokensIssued' /\ TokensUnique'
  BY <1>4, <1>6 DEF TypeOK, TokensIssued, TokensUnique
<1>10. HeldUnsent'
  BY <1>1, OutboxAssumption DEF TypeOK, HeldUnsent
<1>11. LastAttemptOnly'
  BY <1>1, <1>4, <1>6
  DEF TypeOK, LastAttemptOnly, HeldUnsent, TokensUnique
<1> QED BY <1>8, <1>9, <1>10, <1>11

(* Forgetting a batch only removes held tokens. *)
LEMMA DropBatchInv ==
    ASSUME Inv, NEW w \in Workers, DropBatch(w)
    PROVE  Inv'
<1> USE DEF Inv, DropBatch, NoClaims, rowVars
<1>1. TypeOK'
  BY DEF TypeOK
<1>2. TokensIssued' /\ TokensUnique'
  BY DEF TypeOK, TokensIssued, TokensUnique
<1>3. HeldUnsent'
  BY OutboxAssumption DEF TypeOK, HeldUnsent
<1>4. LastAttemptOnly'
  BY DEF TypeOK, LastAttemptOnly
<1> QED BY <1>1, <1>2, <1>3, <1>4

(* The operator takes a row out of UNCERTAIN, to FAILED only as a retry. *)
LEMMA OperatorInv ==
    ASSUME Inv, NEW k \in Keys,
           OperatorRetry(k) \/ OperatorDelivered(k) \/ OperatorDead(k)
    PROVE  Inv'
<1> USE DEF Inv, OperatorRetry, OperatorDelivered, OperatorDead, ResolveUncertain, workerVars
<1>1. PICK s \in {"FAILED", "DELIVERED", "DEAD"} :
         ResolveUncertain(k, s) /\ (s = "FAILED" => retries' = [retries EXCEPT ![k] = @ + 1])
                                /\ (s # "FAILED" => retries' = retries)
  OBVIOUS
<1>2. ReportAfter(k, s) \in [Keys -> {"none", "stored", "sent"}]
  BY ReportAfterType
<1> HIDE DEF OperatorRetry, OperatorDelivered, OperatorDead
<1>3. due' \in [Keys -> BOOLEAN]
  BY <1>1, (s = "FAILED") \in BOOLEAN, Zenon DEF TypeOK
<1>4. TypeOK'
  BY <1>1, <1>2, <1>3 DEF TypeOK, Deliverable, Settled
<1>5. (TokensIssued /\ TokensUnique /\ HeldUnsent)'
  BY <1>1 DEF TypeOK, TokensIssued, TokensUnique, HeldUnsent
<1>6. LastAttemptOnly'
  BY <1>1 DEF TypeOK, LastAttemptOnly
<1> QED BY <1>4, <1>5, <1>6

-----------------------------------------------------------------------------
(* Every step of the outbox preserves the invariant. *)
LEMMA NextInv == Inv /\ [Next]_vars => Inv'
<1> SUFFICES ASSUME Inv, [Next]_vars PROVE Inv'
  OBVIOUS
<1>1. CASE \E k \in Keys : RowStep(k)
  BY <1>1, RowStepInv, OperatorInv DEF RowStep
<1>2. CASE \E w \in Workers : WorkerStep(w) \/ Crash(w)
  BY <1>2, PendingOutboxInv, SendInv, MarkOutboxInv, DropBatchInv
  DEF WorkerStep, Crash, MarkSuperseded
<1>3. CASE UNCHANGED vars
  BY <1>3 DEF vars, rowVars, workerVars, Inv, TypeOK, TokensIssued, TokensUnique,
              HeldUnsent, LastAttemptOnly
<1> QED BY <1>1, <1>2, <1>3 DEF Next

(* The inductive invariant holds in every reachable state. *)
THEOREM Invariance == Spec => []Inv
  BY InitInv, NextInv, PTL DEF Spec

(* Type correctness of the outbox, for all constants. *)
THEOREM TypeCorrect == Spec => []TypeOK
<1>1. Inv => TypeOK
  BY DEF Inv
<1> QED BY <1>1, Invariance, PTL

(* No message reaches the chat twice unless an operator retried it, whatever *)
(* the workers, crashes, expired leases and superseded claims.               *)
THEOREM AtMostOnce == Spec => []NoAutomaticResend
<1>1. Inv => NoAutomaticResend
  BY DEF Inv, LastAttemptOnly, NoAutomaticResend
<1> QED BY <1>1, Invariance, PTL

(* A row waiting to be claimed was not delivered by an earlier claim and is *)
(* in no worker's hands, unless an operator retried it.                     *)
THEOREM WaitingIsUnsent == Spec => []RetriedOnlyIfUnsent
<1>1. Inv => RetriedOnlyIfUnsent
  BY DEF Inv, LastAttemptOnly, RetriedOnlyIfUnsent
<1> QED BY <1>1, Invariance, PTL

-----------------------------------------------------------------------------
(* What is delivered, and how often *)

(* A message whose send was accepted is in the chat. *)
AcceptedIsSent ==
    \A w \in Workers, k \in Keys :
        cur[w] = k /\ outcome[w] = "accepted" => hold[w][k] \in sent[k]

(* A report row exists exactly with its message. *)
ReportsAreStored ==
    \A k \in Keys : report[k] # "none" <=> (k \in Reports /\ delivery_state[k] # "ABSENT")

(* The tokens of a row that have reached the chat or still may. *)
Live(k) == sent[k] \cup {hold[w][k] : w \in {v \in Workers : hold[v][k] # 0}}

Waiting == {"ABSENT", "PENDING", "FAILED"}

(* One claim and one more for each retry; the next claim of a waiting row   *)
(* is still to come.                                                        *)
LiveBound(k) == retries[k] + IF delivery_state[k] \in Waiting THEN 0 ELSE 1
LiveIsPermitted ==
    \A k \in Keys : /\ Cardinality(Live(k)) <= LiveBound(k)
                    /\ delivery_state[k] = "ABSENT" => retries[k] = 0

Kept == AcceptedIsSent /\ ReportsAreStored /\ DeliveredMeansSent /\ LiveIsPermitted

-----------------------------------------------------------------------------
(* The tokens of a row are finitely many. *)
LEMMA LiveFinite ==
    ASSUME Inv, NEW k \in Keys
    PROVE  /\ IsFiniteSet(Live(k)) /\ Cardinality(Live(k)) \in Nat
           /\ IsFiniteSet(sent[k]) /\ Cardinality(sent[k]) \in Nat
           /\ sent[k] \subseteq Live(k) /\ Cardinality(sent[k]) <= Cardinality(Live(k))
<1>1. attempts[k] \in Nat /\ Live(k) \subseteq 0..attempts[k]
  BY DEF Inv, TypeOK, TokensIssued, Live
<1>2. IsFiniteSet(0..attempts[k])
  BY <1>1, FS_Interval
<1>3. IsFiniteSet(Live(k))
  BY <1>1, <1>2, FS_Subset
<1>4. sent[k] \in SUBSET Live(k)
  BY DEF Live
<1>5. IsFiniteSet(sent[k]) /\ Cardinality(sent[k]) <= Cardinality(Live(k))
  BY <1>3, <1>4, FS_Subset
<1> QED
  BY <1>3, <1>4, <1>5, FS_CardinalityType

(* Losing tokens keeps a row within its bound. *)
LEMMA FewerLive ==
    ASSUME Inv, NEW k \in Keys, NEW S \in SUBSET Live(k)
    PROVE  Cardinality(S) <= Cardinality(Live(k)) /\ Cardinality(S) \in Nat
BY LiveFinite, FS_Subset, FS_CardinalityType

(* Before the first row nothing is sent. *)
LEMMA InitKept == Init => Kept
<1> SUFFICES ASSUME Init PROVE Kept
  OBVIOUS
<1>1. AcceptedIsSent /\ ReportsAreStored /\ DeliveredMeansSent
  BY DEF Init, AcceptedIsSent, ReportsAreStored, DeliveredMeansSent
<1>2. ASSUME NEW k \in Keys PROVE Live(k) = {}
  BY DEF Init, Live, NoClaims
<1>3. LiveIsPermitted
  BY <1>2, FS_EmptySet DEF Init, LiveIsPermitted, LiveBound, Waiting
<1> QED BY <1>1, <1>3 DEF Kept

(* A row appears or its timer runs out: no token moves. *)
LEMMA RowStepKept ==
    ASSUME Inv, Kept, NEW k \in Keys,
           EnqueueOutbox(k) \/ StoreDailyReport(k) \/ TimerElapses(k)
    PROVE  Kept'
<1> USE DEF Inv, TypeOK, EnqueueOutbox, StoreDailyReport, InsertOutbox, TimerElapses, workerVars
<1>1. /\ UNCHANGED <<hold, cur, outcome, sent, retries>>
      /\ delivery_state' = delivery_state
         \/ (delivery_state[k] = "ABSENT" /\ delivery_state' = [delivery_state EXCEPT ![k] = "PENDING"])
  OBVIOUS
<1>2. AcceptedIsSent'
  BY <1>1 DEF Kept, AcceptedIsSent
<1>3. ReportsAreStored' /\ DeliveredMeansSent'
  <2>1. CASE EnqueueOutbox(k)
    BY <2>1 DEF Kept, ReportsAreStored, DeliveredMeansSent
  <2>2. CASE StoreDailyReport(k)
    <3>1. /\ delivery_state[k] = "ABSENT" /\ k \in Reports /\ sent' = sent
          /\ delivery_state' = [delivery_state EXCEPT ![k] = "PENDING"]
          /\ report' = [report EXCEPT ![k] = "stored"]
      BY <2>2
    <3> QED
      BY <3>1 DEF Kept, ReportsAreStored, DeliveredMeansSent
  <2>3. CASE TimerElapses(k)
    BY <2>3 DEF Kept, ReportsAreStored, DeliveredMeansSent
  <2> QED BY <2>1, <2>2, <2>3
<1>4. LiveIsPermitted'
  <2> SUFFICES ASSUME NEW j \in Keys
               PROVE  /\ Cardinality(Live(j))' <= LiveBound(j)'
                      /\ delivery_state'[j] = "ABSENT" => retries'[j] = 0
    BY DEF LiveIsPermitted
  <2>1. Live(j)' = Live(j) /\ LiveBound(j)' = LiveBound(j)
    BY <1>1 DEF Live, LiveBound, Waiting
  <2> QED
    BY <1>1, <2>1 DEF Kept, LiveIsPermitted
<1> QED BY <1>2, <1>3, <1>4 DEF Kept

(* A claim adds one token to a waiting row. *)
LEMMA PendingOutboxKept ==
    ASSUME Inv, Kept, NEW w \in Workers, PendingOutbox(w)
    PROVE  Kept'
<1> DEFINE claimed == OldestOf(Claimable)
<1>1. /\ claimed \subseteq Keys
      /\ \A k \in claimed : delivery_state[k] \in {"PENDING", "FAILED"}
      /\ \A k \in Expired : delivery_state[k] = "SENDING"
  BY ClaimedClaimable DEF Claimable, Expired
<1>2. \A k \in Keys : hold[w][k] = 0
  BY DEF PendingOutbox, Idle, NoClaims, Inv, TypeOK
<1>3. /\ delivery_state' = [k \in Keys |->
             IF k \in claimed THEN "SENDING"
             ELSE IF k \in Expired THEN "UNCERTAIN" ELSE delivery_state[k]]
      /\ hold' = [hold EXCEPT ![w] = [k \in Keys |->
             IF k \in claimed THEN attempts[k] + 1 ELSE 0]]
      /\ UNCHANGED <<report, cur, outcome, sent, retries>>
  BY DEF PendingOutbox
<1> HIDE DEF claimed
<1>4. AcceptedIsSent'
  BY <1>2, <1>3 DEF Kept, AcceptedIsSent, Inv, TypeOK, HeldUnsent
<1>5. ReportsAreStored' /\ DeliveredMeansSent'
  BY <1>1, <1>3 DEF Kept, ReportsAreStored, DeliveredMeansSent
<1>6. LiveIsPermitted'
  <2> SUFFICES ASSUME NEW j \in Keys
               PROVE  /\ Cardinality(Live(j))' <= LiveBound(j)'
                      /\ delivery_state'[j] = "ABSENT" => retries'[j] = 0
    BY DEF LiveIsPermitted
  <2>0. /\ Cardinality(Live(j)) \in Nat /\ IsFiniteSet(Live(j)) /\ Cardinality(Live(j)) <= LiveBound(j)
        /\ retries[j] \in Nat /\ (delivery_state[j] = "ABSENT" => retries[j] = 0)
    BY LiveFinite DEF Kept, LiveIsPermitted, Inv, TypeOK
  <2>1. CASE j \in claimed
    <3>1. Live(j)' = Live(j) \cup {attempts[j] + 1}
      <4>1. \A v \in Workers : hold'[v][j] = IF v = w THEN attempts[j] + 1 ELSE hold[v][j]
        BY <1>3, <2>1 DEF Inv, TypeOK
      <4>2. attempts[j] + 1 # 0
        BY DEF Inv, TypeOK
      <4> QED
        BY <1>2, <1>3, <4>1, <4>2 DEF Live
    <3>2. Cardinality(Live(j) \cup {attempts[j] + 1}) <= Cardinality(Live(j)) + 1
      <4>1. Cardinality(Live(j) \cup {attempts[j] + 1}) =
              IF attempts[j] + 1 \in Live(j) THEN Cardinality(Live(j)) ELSE Cardinality(Live(j)) + 1
        BY <2>0, FS_AddElement
      <4> QED BY <2>0, <4>1
    <3>3. LiveBound(j)' = LiveBound(j) + 1
      BY <1>1, <1>3, <2>0, <2>1 DEF LiveBound, Waiting
    <3>4. Cardinality(Live(j) \cup {attempts[j] + 1}) \in Nat /\ LiveBound(j) \in Nat
      BY <2>0, FS_AddElement, FS_CardinalityType DEF LiveBound
    <3>5. Cardinality(Live(j))' <= LiveBound(j)'
      BY <2>0, <3>1, <3>2, <3>3, <3>4
    <3> QED
      BY <1>3, <2>1, <3>5
  <2>2. CASE j \notin claimed
    <3>1. Live(j)' = Live(j)
      <4>1. \A v \in Workers : hold'[v][j] = hold[v][j]
        BY <1>2, <1>3, <2>2 DEF Inv, TypeOK
      <4> QED
        BY <1>3, <4>1 DEF Live
    <3>2. LiveBound(j)' = LiveBound(j) /\ (delivery_state'[j] = "ABSENT" => delivery_state[j] = "ABSENT")
      BY <1>1, <1>3, <2>2 DEF LiveBound, Waiting
    <3> QED
      BY <1>3, <2>0, <3>1, <3>2
  <2> QED BY <2>1, <2>2
<1> QED BY <1>4, <1>5, <1>6 DEF Kept

(* What a send delivers was live before. *)
LEMMA SendKept ==
    ASSUME Inv, Kept, NEW w \in Workers, NEW k \in Keys, NEW o \in Outcomes, Send(w, k, o)
    PROVE  Kept'
<1> USE DEF Inv, TypeOK
<1>1. /\ UNCHANGED <<delivery_state, report, hold, retries>> /\ hold[w][k] # 0
      /\ cur' = [cur EXCEPT ![w] = k] /\ outcome' = [outcome EXCEPT ![w] = o]
      /\ \/ sent' = [sent EXCEPT ![k] = @ \cup {hold[w][k]}]
         \/ o # "accepted" /\ sent' = sent
  BY DEF Send, IsNext, rowVars
<1>2. \A j \in Keys : sent[j] \subseteq sent'[j] /\ (o = "accepted" => hold[w][k] \in sent'[k])
  BY <1>1
<1>3. AcceptedIsSent'
  BY <1>1, <1>2 DEF Kept, AcceptedIsSent
<1>4. ReportsAreStored' /\ DeliveredMeansSent'
  BY <1>1, <1>2 DEF Kept, ReportsAreStored, DeliveredMeansSent
<1>5. LiveIsPermitted'
  <2> SUFFICES ASSUME NEW j \in Keys
               PROVE  /\ Cardinality(Live(j))' <= LiveBound(j)'
                      /\ delivery_state'[j] = "ABSENT" => retries'[j] = 0
    BY DEF LiveIsPermitted
  <2>1. Live(j)' = Live(j)
    <3>1. sent'[j] = sent[j] \/ (j = k /\ sent'[j] = sent[j] \cup {hold[w][k]})
      BY <1>1
    <3> QED
      BY <1>1, <3>1 DEF Live
  <2>2. LiveBound(j)' = LiveBound(j)
    BY <1>1 DEF LiveBound
  <2> QED
    BY <1>1, <2>1, <2>2 DEF Kept, LiveIsPermitted
<1> QED BY <1>3, <1>4, <1>5 DEF Kept

(* A mark gives up its token; a refused one had reached nobody. *)
LEMMA MarkOutboxKept ==
    ASSUME Inv, Kept, NEW w \in Workers, NEW k \in Keys, MarkOutbox(w, k)
    PROVE  Kept'
<1> DEFINE state == MarkedState(k, outcome[w])
<1>1. cur[w] = k /\ hold[w][k] # 0 /\ outcome[w] \in Outcomes /\ delivery_state[k] = "SENDING"
  BY DEF MarkOutbox, ClaimIsValid, Inv, HeldUnsent
<1>2. /\ state \in Deliverable \cup Settled
      /\ state \in {"ABSENT", "PENDING", "FAILED", "SENDING"} => outcome[w] = "rejected" /\ state = "FAILED"
  BY <1>1, MarkedStateType, MarkedStateOpen DEF Inv
<1>3. state = "DELIVERED" => outcome[w] = "accepted"
  BY <1>1 DEF MarkedState, Outcomes
<1> HIDE DEF state
<1>4. /\ delivery_state' = [delivery_state EXCEPT ![k] = state] /\ report' = ReportAfter(k, state)
      /\ hold' = [hold EXCEPT ![w][k] = 0] /\ cur' = [cur EXCEPT ![w] = "none"]
      /\ outcome' = [outcome EXCEPT ![w] = "none"] /\ UNCHANGED <<sent, retries>>
  BY DEF MarkOutbox, state
<1>5. AcceptedIsSent'
  BY <1>4, OutboxAssumption DEF Kept, AcceptedIsSent, Inv, TypeOK
<1>6. ReportsAreStored'
  BY <1>1, <1>2, <1>4, OutboxAssumption DEF Kept, ReportsAreStored, ReportAfter, Inv, TypeOK
<1>7. DeliveredMeansSent'
  <2>1. state = "DELIVERED" => sent[k] # {}
    BY <1>1, <1>3 DEF Kept, AcceptedIsSent
  <2>2. report[k] # "none" <=> k \in Reports
    BY <1>1 DEF Kept, ReportsAreStored
  <2> QED
    BY <1>1, <1>2, <1>4, <2>1, <2>2 DEF Kept, DeliveredMeansSent, ReportAfter, Inv, TypeOK
<1>8. LiveIsPermitted'
  <2> SUFFICES ASSUME NEW j \in Keys
               PROVE  /\ Cardinality(Live(j))' <= LiveBound(j)'
                      /\ delivery_state'[j] = "ABSENT" => retries'[j] = 0
    BY DEF LiveIsPermitted
  <2>0. /\ Cardinality(Live(j)) \in Nat /\ IsFiniteSet(Live(j)) /\ Cardinality(Live(j)) <= LiveBound(j)
        /\ retries[j] \in Nat /\ (delivery_state[j] = "ABSENT" => retries[j] = 0)
    BY LiveFinite DEF Kept, LiveIsPermitted, Inv, TypeOK
  <2>1. \A v \in Workers : hold'[v][j] = IF v = w /\ j = k THEN 0 ELSE hold[v][j]
    BY <1>4 DEF Inv, TypeOK
  <2>2. Live(j)' \subseteq Live(j)
    BY <1>4, <2>1 DEF Live
  <2>3. Cardinality(Live(j)') <= Cardinality(Live(j)) /\ Cardinality(Live(j)') \in Nat
    BY <2>2, FewerLive
  <2>4. CASE j = k /\ state = "FAILED"
    <3>1. hold[w][k] \notin sent[k] /\ outcome[w] = "rejected"
      BY <1>1, <1>2, <2>4 DEF Inv, HeldUnsent
    <3>2. Live(j)' \subseteq Live(j) \ {hold[w][k]}
      <4>1. \A v \in Workers : v # w => hold[v][k] # hold[w][k]
        BY <1>1 DEF Inv, TokensUnique
      <4> QED
        BY <1>4, <2>1, <2>4, <3>1, <4>1 DEF Live
    <3>3. hold[w][k] \in Live(k)
      BY <1>1 DEF Live
    <3>4. /\ IsFiniteSet(Live(j) \ {hold[w][k]})
          /\ Cardinality(Live(j) \ {hold[w][k]}) = Cardinality(Live(j)) - 1
      BY <2>0, <2>4, <3>3, FS_RemoveElement
    <3>5. Cardinality(Live(j)') <= Cardinality(Live(j)) - 1
      BY <3>2, <3>4, FS_Subset
    <3>6. LiveBound(j)' = LiveBound(j) - 1
      BY <1>1, <1>4, <2>0, <2>4 DEF LiveBound, Waiting, Inv, TypeOK
    <3>7. LiveBound(j) \in Nat
      BY <2>0 DEF LiveBound
    <3>8. Cardinality(Live(j))' <= LiveBound(j)'
      BY <2>0, <2>3, <3>5, <3>6, <3>7
    <3> QED
      BY <1>4, <2>4, <3>8 DEF Inv, TypeOK
  <2>5. CASE ~(j = k /\ state = "FAILED")
    <3>1. LiveBound(j)' = LiveBound(j) /\ (delivery_state'[j] = "ABSENT" => delivery_state[j] = "ABSENT")
      BY <1>1, <1>2, <1>4, <2>5 DEF LiveBound, Waiting, Inv, TypeOK
    <3>2. LiveBound(j) \in Nat
      BY <2>0 DEF LiveBound
    <3> QED
      BY <1>4, <2>0, <2>3, <3>1, <3>2
  <2> QED BY <2>4, <2>5
<1> QED BY <1>5, <1>6, <1>7, <1>8 DEF Kept

(* Forgetting a batch gives up tokens. *)
LEMMA DropBatchKept ==
    ASSUME Inv, Kept, NEW w \in Workers, DropBatch(w)
    PROVE  Kept'
<1>1. /\ UNCHANGED <<delivery_state, report, sent, retries>> /\ hold' = [hold EXCEPT ![w] = NoClaims]
      /\ cur' = [cur EXCEPT ![w] = "none"]  /\ outcome' = [outcome EXCEPT ![w] = "none"]
  BY DEF DropBatch, rowVars
<1>2. AcceptedIsSent'
  BY <1>1, OutboxAssumption DEF Kept, AcceptedIsSent, Inv, TypeOK
<1>3. ReportsAreStored' /\ DeliveredMeansSent'
  BY <1>1 DEF Kept, ReportsAreStored, DeliveredMeansSent
<1>4. LiveIsPermitted'
  <2> SUFFICES ASSUME NEW j \in Keys
               PROVE  /\ Cardinality(Live(j))' <= LiveBound(j)'
                      /\ delivery_state'[j] = "ABSENT" => retries'[j] = 0
    BY DEF LiveIsPermitted
  <2>1. \A v \in Workers : hold'[v][j] \in {0, hold[v][j]}
    BY <1>1 DEF Inv, TypeOK, NoClaims
  <2>2. Live(j)' \subseteq Live(j)
    BY <1>1, <2>1 DEF Live
  <2>3. Cardinality(Live(j)') <= Cardinality(Live(j)) /\ Cardinality(Live(j)') \in Nat
    BY <2>2, FewerLive
  <2>4. LiveBound(j)' = LiveBound(j) /\ LiveBound(j) \in Nat /\ Cardinality(Live(j)) \in Nat
    BY <1>1, LiveFinite DEF LiveBound, Inv, TypeOK
  <2> QED
    BY <1>1, <2>3, <2>4 DEF Kept, LiveIsPermitted
<1> QED BY <1>2, <1>3, <1>4 DEF Kept

(* A retry issues a permit, another decision of the operator none. *)
LEMMA OperatorKept ==
    ASSUME Inv, Kept, NEW k \in Keys,
           OperatorRetry(k) \/ OperatorDelivered(k) \/ OperatorDead(k)
    PROVE  Kept'
<1>1. PICK s \in {"FAILED", "DELIVERED", "DEAD"} :
         /\ ResolveUncertain(k, s)
         /\ s = "FAILED" => retries' = [retries EXCEPT ![k] = @ + 1]
         /\ s # "FAILED" => retries' = retries
         /\ s = "DELIVERED" => sent[k] # {}
  BY DEF OperatorRetry, OperatorDelivered, OperatorDead
<1>2. /\ UNCHANGED <<hold, cur, outcome, sent>> /\ delivery_state[k] = "UNCERTAIN"
      /\ delivery_state' = [delivery_state EXCEPT ![k] = s] /\ report' = ReportAfter(k, s)
  BY <1>1 DEF ResolveUncertain, workerVars
<1>3. AcceptedIsSent'
  BY <1>2 DEF Kept, AcceptedIsSent
<1>4. ReportsAreStored'
  BY <1>2 DEF Kept, ReportsAreStored, ReportAfter, Inv, TypeOK
<1>5. DeliveredMeansSent'
  <2>1. report[k] # "none" <=> k \in Reports
    BY <1>2 DEF Kept, ReportsAreStored
  <2> QED
    BY <1>1, <1>2, <2>1 DEF Kept, DeliveredMeansSent, ReportAfter, Inv, TypeOK
<1>6. LiveIsPermitted'
  <2> SUFFICES ASSUME NEW j \in Keys
               PROVE  /\ Cardinality(Live(j))' <= LiveBound(j)'
                      /\ delivery_state'[j] = "ABSENT" => retries'[j] = 0
    BY DEF LiveIsPermitted
  <2>1. Live(j)' = Live(j)
    BY <1>2 DEF Live
  <2>2. LiveBound(j)' = LiveBound(j) /\ (delivery_state'[j] = "ABSENT" => delivery_state[j] = "ABSENT")
    BY <1>1, <1>2 DEF LiveBound, Waiting, Inv, TypeOK
  <2>3. delivery_state'[j] = "ABSENT" => retries'[j] = retries[j]
    BY <1>1, <1>2 DEF Inv, TypeOK
  <2> QED
    BY <2>1, <2>2, <2>3 DEF Kept, LiveIsPermitted
<1> QED BY <1>3, <1>4, <1>5, <1>6 DEF Kept

(* Every step of the outbox keeps what it knows of deliveries. *)
LEMMA NextKept == Inv /\ Kept /\ [Next]_vars => Kept'
<1> SUFFICES ASSUME Inv, Kept, [Next]_vars PROVE Kept'
  OBVIOUS
<1>1. CASE \E k \in Keys : RowStep(k)
  BY <1>1, RowStepKept, OperatorKept DEF RowStep
<1>2. CASE \E w \in Workers : WorkerStep(w) \/ Crash(w)
  BY <1>2, PendingOutboxKept, SendKept, MarkOutboxKept, DropBatchKept
  DEF WorkerStep, Crash, MarkSuperseded
<1>3. CASE UNCHANGED vars
  <2>1. UNCHANGED <<delivery_state, report, hold, cur, outcome, sent, retries>>
    BY <1>3 DEF vars, rowVars, workerVars
  <2>2. LiveIsPermitted'
    BY <2>1 DEF Kept, LiveIsPermitted, Live, LiveBound
  <2> QED
    BY <2>1, <2>2 DEF Kept, AcceptedIsSent, ReportsAreStored, DeliveredMeansSent
<1> QED BY <1>1, <1>2, <1>3 DEF Next

(* The second invariant holds in every reachable state. *)
THEOREM DeliveriesInvariance == Spec => []Kept
  BY InitKept, NextKept, Invariance, PTL DEF Spec

(* A row is DELIVERED only if the chat has the message, and a daily report  *)
(* is stamped as sent exactly then (mark_outbox_delivered).                 *)
THEOREM DeliveredIsTrue == Spec => []DeliveredMeansSent
<1>1. Kept => DeliveredMeansSent
  BY DEF Kept
<1> QED BY <1>1, DeliveriesInvariance, PTL

(* A late mark changes nothing: DELIVERED and DEAD are final, and UNCERTAIN *)
(* is left only by the operator (_validate_outbox_claim).                   *)
THEOREM SettledForGood == Spec => SettledIsFinal
<1> DEFINE Final ==
      \A k \in Keys :
          /\ delivery_state[k] \in {"DELIVERED", "DEAD"} => delivery_state'[k] = delivery_state[k]
          /\ delivery_state[k] = "UNCERTAIN" /\ delivery_state'[k] # "UNCERTAIN" => UNCHANGED <<hold, cur>>
<1>1. Inv /\ [Next]_vars => [Final]_vars
  <2> SUFFICES ASSUME Inv, Next PROVE Final
    OBVIOUS
  <2>1. CASE \E k \in Keys : RowStep(k)
    <3>1. PICK k \in Keys : RowStep(k)
      BY <2>1
    <3>2. UNCHANGED <<hold, cur>> /\ \A j \in Keys : j # k => delivery_state'[j] = delivery_state[j]
      BY <3>1 DEF RowStep, EnqueueOutbox, StoreDailyReport, InsertOutbox, TimerElapses, OperatorRetry,
         OperatorDelivered, OperatorDead, ResolveUncertain, workerVars, Inv, TypeOK
    <3>3. delivery_state[k] \in {"DELIVERED", "DEAD"} => delivery_state'[k] = delivery_state[k]
      BY <3>1 DEF RowStep, EnqueueOutbox, StoreDailyReport, InsertOutbox, TimerElapses, OperatorRetry,
         OperatorDelivered, OperatorDead, ResolveUncertain
    <3> QED BY <3>2, <3>3
  <2>2. ASSUME NEW w \in Workers, PendingOutbox(w) PROVE Final
    <3>1. /\ \A k \in OldestOf(Claimable) : delivery_state[k] \in {"PENDING", "FAILED"}
          /\ \A k \in Expired : delivery_state[k] = "SENDING"
      BY ClaimedClaimable DEF Claimable, Expired
    <3> QED BY <2>2, <3>1 DEF PendingOutbox
  <2>3. ASSUME NEW w \in Workers, NEW k \in Keys, MarkOutbox(w, k) PROVE Final
    BY <2>3 DEF MarkOutbox, ClaimIsValid, Inv, TypeOK
  <2>4. ASSUME NEW w \in Workers, (\E k \in Keys, o \in Outcomes : Send(w, k, o)) \/ DropBatch(w) PROVE Final
    BY <2>4 DEF Send, DropBatch, rowVars
  <2> QED BY <2>1, <2>2, <2>3, <2>4 DEF Next, WorkerStep, Crash, MarkSuperseded
<1>2. Spec => [][Final]_vars
  BY <1>1, Invariance, PTL DEF Spec
<1> QED BY <1>2 DEF SettledIsFinal

-----------------------------------------------------------------------------
(* The outbox implements Delivery *)

Shows(k, s, c, p) == StatusOf(k) = s /\ CopiesOf(k) = c /\ PermitsOf(k) = p

(* What Delivery allows one message, in terms of its row. *)
RowAllowed(k) ==
    \/ StatusOf(k) = "absent" /\ Shows(k, "open", 0, 1)'
    \/ /\ PermitsOf(k) > 0 /\ StatusOf(k)' = StatusOf(k)
       /\ CopiesOf(k)' = CopiesOf(k) + 1 /\ PermitsOf(k)' = PermitsOf(k) - 1
    \/ /\ StatusOf(k) \in {"open", "unknown"} /\ StatusOf(k)' \in {"unknown", "delivered", "dead"}
       /\ StatusOf(k)' = "delivered" => CopiesOf(k) > 0
       /\ CopiesOf(k)' = CopiesOf(k) /\ PermitsOf(k)' = PermitsOf(k)
    \/ /\ StatusOf(k) = "unknown" /\ CopiesOf(k) = 0
       /\ StatusOf(k)' = "open" /\ CopiesOf(k)' = 0 /\ PermitsOf(k)' = PermitsOf(k) + 1
    \/ /\ StatusOf(k)' = StatusOf(k) /\ CopiesOf(k)' = CopiesOf(k) /\ PermitsOf(k)' = PermitsOf(k)

(* Rows that move as allowed are a step of Delivery. *)
LEMMA AllowedIsNext == ASSUME \A k \in Keys : RowAllowed(k) PROVE Promise!Next
<1> SUFFICES ASSUME NEW m \in Keys
             PROVE  \/ Promise!Accept(m) \/ Promise!Reach(m) \/ Promise!Decide(m)
                    \/ Promise!Reissue(m) \/ Promise!Same(m)
  BY DEF Promise!Next
<1>1. RowAllowed(m)
  OBVIOUS
<1> QED
  BY <1>1 DEF RowAllowed, Shows, Promise!Accept, Promise!Reach, Promise!Decide, Promise!Reissue,
     Promise!Same, Promise!Becomes

(* No row is no message. *)
LEMMA InitRefines == Init => Promise!Init
<1> SUFFICES ASSUME Init PROVE Promise!Init
  OBVIOUS
<1>1. ASSUME NEW k \in Keys PROVE Shows(k, "absent", 0, 0)
  <2>1. delivery_state[k] = "ABSENT" /\ sent[k] = {}
    BY DEF Init
  <2> QED BY <2>1, FS_EmptySet DEF Shows, StatusOf, CopiesOf, PermitsOf, Deliverable
<1> QED BY <1>1 DEF Promise!Init, Shows

(* A row that moves within its class, with nothing sent or retried. *)
LEMMA SameRow ==
    ASSUME NEW k \in Keys, sent'[k] = sent[k], retries'[k] = retries[k],
           StatusOf(k)' = StatusOf(k), delivery_state'[k] = "ABSENT" <=> delivery_state[k] = "ABSENT"
    PROVE  RowAllowed(k)
BY DEF RowAllowed, CopiesOf, PermitsOf

(* A row that is decided. *)
LEMMA DecidedRow ==
    ASSUME Inv, NEW k \in Keys, sent'[k] = sent[k], retries'[k] = retries[k],
           delivery_state[k] \in Deliverable \cup {"UNCERTAIN"}, delivery_state'[k] \in Settled,
           delivery_state'[k] = "DELIVERED" => sent[k] # {}
    PROVE  RowAllowed(k)
<1>1. CopiesOf(k)' = CopiesOf(k) /\ PermitsOf(k)' = PermitsOf(k)
  BY DEF CopiesOf, PermitsOf, Deliverable, Settled
<1>2. StatusOf(k) \in {"open", "unknown"} /\ StatusOf(k)' \in {"unknown", "delivered", "dead"}
  BY DEF StatusOf, Deliverable, Settled
<1>3. StatusOf(k)' = "delivered" => delivery_state'[k] = "DELIVERED"
  BY DEF StatusOf, Deliverable, Settled
<1>4. sent[k] # {} => CopiesOf(k) > 0
  BY LiveFinite, FS_EmptySet DEF CopiesOf
<1> QED BY <1>1, <1>2, <1>3, <1>4 DEF RowAllowed

(* Accepting a message. *)
LEMMA InsertRefines ==
    ASSUME Inv, Kept, NEW k \in Keys, InsertOutbox(k)
    PROVE  \A j \in Keys : RowAllowed(j)
<1>1. /\ delivery_state[k] = "ABSENT" /\ delivery_state' = [delivery_state EXCEPT ![k] = "PENDING"]
      /\ UNCHANGED <<sent, retries>>
  BY DEF InsertOutbox
<1>2. retries[k] = 0 /\ sent[k] = {}
  BY <1>1 DEF Kept, LiveIsPermitted, Inv, LastAttemptOnly
<1>3. RowAllowed(k)
  <2>1. StatusOf(k) = "absent" /\ StatusOf(k)' = "open"
    BY <1>1 DEF StatusOf, Deliverable, Inv, TypeOK
  <2>2. CopiesOf(k)' = 0 /\ PermitsOf(k)' = 1
    BY <1>1, <1>2, FS_EmptySet DEF CopiesOf, PermitsOf, Inv, TypeOK
  <2> QED BY <2>1, <2>2 DEF RowAllowed, Shows
<1>4. \A j \in Keys : j # k => RowAllowed(j)
  BY <1>1, SameRow DEF Inv, TypeOK, StatusOf
<1> QED BY <1>3, <1>4

(* A poll only decides: an expired lease makes the outcome unknown. *)
LEMMA PendingOutboxRefines ==
    ASSUME Inv, NEW w \in Workers, PendingOutbox(w)
    PROVE  \A j \in Keys : RowAllowed(j)
<1> DEFINE claimed == OldestOf(Claimable)
<1>1. /\ \A k \in claimed : delivery_state[k] \in {"PENDING", "FAILED"}
      /\ \A k \in Expired : delivery_state[k] = "SENDING"
  BY ClaimedClaimable DEF Claimable, Expired
<1>2. /\ delivery_state' = [k \in Keys |->
             IF k \in claimed THEN "SENDING"
             ELSE IF k \in Expired THEN "UNCERTAIN" ELSE delivery_state[k]]
      /\ UNCHANGED <<sent, retries>>
  BY DEF PendingOutbox
<1> HIDE DEF claimed
<1> SUFFICES ASSUME NEW j \in Keys PROVE RowAllowed(j)
  OBVIOUS
<1>3. CASE j \in claimed
  <2>1. delivery_state[j] \in {"PENDING", "FAILED"} /\ delivery_state'[j] = "SENDING"
    BY <1>1, <1>2, <1>3
  <2>2. StatusOf(j)' = StatusOf(j)
    BY <2>1 DEF StatusOf, Deliverable
  <2> QED BY <1>2, <2>1, <2>2, SameRow
<1>4. CASE j \in Expired \ claimed
  <2>1. delivery_state[j] = "SENDING" /\ delivery_state'[j] = "UNCERTAIN"
    BY <1>1, <1>2, <1>4
  <2> QED BY <1>2, <2>1, DecidedRow DEF Deliverable, Settled
<1>5. CASE j \notin Expired \cup claimed
  BY <1>2, <1>5, SameRow DEF StatusOf
<1> QED BY <1>3, <1>4, <1>5

(* A send that reaches the chat uses a permit. *)
LEMMA SendRefines ==
    ASSUME Inv, Kept, NEW w \in Workers, NEW k \in Keys, NEW o \in Outcomes, Send(w, k, o)
    PROVE  \A j \in Keys : RowAllowed(j)
<1>1. /\ UNCHANGED <<delivery_state, retries>> /\ hold[w][k] # 0 /\ cur[w] = "none"
      /\ sent' = sent \/ sent' = [sent EXCEPT ![k] = @ \cup {hold[w][k]}]
  BY DEF Send, IsNext, rowVars
<1>2. \A j \in Keys : sent'[j] = sent[j] => RowAllowed(j)
  BY <1>1, SameRow DEF StatusOf
<1>3. CASE sent' = [sent EXCEPT ![k] = @ \cup {hold[w][k]}]
  <2>1. hold[w][k] \notin sent[k]
    BY <1>1, OutboxAssumption DEF Inv, HeldUnsent
  <2>2. delivery_state[k] # "ABSENT"
    BY <1>1 DEF Kept, LiveIsPermitted, Inv, LastAttemptOnly
  <2>3. sent'[k] = sent[k] \cup {hold[w][k]} /\ \A j \in Keys : j # k => sent'[j] = sent[j]
    BY <1>3 DEF Inv, TypeOK
  <2>4. /\ CopiesOf(k) \in Nat /\ CopiesOf(k)' = CopiesOf(k) + 1 /\ retries[k] \in Nat
    BY <2>1, <2>3, LiveFinite, FS_AddElement DEF CopiesOf, Inv, TypeOK
  <2>5. CopiesOf(k)' <= Cardinality(Live(k))
    <3>1. sent'[k] \in SUBSET Live(k)
      BY <1>1, <2>3 DEF Live
    <3> QED BY <3>1, FewerLive DEF CopiesOf
  <2>6. Cardinality(Live(k)) <= retries[k] + 1 /\ Cardinality(Live(k)) \in Nat
    BY <2>4, LiveFinite DEF Kept, LiveIsPermitted, LiveBound
  <2>7. PermitsOf(k) > 0 /\ PermitsOf(k)' = PermitsOf(k) - 1
    BY <1>1, <2>2, <2>4, <2>5, <2>6 DEF PermitsOf
  <2>8. StatusOf(k)' = StatusOf(k)
    BY <1>1 DEF StatusOf
  <2>9. RowAllowed(k)
    BY <2>4, <2>7, <2>8 DEF RowAllowed
  <2> QED BY <1>2, <2>3, <2>9
<1> QED BY <1>1, <1>2, <1>3

(* A mark decides, or leaves the message open for another attempt. *)
LEMMA MarkOutboxRefines ==
    ASSUME Inv, Kept', NEW w \in Workers, NEW k \in Keys, MarkOutbox(w, k)
    PROVE  \A j \in Keys : RowAllowed(j)
<1> DEFINE state == MarkedState(k, outcome[w])
<1>1. outcome[w] \in Outcomes /\ delivery_state[k] = "SENDING"
  BY DEF MarkOutbox, ClaimIsValid, Inv, HeldUnsent
<1>2. /\ state \in Deliverable \cup Settled
      /\ state \in {"ABSENT", "PENDING", "FAILED", "SENDING"} => state = "FAILED"
  BY <1>1, MarkedStateType, MarkedStateOpen DEF Inv
<1> HIDE DEF state
<1>3. delivery_state' = [delivery_state EXCEPT ![k] = state] /\ UNCHANGED <<sent, retries>>
  BY DEF MarkOutbox, state
<1>4. delivery_state'[k] = state /\ \A j \in Keys : j # k => delivery_state'[j] = delivery_state[j]
  BY <1>3 DEF Inv, TypeOK
<1>5. \A j \in Keys : j # k => RowAllowed(j)
  BY <1>3, <1>4, SameRow DEF StatusOf
<1>6. CASE state = "FAILED"
  <2>1. StatusOf(k)' = StatusOf(k)
    BY <1>1, <1>4, <1>6 DEF StatusOf, Deliverable
  <2> QED BY <1>1, <1>3, <1>4, <1>5, <1>6, <2>1, SameRow
<1>7. CASE state # "FAILED"
  <2>1. state \in Settled
    BY <1>2, <1>7 DEF Deliverable
  <2>2. state = "DELIVERED" => sent[k] # {}
    BY <1>3, <1>4 DEF Kept, DeliveredMeansSent
  <2>3. RowAllowed(k)
    BY <1>1, <1>3, <1>4, <2>1, <2>2, DecidedRow DEF Deliverable
  <2> QED BY <1>5, <2>3
<1> QED BY <1>6, <1>7

(* The operator decides, or issues the permit of a retry. *)
LEMMA OperatorRefines ==
    ASSUME Inv, NEW k \in Keys,
           OperatorRetry(k) \/ OperatorDelivered(k) \/ OperatorDead(k)
    PROVE  \A j \in Keys : RowAllowed(j)
<1>1. /\ delivery_state[k] = "UNCERTAIN" /\ sent' = sent
      /\ \E s \in {"FAILED", "DELIVERED", "DEAD"} : delivery_state' = [delivery_state EXCEPT ![k] = s]
      /\ \A j \in Keys : j # k => retries'[j] = retries[j]
  BY DEF OperatorRetry, OperatorDelivered, OperatorDead, ResolveUncertain, Inv, TypeOK
<1>2. \A j \in Keys : j # k => RowAllowed(j)
  <2> SUFFICES ASSUME NEW j \in Keys, j # k PROVE RowAllowed(j)
    OBVIOUS
  <2>1. delivery_state'[j] = delivery_state[j] /\ retries'[j] = retries[j] /\ sent'[j] = sent[j]
    BY <1>1 DEF Inv, TypeOK
  <2> QED BY <2>1, SameRow DEF StatusOf
<1>3. CASE OperatorRetry(k)
  <2>1. /\ sent[k] = {} /\ retries'[k] = retries[k] + 1 /\ retries[k] \in Nat /\ delivery_state'[k] = "FAILED"
    BY <1>3 DEF OperatorRetry, ResolveUncertain, Inv, TypeOK
  <2>2. StatusOf(k) = "unknown" /\ StatusOf(k)' = "open"
    BY <1>1, <2>1 DEF StatusOf, Deliverable
  <2>3. CopiesOf(k) = 0 /\ CopiesOf(k)' = 0
    BY <1>1, <2>1, FS_EmptySet DEF CopiesOf
  <2>4. PermitsOf(k)' = PermitsOf(k) + 1
    BY <1>1, <2>1, <2>3 DEF PermitsOf
  <2> QED BY <1>2, <2>2, <2>3, <2>4 DEF RowAllowed
<1>4. CASE OperatorDelivered(k) \/ OperatorDead(k)
  <2>1. /\ delivery_state'[k] \in {"DELIVERED", "DEAD"} /\ retries' = retries
        /\ delivery_state'[k] = "DELIVERED" => sent[k] # {}
    BY <1>4 DEF OperatorDelivered, OperatorDead, ResolveUncertain, Inv, TypeOK
  <2> QED BY <1>1, <1>2, <2>1, DecidedRow DEF Settled
<1> QED BY <1>3, <1>4

(* A step that changes no row, no retry and nothing sent. *)
LEMMA StutterRefines ==
    ASSUME UNCHANGED <<delivery_state, sent, retries>> PROVE \A j \in Keys : RowAllowed(j)
BY SameRow DEF StatusOf

(* Every step of the outbox is a step of Delivery. *)
LEMMA StepRefines == Inv /\ Kept /\ Kept' /\ [Next]_vars => Promise!Next
<1> SUFFICES ASSUME Inv, Kept, Kept', [Next]_vars PROVE \A j \in Keys : RowAllowed(j)
  BY AllowedIsNext
<1>1. CASE \E k \in Keys : RowStep(k)
  <2>1. ASSUME NEW k \in Keys, TimerElapses(k) PROVE UNCHANGED <<delivery_state, sent, retries>>
    BY <2>1 DEF TimerElapses
  <2> QED
    BY <1>1, <2>1, InsertRefines, OperatorRefines, StutterRefines
    DEF RowStep, EnqueueOutbox, StoreDailyReport
<1>2. CASE \E w \in Workers : WorkerStep(w) \/ Crash(w)
  <2>1. ASSUME NEW w \in Workers, DropBatch(w) PROVE UNCHANGED <<delivery_state, sent, retries>>
    BY <2>1 DEF DropBatch, rowVars
  <2> QED
    BY <1>2, <2>1, PendingOutboxRefines, SendRefines, MarkOutboxRefines, StutterRefines
    DEF WorkerStep, Crash, MarkSuperseded
<1>3. CASE UNCHANGED vars
  BY <1>3, StutterRefines DEF vars, rowVars
<1> QED BY <1>1, <1>2, <1>3 DEF Next

(* The leased, fenced outbox implements the permits of Delivery, for every   *)
(* set of messages and workers: the copies of a message never exceed one     *)
(* plus the operator's retries, nothing is called delivered that reached     *)
(* nobody, and a decided message stays decided.                              *)
THEOREM Implements == Spec => ImplementsDelivery
<1>1. Inv /\ Kept /\ Kept' /\ [Next]_vars => [Promise!Next]_(Promise!vars)
  BY StepRefines
<1> QED
  BY <1>1, InitRefines, Invariance, DeliveriesInvariance, PTL DEF Spec, ImplementsDelivery, Promise!Spec
=============================================================================
