---------------------------- MODULE EventPipeline ----------------------------
(***************************************************************************)
(* The ordered ingestion of decoded events: the durable, state and archive *)
(* workers with their bounded queues (pipeline.py), the claims of          *)
(* event_dedup, raw_chain_events, the stream checkpoints and the archive   *)
(* segments (database.py), and how start() recovers all of it (runtime.py).*)
(*                                                                         *)
(* Events are 1..N in the order of the chain.  The stream delivers each    *)
(* once and may deliver some again; a restarted stream resumes behind the  *)
(* checkpoint.  raw is the table ordered by ingest_sequence.  A claim      *)
(* token is the number of the process that made it.                        *)
(***************************************************************************)
EXTENDS Integers, Sequences, FiniteSetsExt, SequencesExt

CONSTANTS
    N,              \* events
    BadSets,        \* choices of the events whose application always raises
    QueueSize,      \* PIPELINE_STAGE_QUEUE_SIZE
    BatchSize,      \* MAX_EVENT_BATCH_SIZE
    MaxAttempts,    \* MAX_EVENT_PROCESSING_ATTEMPTS
    MaxDuplicates,  \* bound: repeated deliveries
    MaxFaults       \* bound: crashes, lost commits, database errors, takeovers

Events == 1..N

ASSUME PipelineAssumption ==
    /\ N \in Nat \ {0} /\ BadSets \subseteq SUBSET Events
    /\ QueueSize \in Nat \ {0} /\ BatchSize \in Nat \ {0}
    /\ MaxAttempts \in Nat \ {0} /\ MaxDuplicates \in Nat /\ MaxFaults \in Nat

VARIABLES
    bad,        \* events whose application always raises (never changes)
    row,        \* event_dedup: status, token and attempts
    raw,        \* raw_chain_events in the order of ingest_sequence
    effects,    \* how often the state of an event was committed
    points,     \* stream_protocol_checkpoints: durable and state sequence
    archived,   \* events in recorded archive segments
    mem,        \* events applied to the registries of this process
    inc,        \* number of this process
    phase,      \* "down", "loading", "recovering", "archiving", "running", "stopping"
    quarantine, \* event_quarantine: the stream is not started
    todo,       \* unprocessed events start() has loaded
    next,       \* the next new event of the stream
    q,          \* the queues of the three stages
    w,          \* the workers of the three stages
    own,        \* events whose claim token this process holds
    seen,       \* the process-local deduplicator
    fatal,      \* why the state became ambiguous, or "no"
    zombie,     \* a state batch of a process that lost the lease
    duplicates, faults, takeovers   \* bounds and history

store == <<bad, row, raw, effects, points, archived>>
bounds == <<duplicates, faults, takeovers>>
vars == <<store, mem, inc, phase, quarantine, todo, next, q, w, own, seen, fatal, zombie, bounds>>

-----------------------------------------------------------------------------
(* Tables *)

NoRow == [st |-> "NONE", tok |-> 0, att |-> 0]
Stages == {"durable", "state", "archive"}
Idle == [pc |-> "idle", batch |-> <<>>]
NoZombie == [tok |-> 0, batch |-> <<>>]

(* The elements of s that are in A, in the order of their first occurrence. *)
FirstOf(s, A) ==
    LET F[i \in 0..Len(s)] ==
            IF i = 0 THEN <<>>
            ELSE IF s[i] \in A \ Range(F[i - 1]) THEN Append(F[i - 1], s[i]) ELSE F[i - 1]
    IN  F[Len(s)]

Position(e) == CHOOSE i \in 1..Len(raw) : raw[i] = e
Furthest(S, old) == Max({Position(e) : e \in S} \cup {old})

Stored == Range(raw)
Processed == {e \in Events : row[e].st = "PROCESSED"}
Unresolved == {i \in 1..Len(raw) : raw[i] \notin Processed}

(* Mutant: what the state checkpoint covers *)
ProcessedPrefixCheckpoint == 1..points.state

(* _processed_prefix_condition *)
ProcessedPrefix == {i \in 1..Len(raw) : \A j \in Unresolved : i < j}

(* load_protocol_checkpoints: the stream resumes behind the last event of   *)
(* the processed prefix.                                                    *)
ResumeAt == IF ProcessedPrefix = {} THEN 1
            ELSE raw[CHOOSE i \in ProcessedPrefix : \A j \in ProcessedPrefix : j <= i] + 1

(* load_quarantined_event_protocols: an event used up its attempts, or a    *)
(* processed event follows one that is not.                                 *)
Exhausted == {e \in Stored : row[e].st \in {"FAILED", "PROCESSING"} /\ row[e].att >= MaxAttempts}
Quarantined ==
    Exhausted # {} \/ \E i \in Unresolved, j \in 1..Len(raw) : i < j /\ raw[j] \in Processed

(* Mutant: a claim of the previous process is left alone *)
LoadUnprocessedFailed ==
    FirstOf(raw, {e \in Events : row[e].st = "FAILED" /\ row[e].att < MaxAttempts})

(* load_unprocessed_events(include_owned_processing=True) *)
LoadUnprocessed ==
    FirstOf(raw, {e \in Events : row[e].st \in {"FAILED", "PROCESSING"} /\ row[e].att < MaxAttempts})

-----------------------------------------------------------------------------
(* Claims: record_events, mark_events_processed, mark_events_failed *)

(* Mutant: events the process owns already are not handed on again *)
ClaimableUnowned(e) == row[e].st \in {"NONE", "FAILED"}

(* A new row, a failed one, or (resume_owned) one this process has claimed. *)
Claimable(e) ==
    \/ row[e].st \in {"NONE", "FAILED"}
    \/ row[e].st = "PROCESSING" /\ row[e].tok = inc /\ e \in own

(* The first occurrence of an event in a batch counts. *)
Claimed(batch) == FirstOf(batch, {e \in Events : Claimable(e)})

ClaimRows(batch) ==
    [e \in Events |->
        IF e \in Range(batch) /\ row[e].st \in {"NONE", "FAILED"}
        THEN [st |-> "PROCESSING", tok |-> inc, att |-> row[e].att + 1]
        ELSE row[e]]

(* Rows that did not exist take the next ingest sequences. *)
NewRows(batch) == FirstOf(batch, {e \in Events : row[e].st = "NONE"})

(* _event_claim_transaction: tokens are kept for the claims that are        *)
(* durably visible.                                                         *)
KeptTokens(batch) == own \cup Range(Claimed(batch))

RecordEvents(batch) ==
    /\ row' = ClaimRows(batch)
    /\ raw' = raw \o NewRows(batch)
    /\ own' = KeptTokens(batch)

(* Mutant: rows are updated whatever claim they hold *)
HoldsUnfenced(batch, tok) == \A e \in Range(batch) : row[e].st # "NONE" /\ tok > 0

(* _execute_mark_events_processed: all claims or none. *)
Holds(batch, tok) == \A e \in Range(batch) : row[e].st = "PROCESSING" /\ row[e].tok = tok

Settle(batch, status) ==
    row' = [e \in Events |-> IF e \in Range(batch) THEN [row[e] EXCEPT !.st = status, !.tok = 0]
                             ELSE row[e]]

(* _flush_event_state_batch *)
FlushState(batch) ==
    effects' = [e \in Events |-> IF e \in Range(batch) THEN effects[e] + 1 ELSE effects[e]]

(* The state of a batch, its claims and the state checkpoint are one        *)
(* transaction.                                                             *)
CommitState(batch) ==
    /\ Settle(batch, "PROCESSED")
    /\ FlushState(batch)
    /\ points' = [points EXCEPT !.state = Furthest(Range(batch), @)]
    /\ UNCHANGED <<bad, raw, archived>>

(* Mutant: rows are marked failed whatever claim they hold *)
MarkFailedUnfenced(batch, tok) ==
    /\ \/ tok > 0 /\ Settle(batch, "FAILED")
       \/ UNCHANGED row
    /\ UNCHANGED <<bad, raw, effects, points, archived>>

(* mark_events_failed, which is given up when it fails itself or when a     *)
(* claim is gone.                                                           *)
MarkFailed(batch, tok) ==
    /\ \/ Holds(batch, tok) /\ Settle(batch, "FAILED")
       \/ UNCHANGED row
    /\ UNCHANGED <<bad, raw, effects, points, archived>>

-----------------------------------------------------------------------------
Init ==
    /\ bad \in BadSets /\ row = [e \in Events |-> NoRow] /\ raw = <<>> /\ effects = [e \in Events |-> 0]
    /\ points = [durable |-> 0, state |-> 0] /\ archived = {}
    /\ mem = {} /\ inc = 0 /\ phase = "down" /\ quarantine = FALSE /\ todo = <<>> /\ next = 1
    /\ q = [s \in Stages |-> <<>>] /\ w = [s \in Stages |-> Idle]
    /\ own = {} /\ seen = {} /\ fatal = "no" /\ zombie = NoZombie
    /\ duplicates = 0 /\ faults = 0 /\ takeovers = 0

(* What a process leaves behind is in the tables. *)
Gone ==
    /\ phase' = "down" /\ todo' = <<>> /\ mem' = {} /\ own' = {} /\ seen' = {} /\ fatal' = "no"
    /\ q' = [s \in Stages |-> <<>>] /\ w' = [s \in Stages |-> Idle]
    /\ UNCHANGED <<inc, next, quarantine>>

-----------------------------------------------------------------------------
(* start(): rehydrate, quarantine or recover, resume the stream, archive *)

Boot ==
    /\ phase = "down"
    /\ phase' = "loading" /\ inc' = inc + 1
    /\ mem' = {raw[i] : i \in ProcessedPrefix}
    /\ quarantine' = Quarantined
    /\ UNCHANGED <<store, todo, next, q, w, own, seen, fatal, zombie, bounds>>

LoadTodo ==
    /\ phase = "loading"
    /\ phase' = "recovering"
    /\ todo' = IF quarantine THEN <<>> ELSE LoadUnprocessed
    /\ UNCHANGED <<store, mem, inc, quarantine, next, q, w, own, seen, fatal, zombie, bounds>>

(* process_event(recovering=True) claims with reclaim=True; an event that   *)
(* was processed in the meantime is skipped.                                *)
RecoverClaim ==
    /\ phase = "recovering" /\ todo # <<>> /\ Head(todo) \notin own
    /\ IF row[Head(todo)].st = "PROCESSED"
       THEN todo' = Tail(todo) /\ UNCHANGED <<row, own>>
       ELSE /\ row' = [row EXCEPT ![Head(todo)] =
                          [st |-> "PROCESSING", tok |-> inc, att |-> @.att + 1]]
            /\ own' = own \cup {Head(todo)}
            /\ UNCHANGED todo
    /\ UNCHANGED <<bad, raw, effects, points, archived, mem, inc, phase, quarantine, next, q, w,
                   seen, fatal, zombie, bounds>>

(* A recovered event commits without a state checkpoint. *)
RecoverApply ==
    /\ phase = "recovering" /\ todo # <<>> /\ Head(todo) \in own \ bad
    /\ Holds(<<Head(todo)>>, inc)
    /\ Settle(<<Head(todo)>>, "PROCESSED")
    /\ effects' = [effects EXCEPT ![Head(todo)] = @ + 1]
    /\ mem' = mem \cup {Head(todo)} /\ seen' = seen \cup {Head(todo)}
    /\ own' = own \ {Head(todo)} /\ todo' = Tail(todo)
    /\ UNCHANGED <<bad, raw, points, archived, inc, phase, quarantine, next, q, w, fatal, zombie, bounds>>

(* An exception fails the start; the supervisor starts the next process. *)
RecoverFails ==
    /\ phase = "recovering" /\ todo # <<>> /\ Head(todo) \in own
    /\ \/ Head(todo) \in bad /\ UNCHANGED faults
       \/ Head(todo) \notin bad /\ faults < MaxFaults /\ faults' = faults + 1
    /\ MarkFailed(<<Head(todo)>>, inc)
    /\ Gone
    /\ UNCHANGED <<zombie, duplicates, takeovers>>

EndRecovery ==
    /\ phase = "recovering" /\ todo = <<>>
    /\ phase' = "archiving" /\ next' = ResumeAt
    /\ UNCHANGED <<store, mem, inc, quarantine, todo, q, w, own, seen, fatal, zombie, bounds>>

(* start_background_workers: rows behind the last segment, in batches. *)
LastArchived == Furthest(archived, 0)

(* record_raw_archive_segments *)
RecordSegments(batch) == archived' = archived \cup Range(batch)

ArchiveRecovery ==
    /\ phase = "archiving"
    /\ IF LastArchived < Len(raw)
       THEN RecordSegments(SubSeq(raw, LastArchived + 1, Min({LastArchived + BatchSize, Len(raw)})))
            /\ UNCHANGED phase
       ELSE phase' = "running" /\ UNCHANGED archived
    /\ UNCHANGED <<bad, row, raw, effects, points, mem, inc, quarantine, todo, next, q, w, own, seen,
                   fatal, zombie, bounds>>

-----------------------------------------------------------------------------
(* process_transactions puts a decoded batch on the durable queue *)

Deliver(e) ==
    /\ phase = "running" /\ ~quarantine /\ fatal = "no"
    /\ Len(q["durable"]) < QueueSize
    /\ \/ e = next /\ next' = next + 1 /\ UNCHANGED duplicates
       \/ e < next /\ duplicates < MaxDuplicates /\ duplicates' = duplicates + 1 /\ UNCHANGED next
    /\ q' = [q EXCEPT !["durable"] = Append(@, <<e>>)]
    /\ UNCHANGED <<store, mem, inc, phase, quarantine, todo, w, own, seen, fatal, zombie,
                   faults, takeovers>>

(* _run_stage_worker and _collect_stage_batch: as many queued batches as    *)
(* fit, at least one.  One that does not fit stays first in line.           *)
Fits(s, k) == k = 1 \/ Len(FlattenSeq(SubSeq(q[s], 1, k))) <= BatchSize
Collect(s) == CHOOSE k \in 1..Len(q[s]) : Fits(s, k) /\ \A j \in 1..Len(q[s]) : Fits(s, j) => j <= k

Take(s) ==
    /\ phase \in {"running", "stopping"} /\ w[s].pc = "idle" /\ q[s] # <<>>
    /\ w' = [w EXCEPT ![s] = [pc |-> "work", batch |-> FlattenSeq(SubSeq(q[s], 1, Collect(s)))]]
    /\ q' = [q EXCEPT ![s] = SubSeq(@, Collect(s) + 1, Len(@))]
    /\ UNCHANGED <<store, mem, inc, phase, quarantine, todo, next, own, seen, fatal, zombie, bounds>>

Done(s) == w' = [w EXCEPT ![s] = Idle]

-----------------------------------------------------------------------------
(* _apply_durable_batch *)

DurableInsert ==
    LET batch == w["durable"].batch
        claimed == Claimed(batch)
    IN  /\ w["durable"].pc = "work"
        /\ RecordEvents(batch)
        /\ IF claimed = <<>> THEN Done("durable")
           ELSE w' = [w EXCEPT !["durable"] = [pc |-> "save", batch |-> claimed]]
        /\ UNCHANGED <<bad, effects, points, archived, mem, inc, phase, quarantine, todo, next, q, seen,
                       fatal, zombie, bounds>>

(* The commit lands and its acknowledgement is lost: the tokens are kept    *)
(* and the batch is tried again.                                            *)
DurableInsertLost ==
    /\ w["durable"].pc = "work" /\ faults < MaxFaults
    /\ RecordEvents(w["durable"].batch)
    /\ faults' = faults + 1
    /\ UNCHANGED <<bad, effects, points, archived, mem, inc, phase, quarantine, todo, next, q, w, seen,
                   fatal, zombie, duplicates, takeovers>>

DurableCheckpoint ==
    /\ w["durable"].pc = "save"
    /\ points' = [points EXCEPT !.durable = Furthest(Range(w["durable"].batch), @)]
    /\ w' = [w EXCEPT !["durable"].pc = "put state"]
    /\ UNCHANGED <<bad, row, raw, effects, archived, mem, inc, phase, quarantine, todo, next, q, own,
                   seen, fatal, zombie, bounds>>

(* The whole batch is claimed again. *)
DurableCheckpointFails ==
    /\ w["durable"].pc = "save" /\ faults < MaxFaults
    /\ w' = [w EXCEPT !["durable"].pc = "work"]
    /\ faults' = faults + 1
    /\ UNCHANGED <<store, mem, inc, phase, quarantine, todo, next, q, own, seen, fatal, zombie,
                   duplicates, takeovers>>

(* _enqueue_stage waits for room in the bounded queue. *)
Enqueue(s) ==
    /\ w["durable"].pc = (IF s = "state" THEN "put state" ELSE "put archive")
    /\ Len(q[s]) < QueueSize
    /\ q' = [q EXCEPT ![s] = Append(@, w["durable"].batch)]
    /\ IF s = "state" THEN w' = [w EXCEPT !["durable"].pc = "put archive"] ELSE Done("durable")
    /\ UNCHANGED <<store, mem, inc, phase, quarantine, todo, next, own, seen, fatal, zombie, bounds>>

-----------------------------------------------------------------------------
(* _apply_state_batch and _process_claimed_event_batch *)

StateBatch == w["state"].batch

(* The local deduplicator rejects an event that the database has claimed.   *)
Rejected == \/ Range(StateBatch) \cap seen # {}
            \/ \E i, j \in 1..Len(StateBatch) : i < j /\ StateBatch[i] = StateBatch[j]

(* Mutant: the state checkpoint is saved before the claims are checked *)
StateCommitEarlyCheckpoint ==
    /\ w["state"].pc = "work" /\ ~Rejected /\ Range(StateBatch) \cap bad = {}
    /\ points.state < Furthest(Range(StateBatch), points.state)
    /\ points' = [points EXCEPT !.state = Furthest(Range(StateBatch), @)]
    /\ UNCHANGED <<bad, row, raw, effects, archived, mem, inc, phase, quarantine, todo, next, q, w, own,
                   seen, fatal, zombie, bounds>>

StateCommit ==
    /\ w["state"].pc = "work" /\ ~Rejected /\ Range(StateBatch) \cap bad = {}
    /\ Holds(StateBatch, inc)
    /\ CommitState(StateBatch)
    /\ mem' = mem \cup Range(StateBatch) /\ seen' = seen \cup Range(StateBatch)
    /\ own' = own \ Range(StateBatch)
    /\ Done("state")
    /\ UNCHANGED <<inc, phase, quarantine, todo, next, q, fatal, zombie, bounds>>

(* A failure poisons the state, marks the claims failed if it can, asks for *)
(* a restart and ends the state worker.                                     *)
StateWorkerDies(why) ==
    /\ fatal' = IF fatal = "no" THEN why ELSE fatal
    /\ w' = [w EXCEPT !["state"] = [pc |-> "dead", batch |-> <<>>]]
    /\ seen' = seen \cup Range(StateBatch)
    /\ own' = own \ {e \in Range(StateBatch) : row'[e].st # "PROCESSING"}
    /\ UNCHANGED <<inc, phase, quarantine, todo, next, q, zombie, duplicates, takeovers>>

StateFails ==
    /\ w["state"].pc = "work"
    /\ MarkFailed(StateBatch, inc)
    /\ \/ Rejected /\ StateWorkerDies("duplicate") /\ UNCHANGED faults
       \/ ~Rejected /\ Range(StateBatch) \cap bad # {} /\ StateWorkerDies("bad")
          /\ UNCHANGED faults
       \/ faults < MaxFaults /\ StateWorkerDies("database") /\ faults' = faults + 1
    /\ UNCHANGED mem

(* The commit lands and raises: mark_events_failed finds no claim. *)
StateCommitLost ==
    /\ w["state"].pc = "work" /\ ~Rejected /\ Range(StateBatch) \cap bad = {}
    /\ Holds(StateBatch, inc) /\ faults < MaxFaults
    /\ CommitState(StateBatch)
    /\ mem' = mem \cup Range(StateBatch)
    /\ StateWorkerDies("database")
    /\ faults' = faults + 1

-----------------------------------------------------------------------------
(* _apply_archive_batch: retried until the segments are recorded *)

(* Mutant: a batch that fails is dropped *)
ArchiveBatchDropped ==
    /\ w["archive"].pc = "work"
    /\ archived' \in {archived, archived \cup Range(w["archive"].batch)}
    /\ Done("archive")
    /\ UNCHANGED <<bad, row, raw, effects, points, mem, inc, phase, quarantine, todo, next, q, own, seen,
                   fatal, zombie, bounds>>

ArchiveBatch ==
    /\ w["archive"].pc = "work"
    /\ RecordSegments(w["archive"].batch)
    /\ Done("archive")
    /\ UNCHANGED <<bad, row, raw, effects, points, mem, inc, phase, quarantine, todo, next, q, own, seen,
                   fatal, zombie, bounds>>

-----------------------------------------------------------------------------
(* Shutdown, crash and takeover *)

(* SIGTERM of the fatal handler, or of the operator. *)
BeginStop ==
    /\ phase = "running"
    /\ \/ fatal # "no" /\ UNCHANGED faults
       \/ fatal = "no" /\ faults < MaxFaults /\ faults' = faults + 1
    /\ phase' = "stopping"
    /\ UNCHANGED <<store, mem, inc, quarantine, todo, next, q, w, own, seen, fatal, zombie,
                   duplicates, takeovers>>

Drained(s) == q[s] = <<>> /\ w[s].pc \in {"idle", "dead"}

(* Mutant: the state queue is not joined *)
StopDrainedEarly ==
    /\ phase = "stopping" /\ Drained("durable") /\ Drained("archive")
    /\ Gone
    /\ UNCHANGED <<store, zombie, bounds>>

(* stop_background_workers: the three queues are joined in order. *)
StopDrained ==
    /\ phase = "stopping" /\ \A s \in Stages : Drained(s)
    /\ Gone
    /\ UNCHANGED <<store, zombie, bounds>>

(* Mutant: the join has no timeout *)
StopTimesOutNever ==
    /\ phase = "stopping" /\ \A s \in Stages : Drained(s)
    /\ Gone
    /\ UNCHANGED <<store, zombie, bounds>>

(* The join times out and the workers are cancelled; a cancelled state      *)
(* batch is marked failed.                                                  *)
StopTimesOut ==
    /\ phase = "stopping" /\ \E s \in Stages : ~Drained(s)
    /\ MarkFailed(StateBatch, inc)
    /\ Gone
    /\ UNCHANGED <<zombie, bounds>>

Crash ==
    /\ phase # "down" /\ faults < MaxFaults
    /\ Gone
    /\ faults' = faults + 1
    /\ UNCHANGED <<store, zombie, duplicates, takeovers>>

(* The lease connection is lost while a state batch is open, and the next   *)
(* process starts before the heartbeat of this one notices.                 *)
Takeover ==
    /\ phase = "running" /\ w["state"].pc = "work" /\ faults < MaxFaults /\ zombie = NoZombie
    /\ zombie' = [tok |-> inc, batch |-> StateBatch]
    /\ Gone
    /\ faults' = faults + 1 /\ takeovers' = takeovers + 1
    /\ UNCHANGED <<store, duplicates>>

ZombieCommits ==
    /\ zombie # NoZombie /\ Holds(zombie.batch, zombie.tok)
    /\ Range(zombie.batch) \cap bad = {}
    /\ CommitState(zombie.batch)
    /\ zombie' = NoZombie
    /\ UNCHANGED <<mem, inc, phase, quarantine, todo, next, q, w, own, seen, fatal, bounds>>

ZombieFails ==
    /\ zombie # NoZombie
    /\ MarkFailed(zombie.batch, zombie.tok)
    /\ zombie' = NoZombie
    /\ UNCHANGED <<mem, inc, phase, quarantine, todo, next, q, w, own, seen, fatal, bounds>>

-----------------------------------------------------------------------------
Start == Boot \/ LoadTodo \/ RecoverClaim \/ RecoverApply \/ EndRecovery \/ ArchiveRecovery
Work == \/ \E s \in Stages : Take(s)
        \/ DurableInsert \/ DurableCheckpoint \/ \E s \in {"state", "archive"} : Enqueue(s)
        \/ StateCommit \/ ArchiveBatch
Fault == \/ RecoverFails \/ DurableInsertLost \/ DurableCheckpointFails \/ StateFails
         \/ StateCommitLost \/ Crash \/ Takeover

Next == \/ Start \/ Work \/ Fault \/ \E e \in Events : Deliver(e)
        \/ BeginStop \/ StopDrained \/ StopTimesOut \/ ZombieCommits \/ ZombieFails

Spec == Init /\ [][Next]_vars

(* The supervisor restarts the process, its tasks run, the stream delivers  *)
(* what comes next, and a fatal error ends in a stop, by timeout at last.   *)
Fairness ==
    /\ WF_vars(Start) /\ WF_vars(RecoverFails) /\ WF_vars(Deliver(next))
    /\ \A s \in Stages : WF_vars(Take(s))
    /\ WF_vars(DurableInsert) /\ WF_vars(DurableCheckpoint)
    /\ \A s \in {"state", "archive"} : WF_vars(Enqueue(s))
    /\ WF_vars(StateCommit \/ StateFails) /\ WF_vars(ArchiveBatch)
    /\ WF_vars(fatal # "no" /\ BeginStop) /\ WF_vars(StopDrained \/ StopTimesOut)

FairSpec == Spec /\ Fairness

-----------------------------------------------------------------------------
(* Properties *)

(* The type of every variable. *)
TypeOK ==
    /\ bad \in BadSets
    /\ row \in [Events -> [st : {"NONE", "PROCESSING", "FAILED", "PROCESSED"}, tok : Nat, att : Nat]]
    /\ raw \in Seq(Events) /\ effects \in [Events -> Nat]
    /\ points \in [durable : Nat, state : Nat] /\ archived \subseteq Events
    /\ mem \subseteq Events /\ own \subseteq Events /\ seen \subseteq Events
    /\ inc \in Nat /\ next \in 1..(N + 1) /\ quarantine \in BOOLEAN
    /\ phase \in {"down", "loading", "recovering", "archiving", "running", "stopping"}
    /\ todo \in Seq(Events) /\ q \in [Stages -> Seq(Seq(Events))]
    /\ w \in [Stages -> [pc : {"idle", "work", "save", "put state", "put archive", "dead"},
                         batch : Seq(Events)]]
    /\ fatal \in {"no", "bad", "duplicate", "database"}
    /\ zombie \in [tok : Nat, batch : Seq(Events)]
    /\ duplicates \in Nat /\ faults \in Nat /\ takeovers \in Nat

(* The state of an event is committed at most once, through duplicates,     *)
(* lost commits, restarts and a process that lost the lease: the claim      *)
(* tokens fence it (mark_events_processed).                                 *)
AppliedOnce == \A e \in Events : effects[e] <= 1 /\ (e \in Processed <=> effects[e] = 1)

(* Events are processed in ingest order: no processed row follows an open   *)
(* one, so a restart quarantines only for an event that used up its         *)
(* attempts.                                                                *)
ProcessedInOrder == \A i, j \in 1..Len(raw) : i < j /\ raw[j] \in Processed => raw[i] \in Processed

(* The checkpoints never run ahead of what they stand for: what lies behind *)
(* the state checkpoint is processed, behind the durable one is stored      *)
(* (save_stream_protocol_checkpoints).                                      *)
CheckpointsAreReached ==
    /\ points.durable <= Len(raw)
    /\ \A i \in 1..points.state : raw[i] \in Processed

(* The archive has no hole: every stored event up to the last archived      *)
(* sequence is in a segment (start_background_workers).                     *)
ArchiveHasNoHole == \A i \in 1..LastArchived : raw[i] \in archived

(* A running process has applied in memory every event that the database    *)
(* calls processed, unless it took over from a live one.                    *)
MemoryIsComplete ==
    phase \in {"running", "stopping"} /\ takeovers = 0 /\ ~quarantine => Processed \subseteq mem

(* A shutdown that drained its queues leaves no event open and none         *)
(* unarchived, unless the state worker died or the pipeline is quarantined. *)
DrainIsComplete ==
    [][StopDrained /\ fatal = "no" /\ zombie = NoZombie /\ ~quarantine
        => Stored \subseteq Processed /\ Stored \subseteq archived]_vars

(* Seen through its tables, the pipeline is a log that is applied exactly    *)
(* once and in order (EventLog): raw_chain_events only grows, a PROCESSED row *)
(* is never opened again, and each commit of a state or of a segment takes   *)
(* the next events in line, whichever process makes it.                      *)
Log == INSTANCE EventLog WITH log <- raw, done <- Processed, times <- effects, kept <- archived
ImplementsEventLog == Log!Spec

(* Every event of the chain is eventually processed for good, or the        *)
(* pipeline is quarantined for an event that used up its attempts.          *)
EventuallyProcessed == <>[](Events \subseteq Processed \/ (quarantine /\ Exhausted # {}))

(* pipeline.py raises "durably claimed batch event was rejected by local    *)
(* deduplication" when the two disagree: they never do.                     *)
ClaimsAgreeWithDeduplicator == fatal # "duplicate"
=============================================================================
