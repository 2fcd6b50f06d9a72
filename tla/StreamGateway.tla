---------------------------- MODULE StreamGateway ----------------------------
(***************************************************************************)
(* HeliusStreamGateway (stream.py): connection, subscription and gap       *)
(* recovery (_run), the notification queue and its dispatcher, the ordered *)
(* block-time fetches of the logs fallback, the processing queue and its   *)
(* worker, the checkpoint, the entry gate, and the stream_recovery_gaps    *)
(* rows it has the database write.                                         *)
(*                                                                         *)
(* The transactions of one protocol are 1..N in chain order; transaction 1 *)
(* was handled before the first start.  Sixty-second windows are the       *)
(* booleans they decide: whether the checkpoint is recent, and how far the *)
(* warmup of a baseline is.  log is the history of the processing queue,   *)
(* of which the first done entries are handled.                            *)
(***************************************************************************)
EXTENDS Integers, Sequences, SequencesExt

CONSTANTS
    N,          \* transactions
    QueueSize,  \* queue_size
    IngressSize,\* notification_queue_size
    BufLimit,   \* SUBSCRIPTION_MESSAGE_BUFFER_LIMIT
    MaxTasks,   \* log_fetch_concurrency
    Halts,      \* values of halt_on_unrecoverable_gap
    MaxFaults   \* bound: disconnects, failed calls, ageing, crashes, stops

Txs == 1..N

ASSUME StreamAssumption ==
    /\ N \in Nat \ {0} /\ QueueSize \in Nat \ {0} /\ IngressSize \in Nat \ {0}
    /\ BufLimit \in Nat /\ MaxTasks \in Nat \ {0} /\ Halts \subseteq BOOLEAN
    /\ MaxFaults \in Nat

VARIABLES
    chain,      \* transactions the chain has confirmed
    conn,       \* "down", "subscribing", "recovering", "committing", "replaying",
                \* "live", "ended" (_run has returned), "stopping", "off"
    wire,       \* next transaction this socket will deliver
    logsOnly,   \* logsSubscribe fallback
    buf,        \* pending_handshake_messages
    live,       \* messages buffered while the gap is recovered
    rec,        \* recovered transactions still to be queued
    notif,      \* _notification_queue
    disp,       \* _dispatch_notifications and the item it holds
    tasks,      \* ordered log dispatch tasks
    cp,         \* last signature (0: no checkpoint)
    recent,     \* last_observed_at is within MAX_GAP_RECOVERY_AGE
    halt,       \* halt_on_unrecoverable_gap
    log, done,  \* _queue with its past, and how much of it is handled
    processed,  \* last_processed_block_time is set
    gen,        \* _stream_generation; not reset, only equality counts
    baseline,   \* "none", "warming", "elapsed", "inherited"
    gates,      \* EntryGate._reasons
    recPending, \* _dispatch_recovery_pending
    reconnect,  \* _reconnect_requested
    gap,        \* stream_recovery_gaps: a PENDING and an ACCEPTED row
    lost,       \* history: how transactions were given up
    warm,       \* history: LIVE_BASELINE_WARMUP has passed in this generation
    faults

socket == <<conn, wire, logsOnly, buf, live, rec>>
ingress == <<notif, disp, tasks>>
point == <<cp, recent, halt, processed>>
queue == <<log, done>>
base == <<gen, baseline, warm>>
flags == <<recPending, reconnect>>
vars == <<chain, socket, ingress, point, queue, base, gates, flags, gap, lost, faults>>

-----------------------------------------------------------------------------
(* Queue, sources, losses *)

NoItem == [t |-> 0, g |-> 0, w |-> FALSE]
NoDisp == [st |-> "none", item |-> NoItem]
Running == [st |-> "run", item |-> NoItem]
Logged(l) == {l[i].t : i \in 1..Len(l)}
Handled == Logged(SubSeq(log, 1, done))
Room == Len(log) - done < QueueSize
Fault == faults < MaxFaults /\ faults' = faults + 1
Causes == {"unavailable", "cancelled", "accepted", "unanchored"}
GivenUp == UNION {lost[c] : c \in Causes}
Lose(c, S) == lost' = [lost EXCEPT ![c] = @ \cup S]

(* Tradable only in the generation that received it and after the warmup. *)
SourceOf(item, b) ==
    IF item.g = gen /\ (b = "inherited" \/ (b = "elapsed" /\ item.w)) THEN "live" ELSE "baseline"

(* The first transaction dispatched in a generation starts its baseline at   *)
(* the time it was received, which for one kept from an earlier connection   *)
(* may lie more than a warmup in the past.                                   *)
BaselineAfter(item) ==
    IF baseline # "none" THEN {baseline}
    ELSE {"warming"} \cup (IF item.g # gen THEN {"inherited"} ELSE {})

Entry(item, b) == [t |-> item.t, src |-> SourceOf(item, b), g |-> item.g]

(* _queue_transaction up to its queue.put: the checkpoint moves first. *)
Observe(item) ==
    /\ cp' = item.t
    /\ baseline' \in BaselineAfter(item)
    /\ UNCHANGED <<gen, warm>>

-----------------------------------------------------------------------------
(* Notifications: handle_message, _enqueue_notification_dispatch *)

Produce ==
    /\ chain < N
    /\ chain' = chain + 1
    /\ UNCHANGED <<socket, ingress, point, queue, base, gates, flags, gap, lost, faults>>

Stamp(t) == [t |-> t, g |-> gen, w |-> baseline \in {"elapsed", "inherited"}]

(* Mutant: a dispatcher that has ended is not replaced *)
EnqueueNotificationOnce(t) ==
    /\ ~reconnect /\ Len(notif) < IngressSize
    /\ notif' = Append(notif, Stamp(t))
    /\ disp' = IF disp.st = "none" /\ gen = 1 THEN Running ELSE disp
    /\ recent' = TRUE

(* Room in the ingress queue, and no reconnect was asked for. *)
EnqueueNotification(t) ==
    /\ ~reconnect /\ Len(notif) < IngressSize
    /\ notif' = Append(notif, Stamp(t))
    /\ disp' = IF disp.st = "none" THEN Running ELSE disp
    /\ recent' = TRUE

(* _recover_gap_with_live_buffer and _collect_acknowledgements buffer what   *)
(* arrives.                                                                  *)
BufferMessage ==
    /\ wire <= chain /\ wire' = wire + 1
    /\ \/ conn = "subscribing" /\ Len(buf) < BufLimit
          /\ buf' = Append(buf, wire) /\ UNCHANGED live
       \/ conn = "recovering" /\ Len(buf \o live) < BufLimit
          /\ live' = Append(live, wire) /\ UNCHANGED buf
    /\ UNCHANGED <<chain, conn, logsOnly, rec, ingress, point, queue, base, gates, flags, gap, lost, faults>>

Receive ==
    /\ conn = "live" /\ wire <= chain
    /\ EnqueueNotification(wire)
    /\ wire' = wire + 1
    /\ UNCHANGED <<chain, conn, logsOnly, buf, live, rec, tasks, cp, halt, processed, queue, base, gates, flags, gap, lost, faults>>

(* _cancel_log_fetch_tasks: an item blocked in queue.put is cancelled after  *)
(* the checkpoint has moved to it.                                           *)
Blocked ==
    (IF disp.st = "put" THEN {disp.item.t} ELSE {})
    \cup {tasks[i].item.t : i \in {j \in 1..Len(tasks) : tasks[j].st = "put"}}

CancelDispatch ==
    /\ disp' = NoDisp /\ tasks' = <<>>
    /\ Lose("cancelled", Blocked)
    /\ recPending' = (recPending \/ tasks # <<>> \/ notif # <<>>)

GateAfterCancel ==
    gates \cup {"stream_disconnected"}
          \cup (IF tasks # <<>> \/ notif # <<>> THEN {"stream_recovery_gap"} ELSE {})

(* The connection ends: the finally of _run.  What was buffered while a gap  *)
(* was recovered is dropped with it, pending_handshake_messages is kept.     *)
Leave(c) ==
    /\ conn' = c
    /\ live' = <<>> /\ rec' = <<>>
    /\ CancelDispatch
    /\ gates' = GateAfterCancel
    /\ UNCHANGED <<chain, wire, notif, point, queue, base, gap>>

Connected == {"subscribing", "recovering", "committing", "replaying", "live"}

(* The socket fails, a subscription is refused, an RPC call of the recovery  *)
(* raises.  While recovered transactions are queued the socket is not read.  *)
Drop ==
    /\ conn \in Connected \ {"committing"} /\ Fault
    /\ Leave("down")
    /\ UNCHANGED <<logsOnly, buf, reconnect>>

(* A dispatch asked for a reconnect: _receive_or_reconnect, handle_message. *)
Reconnect ==
    /\ conn \in {"replaying", "live"} /\ reconnect
    /\ Leave("down")
    /\ UNCHANGED <<logsOnly, buf, reconnect, faults>>

(* The ingress queue is full: fatal, so the process stops without a          *)
(* dispatcher that could still drain it.                                     *)
IngressOverflow ==
    /\ conn \in {"replaying", "live"} /\ ~reconnect /\ Len(notif) = IngressSize
    /\ conn = "live" => wire <= chain
    /\ conn = "replaying" => buf # <<>>
    /\ conn' = "stopping" /\ reconnect' = TRUE /\ recPending' = TRUE
    /\ live' = <<>> /\ rec' = <<>>
    /\ disp' = NoDisp /\ tasks' = <<>> /\ Lose("cancelled", Blocked)
    /\ gates' = GateAfterCancel \cup {"stream_fetch_error"}
    /\ UNCHANGED <<chain, wire, logsOnly, buf, notif, point, queue, base, gap, faults>>

-----------------------------------------------------------------------------
(* _run: connect, subscribe, recover, replay *)

Unrecoverable == cp # 0 /\ ~recent

BeginBaseline == gen' = gen + 1 /\ baseline' = "none" /\ warm' = FALSE

Open ==
    /\ conn = "down" /\ ~(Unrecoverable /\ halt)
    /\ conn' = "subscribing" /\ wire' = chain + 1 /\ reconnect' = FALSE
    /\ BeginBaseline
    /\ gates' = gates \cup {"stream_disconnected", "stream_baseline", "stream_stale"}
    /\ UNCHANGED <<chain, logsOnly, buf, live, rec, ingress, point, queue, recPending, gap, lost, faults>>

(* _hold_for_unrecoverable_gap *)
Hold ==
    /\ conn = "down" /\ Unrecoverable /\ halt
    /\ gates' = gates \cup {"stream_disconnected", "stream_recovery_gap"}
    /\ gap' = [gap EXCEPT !.pending = TRUE]
    /\ <<gates, gap>>' # <<gates, gap>>
    /\ UNCHANGED <<chain, socket, ingress, point, queue, base, flags, lost, faults>>

(* The transaction subscription is not acknowledged. *)
UseLogsFallback ==
    /\ conn = "subscribing" /\ ~logsOnly
    /\ logsOnly' = TRUE
    /\ Leave("down")
    /\ UNCHANGED <<buf, reconnect, faults>>

(* The handshake buffer is full: _run returns. *)
HandshakeOverflow ==
    /\ conn = "subscribing" /\ wire <= chain /\ Len(buf) = BufLimit
    /\ Leave("ended")
    /\ UNCHANGED <<logsOnly, buf, reconnect, faults>>

(* Without a checkpoint nothing is recovered; what the socket has not shown  *)
(* is never asked for.                                                       *)
SubscribedFresh ==
    /\ conn = "subscribing" /\ cp = 0
    /\ conn' = "replaying"
    /\ Lose("unanchored", (1..wire - 1) \ Logged(log))
    /\ UNCHANGED <<chain, wire, logsOnly, buf, live, rec, ingress, point, queue, base, gates, flags, gap, faults>>

(* Mutant: the checkpoint is discarded before the row is written *)
AcceptGapUnrecorded ==
    /\ conn = "subscribing" /\ Unrecoverable
    /\ conn' = "replaying" /\ cp' = 0 /\ recent' = FALSE /\ processed' = FALSE
    /\ BeginBaseline
    /\ Lose("accepted", (1..chain) \ Logged(log))
    /\ gates' = gates \ {"stream_recovery_gap"}
    /\ gap' \in {gap, [pending |-> FALSE, accepted |-> TRUE]}
    /\ UNCHANGED <<chain, wire, logsOnly, buf, live, rec, ingress, halt, queue, flags, faults>>

(* An old checkpoint: the hole is recorded, then the checkpoint discarded    *)
(* (record_stream_recovery_gap, _discard_in_memory_checkpoint).              *)
AcceptGap ==
    /\ conn = "subscribing" /\ Unrecoverable
    /\ conn' = "replaying" /\ cp' = 0 /\ recent' = FALSE /\ processed' = FALSE
    /\ BeginBaseline
    /\ Lose("accepted", (1..chain) \ Logged(log))
    /\ gates' = gates \ {"stream_recovery_gap"}
    /\ gap' = [pending |-> FALSE, accepted |-> TRUE]
    /\ UNCHANGED <<chain, wire, logsOnly, buf, live, rec, ingress, halt, queue, flags, faults>>

SubscribedRecent ==
    /\ conn = "subscribing" /\ cp # 0 /\ recent
    /\ conn' = "recovering"
    /\ UNCHANGED <<chain, wire, logsOnly, buf, live, rec, ingress, point, queue, base, gates, flags, gap, lost, faults>>

(* _recover_gap: every signature after the checkpoint; one whose transaction *)
(* get_transaction does not know is skipped.                                 *)
RecoverGap ==
    /\ conn = "recovering"
    /\ \/ /\ rec' = [i \in 1..chain - cp |-> cp + i]
          /\ UNCHANGED <<lost, faults>>
       \/ \E skipped \in cp + 1..chain :
          /\ Fault
          /\ rec' = [i \in 1..chain - cp - 1 |-> IF cp + i < skipped THEN cp + i ELSE cp + i + 1]
          /\ Lose("unavailable", {skipped})
    /\ conn' = "committing"
    /\ buf' = buf \o live /\ live' = <<>>
    /\ UNCHANGED <<chain, wire, logsOnly, ingress, point, queue, base, gates, flags, gap>>

(* The fifteen seconds are over or the buffer is full: retry from the kept   *)
(* checkpoint.                                                               *)
GapTimeout ==
    /\ conn = "recovering"
    /\ \/ Fault /\ gap' \in {gap, [gap EXCEPT !.pending = TRUE]}
       \/ /\ wire <= chain /\ Len(buf \o live) = BufLimit
          /\ gap' = [gap EXCEPT !.pending = TRUE] /\ UNCHANGED faults
    /\ conn' = "down" /\ buf' = <<>> /\ live' = <<>> /\ rec' = <<>>
    /\ CancelDispatch
    /\ gates' = GateAfterCancel \cup {"stream_recovery_gap"}
    /\ UNCHANGED <<chain, wire, logsOnly, notif, point, queue, base, reconnect>>

(* _commit_recovered_events *)
CommitRecovered ==
    /\ conn = "committing" /\ rec # <<>> /\ Room
    /\ cp' = Head(rec)
    /\ log' = Append(log, [t |-> Head(rec), src |-> "recovery", g |-> gen])
    /\ rec' = Tail(rec)
    /\ UNCHANGED <<chain, conn, wire, logsOnly, buf, live, ingress, recent, halt, processed, done, base, gates, flags, gap, lost, faults>>

(* Everything is queued: recovery is over and the gap rows are resolved. *)
GapRecovered ==
    /\ conn = "committing" /\ rec = <<>>
    /\ conn' = "replaying"
    /\ recPending' = FALSE
    /\ gates' = gates \ {"stream_recovery_gap"}
    /\ gap' = [gap EXCEPT !.pending = FALSE]
    /\ UNCHANGED <<chain, wire, logsOnly, buf, live, rec, ingress, point, queue, base, reconnect, lost, faults>>

(* Writing the gap rows fails, before the checkpoint is discarded or after   *)
(* the gate was opened.                                                      *)
GapRowFails ==
    /\ Fault
    /\ conn' = "down" /\ CancelDispatch
    /\ \/ /\ conn = "subscribing" /\ Unrecoverable
          /\ gates' = GateAfterCancel \cup {"stream_recovery_gap"}
       \/ /\ conn = "committing" /\ rec = <<>>
          /\ gates' = (gates \ {"stream_recovery_gap"}) \cup (GateAfterCancel \ gates)
    /\ UNCHANGED <<chain, wire, logsOnly, buf, live, rec, notif, point, queue, base, reconnect, gap>>

Replay ==
    /\ conn = "replaying" /\ buf # <<>>
    /\ EnqueueNotification(Head(buf))
    /\ buf' = Tail(buf)
    /\ UNCHANGED <<chain, conn, wire, logsOnly, live, rec, tasks, cp, halt, processed, queue, base, gates, flags, gap, lost, faults>>

GoLive ==
    /\ conn = "replaying" /\ buf = <<>>
    /\ conn' = "live"
    /\ gates' = gates \ {"startup", "stream_disconnected"}
    /\ UNCHANGED <<chain, wire, logsOnly, buf, live, rec, ingress, point, queue, base, flags, gap, lost, faults>>

-----------------------------------------------------------------------------
(* _dispatch_notifications *)

DispatchTake ==
    /\ disp.st = "run" /\ notif # <<>>
    /\ notif' = Tail(notif)
    /\ IF logsOnly
       THEN disp' = [st |-> "permit", item |-> Head(notif)] /\ UNCHANGED <<cp, baseline>>
       ELSE /\ disp' = [st |-> "put", item |-> Head(notif)]
            /\ cp' = Head(notif).t /\ baseline' \in BaselineAfter(Head(notif))
    /\ UNCHANGED <<chain, socket, tasks, recent, halt, processed, queue, gen, warm, gates, flags, gap, lost, faults>>

DispatchPut ==
    /\ disp.st = "put" /\ Room
    /\ log' = Append(log, Entry(disp.item, baseline))
    /\ disp' = Running
    /\ UNCHANGED <<chain, socket, notif, tasks, point, done, base, gates, flags, gap, lost, faults>>

(* _spawn_ordered_log_dispatch, with a permit of the semaphore *)
DispatchSpawn ==
    /\ disp.st = "permit" /\ ~reconnect /\ Len(tasks) < MaxTasks
    /\ tasks' = Append(tasks, [st |-> "fetch", item |-> disp.item])
    /\ disp' = Running
    /\ UNCHANGED <<chain, socket, notif, point, queue, base, gates, flags, gap, lost, faults>>

(* _acquire_log_fetch_permit raises when a reconnect was asked for. *)
DispatchRefused ==
    /\ disp.st = "permit" /\ reconnect
    /\ disp' = NoDisp
    /\ recPending' = TRUE /\ gates' = gates \cup {"stream_fetch_error"}
    /\ UNCHANGED <<chain, socket, notif, tasks, point, queue, base, reconnect, gap, lost, faults>>

-----------------------------------------------------------------------------
(* _fetch_block_time_and_dispatch_logs *)

FetchOk(i) ==
    /\ i <= Len(tasks) /\ tasks[i].st = "fetch"
    /\ tasks' = [tasks EXCEPT ![i].st = "ready"]
    /\ UNCHANGED <<chain, socket, notif, disp, point, queue, base, gates, flags, gap, lost, faults>>

(* Mutant: a failed fetch is skipped *)
FetchFailsSkips(i) ==
    /\ i <= Len(tasks) /\ tasks[i].st = "fetch" /\ Fault
    /\ tasks' = RemoveAt(tasks, i)
    /\ UNCHANGED <<chain, socket, notif, disp, point, queue, base, gates, flags, gap, lost>>

(* No block time: this task and, through `await previous`, every later one   *)
(* ends without dispatching.                                                 *)
FetchFails(i) ==
    /\ i <= Len(tasks) /\ tasks[i].st = "fetch" /\ Fault
    /\ tasks' = SubSeq(tasks, 1, i - 1)
    /\ recPending' = TRUE /\ reconnect' = TRUE
    /\ gates' = gates \cup {"stream_fetch_error"}
    /\ UNCHANGED <<chain, socket, notif, disp, point, queue, base, gap, lost>>

(* Mutant: without `await previous` *)
MayDispatchUnordered(i) == i <= Len(tasks) /\ tasks[i].st = "ready"

(* `await previous`: the tasks before this one have dispatched. *)
MayDispatch(i) == i = 1 /\ tasks # <<>> /\ tasks[1].st = "ready"

TaskObserve(i) ==
    /\ MayDispatch(i)
    /\ Observe(tasks[i].item)
    /\ tasks' = [tasks EXCEPT ![i].st = "put"]
    /\ UNCHANGED <<chain, socket, notif, disp, recent, halt, processed, queue, gates, flags, gap, lost, faults>>

TaskPut(i) ==
    /\ i <= Len(tasks) /\ tasks[i].st = "put" /\ Room
    /\ log' = Append(log, Entry(tasks[i].item, baseline))
    /\ tasks' = RemoveAt(tasks, i)
    /\ gates' = IF recPending THEN gates ELSE gates \ {"stream_fetch_error"}
    /\ UNCHANGED <<chain, socket, notif, disp, point, done, base, flags, gap, lost, faults>>

-----------------------------------------------------------------------------
(* _worker, refresh_freshness, time *)

WorkerHandle ==
    /\ conn # "off" /\ done < Len(log)
    /\ done' = done + 1 /\ processed' = TRUE
    /\ gates' = gates \ {"event_processing_error"}
    /\ UNCHANGED <<chain, socket, ingress, cp, recent, halt, log, base, flags, gap, lost, faults>>

WorkerFails ==
    /\ conn # "off" /\ done < Len(log) /\ Fault
    /\ gates' = gates \cup {"event_processing_error"}
    /\ UNCHANGED <<chain, socket, ingress, point, queue, base, flags, gap, lost>>

(* Mutant: the recovery flag is cleared without a look at the reconnect *)
MayForgetRecoveryEarly(stale) == recPending /\ ~stale

MayForgetRecovery(stale) == recPending /\ ~stale /\ ~reconnect

(* Fresh only if something was observed recently and handled since the start *)
(* or the discarded checkpoint.                                              *)
RefreshFreshness ==
    /\ conn # "off"
    /\ \E stale \in {TRUE, ~(recent /\ processed)} :
          LET fresh == (gates \ {"stream_stale"}) \cup (IF stale THEN {"stream_stale"} ELSE {})
              ready == baseline \in {"elapsed", "inherited"}
              forget == ready /\ MayForgetRecovery(stale)
          IN  /\ recPending' = (recPending /\ ~forget)
              /\ gates' = IF ready
                          THEN fresh \ ({"stream_baseline"}
                                        \cup (IF forget THEN {"stream_fetch_error"} ELSE {}))
                          ELSE fresh \cup {"stream_baseline"}
    /\ UNCHANGED <<chain, socket, ingress, point, queue, base, reconnect, gap, lost, faults>>

WarmupElapses ==
    /\ baseline = "warming" /\ conn # "off"
    /\ baseline' = "elapsed" /\ warm' = TRUE
    /\ UNCHANGED <<chain, socket, ingress, point, queue, gen, gates, flags, gap, lost, faults>>

(* Nothing is observed for MAX_GAP_RECOVERY_AGE. *)
Age ==
    /\ conn \in {"down", "off"} /\ recent /\ Fault
    /\ recent' = FALSE
    /\ UNCHANGED <<chain, socket, ingress, cp, halt, processed, queue, base, gates, flags, gap, lost>>

-----------------------------------------------------------------------------
(* stop, crash, start *)

(* The processed prefix of raw_chain_events: repeated transactions add no row. *)
FirstSeen(i) == \A j \in 1..i - 1 : log[j].t # log[i].t

Restored(t) ==
    \E i \in 1..done :
        FirstSeen(i) /\ (\A j \in i + 1..done : ~FirstSeen(j)) /\ t = log[i].t

BeginStop ==
    /\ conn \notin {"stopping", "off"} /\ Fault
    /\ conn' = "stopping" /\ live' = <<>> /\ rec' = <<>>
    /\ gates' = gates \cup {"stream_disconnected"}
    /\ UNCHANGED <<chain, wire, logsOnly, buf, ingress, point, queue, base, flags, gap, lost>>

(* The ingress queues do not drain in SHUTDOWN_DRAIN_TIMEOUT_SECONDS, or a   *)
(* dispatch raises: what is left of them is cancelled.                       *)
StopTimesOut ==
    /\ conn = "stopping" /\ (notif # <<>> \/ disp.st \in {"permit", "put"} \/ tasks # <<>>)
    /\ notif' = <<>> /\ CancelDispatch
    /\ gates' = gates \cup {"stream_recovery_gap"}
    /\ UNCHANGED <<chain, socket, point, queue, base, reconnect, gap, faults>>

Stopped ==
    /\ conn = "stopping" /\ notif = <<>> /\ disp.st \in {"none", "run"} /\ tasks = <<>>
    /\ done = Len(log)
    /\ conn' = "off" /\ disp' = NoDisp
    /\ UNCHANGED <<chain, wire, logsOnly, buf, live, rec, notif, tasks, point, queue, base, gates, flags, gap, lost, faults>>

(* A new process: restore_checkpoint and start.  An operator may have        *)
(* cleared halt_on_unrecoverable_gap.                                        *)
Boot ==
    /\ conn' = "down" /\ logsOnly' = FALSE
    /\ buf' = <<>> /\ live' = <<>> /\ rec' = <<>>
    /\ notif' = <<>> /\ disp' = NoDisp /\ tasks' = <<>>
    /\ log' = SubSeq(log, 1, done) /\ (\E t \in Logged(log) : Restored(t) /\ cp' = t)
    /\ baseline' = "none" /\ gates' = {"startup"}
    /\ recPending' = FALSE /\ reconnect' = FALSE
    /\ halt' \in {halt, FALSE} /\ processed' = FALSE
    /\ UNCHANGED <<chain, wire, recent, done, gen, warm, gap, lost>>

Start == conn = "off" /\ Boot /\ UNCHANGED faults

Crash == conn # "off" /\ Fault /\ Boot

-----------------------------------------------------------------------------

Init ==
    /\ chain = 1 /\ conn = "down" /\ wire = 1 /\ logsOnly = FALSE
    /\ buf = <<>> /\ live = <<>> /\ rec = <<>>
    /\ notif = <<>> /\ disp = NoDisp /\ tasks = <<>>
    /\ cp = 1 /\ recent = TRUE /\ halt \in Halts /\ processed = FALSE
    /\ log = <<[t |-> 1, src |-> "baseline", g |-> 0]>> /\ done = 1
    /\ gen = 0 /\ baseline = "none" /\ gates = {"startup"}
    /\ recPending = FALSE /\ reconnect = FALSE
    /\ gap = [pending |-> FALSE, accepted |-> FALSE]
    /\ lost = [c \in Causes |-> {}] /\ warm = FALSE /\ faults = 0

Next ==
    \/ Produce \/ BufferMessage \/ Receive
    \/ Drop \/ Reconnect \/ IngressOverflow
    \/ Open \/ Hold \/ UseLogsFallback \/ HandshakeOverflow
    \/ SubscribedFresh \/ AcceptGap \/ SubscribedRecent
    \/ RecoverGap \/ GapTimeout \/ CommitRecovered \/ GapRecovered \/ GapRowFails
    \/ Replay \/ GoLive
    \/ DispatchTake \/ DispatchPut \/ DispatchSpawn \/ DispatchRefused
    \/ \E i \in 1..MaxTasks : FetchOk(i) \/ FetchFails(i) \/ TaskObserve(i) \/ TaskPut(i)
    \/ WorkerHandle \/ WorkerFails \/ RefreshFreshness \/ WarmupElapses \/ Age
    \/ BeginStop \/ StopTimesOut \/ Stopped \/ Start \/ Crash

Spec == Init /\ [][Next]_vars

(* The event loop runs what is ready: the connection loop, the dispatcher,   *)
(* its tasks, the worker.  The fallback, failures, ageing, stops and crashes *)
(* are never owed; a stop once begun is finished and the process started     *)
(* again by its supervisor.                                                  *)
Fairness ==
    /\ WF_vars(BufferMessage \/ Receive \/ Reconnect \/ Replay \/ GoLive)
    /\ WF_vars(Open \/ SubscribedFresh \/ AcceptGap \/ SubscribedRecent)
    /\ WF_vars(RecoverGap \/ CommitRecovered \/ GapRecovered)
    /\ WF_vars(DispatchTake \/ DispatchPut \/ DispatchSpawn \/ DispatchRefused)
    /\ WF_vars(\E i \in 1..MaxTasks : FetchOk(i) \/ TaskObserve(i) \/ TaskPut(i))
    /\ WF_vars(WorkerHandle)
    /\ WF_vars(IngressOverflow) /\ WF_vars(StopTimesOut \/ Stopped \/ Start)

FairSpec == Spec /\ Fairness

-----------------------------------------------------------------------------
(* Properties *)

Reasons == {"startup", "stream_disconnected", "stream_recovery_gap", "stream_fetch_error",
            "stream_baseline", "stream_stale", "event_processing_error"}
Items == [t : Txs, g : Nat, w : BOOLEAN]

(* Types, and the limits of the queues, of the buffer and of the semaphore. *)
TypeOK ==
    /\ chain \in Txs /\ cp \in 0..chain /\ wire \in 1..chain + 1
    /\ conn \in Connected \cup {"down", "ended", "stopping", "off"}
    /\ logsOnly \in BOOLEAN /\ recent \in BOOLEAN /\ halt \in BOOLEAN
    /\ buf \in Seq(Txs) /\ live \in Seq(Txs) /\ Len(buf \o live) <= BufLimit
    /\ rec \in Seq(Txs)
    /\ notif \in Seq(Items) /\ Len(notif) <= IngressSize
    /\ disp.st \in {"none", "run", "permit", "put"}
    /\ Len(tasks) <= MaxTasks
    /\ \A i \in 1..Len(tasks) : tasks[i].st \in {"fetch", "ready", "put"} /\ tasks[i].item \in Items
    /\ done \in 0..Len(log) /\ Len(log) - done <= QueueSize
    /\ gates \subseteq Reasons
    /\ baseline \in {"none", "warming", "elapsed", "inherited"}
    /\ recPending \in BOOLEAN /\ reconnect \in BOOLEAN /\ processed \in BOOLEAN

(* Live transactions of one connection reach the pipeline in the order of   *)
(* the chain, however late their block times are fetched.                   *)
OrderedDispatch ==
    \A i, j \in 1..Len(log) :
        (i < j /\ log[i].g = log[j].g /\ log[i].src # "recovery" /\ log[j].src # "recovery")
            => log[i].t < log[j].t

(* Reconnects, retries and restarts lose nothing silently: a transaction the *)
(* checkpoint has passed is queued or being put, or lost in one of four ways *)
(* (get_transaction did not know it, its queue.put was cancelled, its gap    *)
(* was accepted, there was no checkpoint).                                   *)
LossesAreKnown == \A t \in 1..cp : t \in Logged(log) \cup Blocked \cup GivenUp

(* Entries are open only over a live connection whose recovery is complete  *)
(* and whose baseline is warm, with no reconnect asked for.                 *)
GateMeansLive ==
    gates = {} => /\ conn = "live" /\ ~reconnect
                  /\ baseline \in {"elapsed", "inherited"}

(* The checkpoint is discarded only once the hole is on record. *)
AcceptedGapIsRecorded == lost["accepted"] # {} => gap.accepted

(* Every confirmed transaction is handled or lost in a known way, unless the *)
(* stream holds for the operator or its run task has returned.              *)
EventuallyHandled ==
    \A t \in Txs \ {1} :
        (chain >= t) ~> (\/ t \in Handled \cup GivenUp
                         \/ conn = "ended"
                         \/ conn = "down" /\ Unrecoverable /\ halt)

(* RUNBOOK.md: after an accepted gap "entries stay blocked through the      *)
(* baseline warmup".                                                        *)
EntriesWaitForWarmup == gates = {} => warm
=============================================================================
