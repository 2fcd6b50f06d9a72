---------------------------- MODULE CandidateLoop ----------------------------
(***************************************************************************)
(* The candidates of the pipeline: evaluate_candidates walks over them     *)
(* once a second, the exit loop moves the ones with a position, the event  *)
(* pipeline discovers them, and both the memory of the process and the     *)
(* candidates table hold them.                                             *)
(*                                                                         *)
(* evaluate_candidates copies the list of candidates when a pass begins,   *)
(* awaits the database and the providers, and writes back the copy it      *)
(* made; the exit loop changes candidates between these awaits.            *)
(*                                                                         *)
(* Market data are inputs: a check passes or not, a price crosses or not,  *)
(* a score confirms or not.  A candidate's age is one of three phases.     *)
(* Positions are reduced to open and closed; PaperAccount has their money. *)
(***************************************************************************)
EXTENDS Integers

CONSTANTS
    N,              \* candidates 1..N, in the order of the dictionary
    Required,       \* required_confirmations
    MaxFaults       \* bound: crashes and lost acknowledgements of a behaviour

ASSUME CandidateAssumption == N \in Nat \ {0} /\ Required \in Nat \ {0} /\ MaxFaults \in Nat

Cands == 1..N

VARIABLES
    cand,       \* pipeline.candidates
    row,        \* the candidates table
    applied,    \* POOL_CREATED: "no", in "memory" only, or committed
    age,        \* "new", "collected" (collect_seconds) or "expired" (expiry_seconds)
    pos,        \* paper position of the candidate in the database
    known,      \* candidates whose position the ledger has booked
    orders,     \* entry orders committed for the candidate
    gate,       \* the entry gate, apart from security_data_unavailable
    blocked,    \* security_data_unavailable blocks the gate
    ev,         \* the candidate loop
    ex,         \* the exit loop
    up,         \* the process is running
    faults      \* bound

tables == <<row, pos, orders>>
vars == <<cand, row, applied, age, pos, known, orders, gate, blocked, ev, ex, up, faults>>

-----------------------------------------------------------------------------
(* CandidateStateMachine *)

Allowed ==
    [DISCOVERED       |-> {"COLLECTING", "REJECTED"},
     COLLECTING       |-> {"SECURITY_CHECK", "REJECTED"},
     SECURITY_CHECK   |-> {"ELIGIBLE", "REJECTED"},
     ELIGIBLE         |-> {"WAITING_PULLBACK", "REJECTED"},
     WAITING_PULLBACK |-> {"ARMED", "REJECTED"},
     ARMED            |-> {"ENTRY_PENDING", "REJECTED"},
     ENTRY_PENDING    |-> {"POSITION_OPEN", "REJECTED"},
     POSITION_OPEN    |-> {"POSITION_PARTIAL", "EXIT_PENDING"},
     POSITION_PARTIAL |-> {"EXIT_PENDING"},
     EXIT_PENDING     |-> {"POSITION_PARTIAL", "RETRYING_EXIT", "CLOSED"},
     RETRYING_EXIT    |-> {"EXIT_PENDING", "CLOSED"},
     CLOSED           |-> {},
     REJECTED         |-> {}]

States == DOMAIN Allowed
Absent == [state |-> "ABSENT", conf |-> 0]
Fresh == [state |-> "DISCOVERED", conf |-> 0]
Candidate == [state : States, conf : 0..Required]

(* ValueError of an invalid transition. *)
Invalid == [state |-> "INVALID", conf |-> 0]

(* The confirmations of the score are read in WAITING_PULLBACK only. *)
Transition(c, target) ==
    IF target \in Allowed[c.state] THEN [state |-> target, conf |-> 0] ELSE Invalid

Checked == {"SECURITY_CHECK", "ELIGIBLE", "WAITING_PULLBACK", "ARMED", "ENTRY_PENDING"}
Positioned == {"POSITION_OPEN", "POSITION_PARTIAL", "EXIT_PENDING", "RETRYING_EXIT", "CLOSED"}

(* _record_score: the score is too low, or the last confirmation is less    *)
(* than, about, or more than score_window_seconds ago.                      *)
RecordScore(conf, score) ==
    CASE score = "low" -> 0
      [] score # "low" /\ conf = 0 -> 1
      [] score = "early" /\ conf > 0 -> conf
      [] score = "window" /\ conf > 0 -> IF conf < Required THEN conf + 1 ELSE conf
      [] score = "late" /\ conf > 0 -> 1

(* What the market and the providers say about a candidate in one pass:     *)
(* a hard reject, the developer sold, the score, and whether the conditions *)
(* to arm or to signal hold.                                                *)
Inputs ==
    [reject : BOOLEAN, devSold : BOOLEAN, score : {"low", "early", "window", "late"},
     met : BOOLEAN]

Evaluate(c, phase, in) ==
    IF c.state \notin Positioned /\ phase = "expired" THEN Transition(c, "REJECTED")
    ELSE IF c.state \in Checked /\ in.reject THEN Transition(c, "REJECTED")
    ELSE CASE c.state = "DISCOVERED" -> Transition(c, "COLLECTING")
           [] c.state = "COLLECTING" ->
                IF phase = "new" THEN c ELSE Transition(c, "SECURITY_CHECK")
           [] c.state = "SECURITY_CHECK" -> Transition(c, "ELIGIBLE")
           [] c.state = "ELIGIBLE" -> Transition(c, "WAITING_PULLBACK")
           [] c.state = "WAITING_PULLBACK" ->
                LET scored == [c EXCEPT !.conf = RecordScore(@, in.score)]
                IN  IF in.devSold THEN Transition(scored, "REJECTED")
                    ELSE IF in.met /\ scored.conf >= Required
                         THEN Transition(scored, "ARMED")
                    ELSE scored
           [] c.state = "ARMED" -> IF in.met THEN Transition(c, "ENTRY_PENDING") ELSE c
           [] OTHER -> c

-----------------------------------------------------------------------------
(* Discovery, time and the gate *)

EvIdle == [pc |-> "idle", i |-> 0, list |-> [c \in Cands |-> Absent],
           phase |-> [c \in Cands |-> "new"]]
ExIdle == [pc |-> "idle", c |-> 1, kind |-> "full", value |-> Absent]

Init ==
    /\ cand = [c \in Cands |-> Absent] /\ row = [c \in Cands |-> Absent]
    /\ applied = [c \in Cands |-> "no"] /\ age = [c \in Cands |-> "new"]
    /\ pos = [c \in Cands |-> "none"] /\ known = {} /\ orders = [c \in Cands |-> 0]
    /\ gate = FALSE /\ blocked = FALSE
    /\ ev = EvIdle /\ ex = ExIdle /\ up = TRUE /\ faults = 0

(* _apply_event of POOL_CREATED: setdefault keeps a candidate that was      *)
(* restored from its row.                                                   *)
Discover(c) ==
    /\ up /\ applied[c] = "no" /\ \A d \in 1..(c - 1) : applied[d] # "no"
    /\ cand' = [cand EXCEPT ![c] = IF @ = Absent THEN Fresh ELSE @]
    /\ applied' = [applied EXCEPT ![c] = "memory"]
    /\ UNCHANGED <<tables, age, known, gate, blocked, ev, ex, up, faults>>

(* The batch transaction that stores the event also stores the new          *)
(* candidate, over what the candidate loop has stored since.                *)
CommitDiscovery(c) ==
    /\ up /\ applied[c] = "memory"
    /\ row' = [row EXCEPT ![c] = Fresh]
    /\ applied' = [applied EXCEPT ![c] = "yes"]
    /\ UNCHANGED <<cand, age, pos, known, orders, gate, blocked, ev, ex, up, faults>>

(* A batch is committed long before its candidates are collected. *)
Tick(c) ==
    /\ applied[c] = "yes" /\ age[c] # "expired"
    /\ age' = [age EXCEPT ![c] = IF @ = "new" THEN "collected" ELSE "expired"]
    /\ UNCHANGED <<cand, applied, tables, known, gate, blocked, ev, ex, up, faults>>

(* The other reasons of the entry gate come and go. *)
ToggleGate ==
    /\ up
    /\ gate' = ~gate
    /\ UNCHANGED <<cand, applied, tables, age, known, blocked, ev, ex, up, faults>>

-----------------------------------------------------------------------------
(* evaluate_candidates *)

(* The next candidate of the copied list, or the end of the pass, which     *)
(* unblocks security_data_unavailable.                                      *)
Remaining(e) == {c \in Cands : c > e.i /\ e.list[c] # Absent}

Advance(e) ==
    \/ /\ Remaining(e) = {}
       /\ ev' = EvIdle /\ blocked' = FALSE
    \/ \E c \in Remaining(e) :
        /\ \A d \in Remaining(e) : c <= d
        /\ ev' = [e EXCEPT !.pc = "gather", !.i = c]
        /\ UNCHANGED blocked

PassList == [EvIdle EXCEPT !.list = cand, !.phase = age]

BeginPass ==
    /\ up /\ ev.pc = "idle"
    /\ Advance(PassList)
    /\ UNCHANGED <<cand, applied, tables, age, known, gate, ex, up, faults>>

(* An exception ends the pass; _candidate_loop blocks the gate. *)
AbortPass ==
    /\ ev' = EvIdle
    /\ blocked' = TRUE

(* The awaits before the decision: record_snapshot, the security provider,  *)
(* record_security, record_signal.  Any of them may raise.                  *)
GatherFails ==
    /\ ev.pc = "gather"
    /\ AbortPass
    /\ UNCHANGED <<cand, applied, tables, age, known, gate, ex, up, faults>>

(* The candidate of the copied list is written back, then stored. *)
WriteBack(c) ==
    /\ cand' = [cand EXCEPT ![ev.i] = c]
    /\ ev' = [ev EXCEPT !.pc = "upsert", !.list[ev.i] = c]

Decide(in) ==
    LET c == ev.list[ev.i]
        new == Evaluate(c, ev.phase[ev.i], in)
    IN  /\ ev.pc = "gather" /\ c.state # "ENTRY_PENDING"
        /\ IF new = Invalid
           THEN AbortPass /\ UNCHANGED cand
           ELSE WriteBack(new) /\ UNCHANGED blocked
        /\ UNCHANGED <<applied, tables, age, known, gate, ex, up, faults>>

(* Mutant: the rejection is stored and not kept in memory *)
RejectEntryStoredOnly ==
    /\ ev.pc = "gather" /\ ev.list[ev.i].state = "ENTRY_PENDING"
    /\ ev' = [ev EXCEPT !.pc = "upsert", !.list[ev.i] = Transition(@, "REJECTED")]
    /\ UNCHANGED <<cand, blocked, applied, tables, age, known, gate, ex, up, faults>>

(* ENTRY_PENDING with the gate closed (API_UNAVAILABLE) or against the      *)
(* entry rules (SCORE_TOO_LOW).                                             *)
RejectEntry ==
    /\ ev.pc = "gather" /\ ev.list[ev.i].state = "ENTRY_PENDING"
    /\ WriteBack(Transition(ev.list[ev.i], "REJECTED"))
    /\ UNCHANGED <<blocked, applied, tables, age, known, gate, ex, up, faults>>

(* The gate is open and the entry rules hold: the entry handler is awaited. *)
CallEntryHandler ==
    /\ ev.pc = "gather" /\ ev.list[ev.i].state = "ENTRY_PENDING"
    /\ gate /\ ~blocked
    /\ ev' = [ev EXCEPT !.pc = "entry"]
    /\ UNCHANGED <<cand, applied, tables, age, known, gate, blocked, ex, up, faults>>

(* _open_candidate returns a reason: no size, a limit, a mint that is open. *)
HandlerRejects ==
    /\ ev.pc = "entry"
    /\ WriteBack(Transition(ev.list[ev.i], "REJECTED"))
    /\ UNCHANGED <<blocked, applied, tables, age, known, gate, ex, up, faults>>

HandlerRaises ==
    /\ ev.pc = "entry"
    /\ AbortPass
    /\ UNCHANGED <<cand, applied, tables, age, known, gate, ex, up, faults>>

(* Mutant: every attempt commits an order of its own *)
CommitEntryUnkeyed(c) ==
    /\ orders' = [orders EXCEPT ![c] = @ + 1]
    /\ pos' = [pos EXCEPT ![c] = "open"]

(* commit_paper_entry under the key entry:<candidate_id>: an order that     *)
(* exists is returned.                                                      *)
CommitEntry(c) ==
    IF orders[c] = 0
    THEN orders' = [orders EXCEPT ![c] = 1] /\ pos' = [pos EXCEPT ![c] = "open"]
    ELSE UNCHANGED <<orders, pos>>

(* evaluate_entry refuses a mint the ledger has open. *)
EntryCommitted ==
    /\ ev.pc = "entry" /\ ~(ev.i \in known /\ pos[ev.i] = "open")
    /\ CommitEntry(ev.i)
    /\ ev' = [ev EXCEPT !.pc = "booking"]
    /\ UNCHANGED <<cand, row, applied, age, known, gate, blocked, ex, up, faults>>

(* The entry is committed, its acknowledgement is lost: the handler raises. *)
EntryAckLost ==
    /\ ev.pc = "entry" /\ ~(ev.i \in known /\ pos[ev.i] = "open") /\ faults < MaxFaults
    /\ CommitEntry(ev.i)
    /\ AbortPass
    /\ faults' = faults + 1
    /\ UNCHANGED <<cand, row, applied, age, known, gate, ex, up>>

(* ledger.open_position; the handler returns and the candidate is open. *)
BookEntry ==
    /\ ev.pc = "booking"
    /\ known' = known \cup {ev.i}
    /\ WriteBack(Transition(ev.list[ev.i], "POSITION_OPEN"))
    /\ UNCHANGED <<blocked, applied, tables, age, gate, ex, up, faults>>

(* upsert_candidate, and on to the next candidate. *)
Upsert ==
    /\ ev.pc = "upsert"
    /\ row' = [row EXCEPT ![ev.i] = ev.list[ev.i]]
    /\ Advance(ev)
    /\ UNCHANGED <<cand, applied, pos, orders, age, known, gate, ex, up, faults>>

UpsertFails ==
    /\ ev.pc = "upsert"
    /\ AbortPass
    /\ UNCHANGED <<cand, applied, tables, age, known, gate, ex, up, faults>>

-----------------------------------------------------------------------------
(* The exit loop: transition_candidate around broker.close *)

(* transition_candidate reads the candidate, moves it and stores what it    *)
(* moved; an invalid transition raises and ends the exit pass.              *)
Move(c, target, next, kind) ==
    LET new == Transition(cand[c], target)
    IN  IF new = Invalid
        THEN ex' = ExIdle /\ UNCHANGED cand
        ELSE /\ cand' = [cand EXCEPT ![c] = new]
             /\ ex' = [pc |-> next, c |-> c, kind |-> kind, value |-> new]

Exiting == {"POSITION_OPEN", "POSITION_PARTIAL", "RETRYING_EXIT"}

(* Mutant: only a candidate that may go to EXIT_PENDING is sold *)
BeginExitOfLive(c, kind) ==
    /\ up /\ ex.pc = "idle" /\ c \in known /\ pos[c] = "open" /\ cand[c].state \in Exiting
    /\ Move(c, "EXIT_PENDING", "pending", kind)
    /\ UNCHANGED <<applied, tables, age, known, gate, blocked, ev, up, faults>>

(* evaluate_exit decides to sell all or a part, or the mark quote failed    *)
(* for too long ("unrecoverable").  A candidate in another state is left    *)
(* alone and the position is sold all the same.                             *)
BeginExit(c, kind) ==
    /\ up /\ ex.pc = "idle" /\ c \in known /\ pos[c] = "open"
    /\ IF cand[c].state \in Exiting
       THEN Move(c, "EXIT_PENDING", "pending", kind)
       ELSE /\ ex' = [pc |-> "closing", c |-> c, kind |-> kind, value |-> Absent]
            /\ UNCHANGED cand
    /\ UNCHANGED <<applied, tables, age, known, gate, blocked, ev, up, faults>>

(* The upsert inside transition_candidate, which may fail. *)
ExitUpsert ==
    /\ ex.pc \in {"pending", "settled"}
    /\ row' = [row EXCEPT ![ex.c] = ex.value]
    /\ ex' = IF ex.pc = "pending" THEN [ex EXCEPT !.pc = "closing"] ELSE ExIdle
    /\ UNCHANGED <<cand, applied, pos, orders, age, known, gate, blocked, ev, up, faults>>

ExitUpsertFails ==
    /\ ex.pc \in {"pending", "settled"}
    /\ ex' = ExIdle
    /\ UNCHANGED <<cand, applied, tables, age, known, gate, blocked, ev, up, faults>>

(* After broker.close the candidate is moved again.  The unrecoverable      *)
(* branch moves it without a look at its state.                             *)
AfterClose(target) ==
    IF ex.kind = "unrecoverable" \/ cand[ex.c].state = "EXIT_PENDING"
    THEN Move(ex.c, target, "settled", ex.kind)
    ELSE ex' = ExIdle /\ UNCHANGED cand

CloseSucceeds ==
    /\ ex.pc = "closing"
    /\ pos' = [pos EXCEPT ![ex.c] = IF ex.kind = "partial" THEN @ ELSE "closed"]
    /\ AfterClose(IF ex.kind = "partial" THEN "POSITION_PARTIAL" ELSE "CLOSED")
    /\ UNCHANGED <<applied, row, orders, age, known, gate, blocked, ev, up, faults>>

CloseFails ==
    /\ ex.pc = "closing"
    /\ AfterClose("RETRYING_EXIT")
    /\ UNCHANGED <<applied, tables, age, known, gate, blocked, ev, up, faults>>

-----------------------------------------------------------------------------
(* Crash and restart *)

Crash ==
    /\ up /\ faults < MaxFaults
    /\ cand' = [c \in Cands |-> Absent] /\ known' = {}
    /\ ev' = EvIdle /\ ex' = ExIdle /\ up' = FALSE
    /\ gate' = FALSE /\ blocked' = FALSE
    /\ faults' = faults + 1
    /\ applied' = [c \in Cands |-> IF applied[c] = "memory" THEN "no" ELSE applied[c]]
    /\ UNCHANGED <<tables, age>>

(* start() restores the ledger and every candidate row, whatever its state. *)
Restart ==
    /\ ~up
    /\ up' = TRUE /\ cand' = row
    /\ known' = {c \in Cands : pos[c] # "none"}
    /\ UNCHANGED <<applied, tables, age, gate, blocked, ev, ex, faults>>

CandidateStep ==
    \/ BeginPass \/ Upsert \/ RejectEntry \/ CallEntryHandler \/ EntryCommitted
    \/ HandlerRejects \/ BookEntry \/ \E in \in Inputs : Decide(in)

CandidateFault == GatherFails \/ HandlerRaises \/ UpsertFails \/ EntryAckLost

Next ==
    \/ \E c \in Cands :
        \/ Discover(c) \/ CommitDiscovery(c) \/ Tick(c)
        \/ \E kind \in {"full", "partial", "unrecoverable"} : BeginExit(c, kind)
    \/ ToggleGate \/ CandidateStep \/ CandidateFault
    \/ ExitUpsert \/ ExitUpsertFails \/ CloseSucceeds \/ CloseFails
    \/ Crash \/ Restart

Spec == Init /\ [][Next]_vars

(* The loops run while the process is up, time passes, and a step that can  *)
(* fail does not fail for ever: providers and database come back, the       *)
(* position reaches max_hold_seconds, and a sale finds a route again.       *)
Fairness ==
    /\ WF_vars(Restart) /\ WF_vars(BeginPass)
    /\ \A c \in Cands :
        /\ WF_vars(Discover(c)) /\ WF_vars(CommitDiscovery(c)) /\ WF_vars(Tick(c))
        /\ SF_vars(BeginExit(c, "full"))
        /\ SF_vars(ev.i = c /\ CandidateStep)
    /\ WF_vars(ExitUpsert \/ ExitUpsertFails) /\ WF_vars(CloseSucceeds \/ CloseFails)
    /\ SF_vars(ex.kind # "partial" /\ ExitUpsert)
    /\ SF_vars(ex.kind # "partial" /\ CloseSucceeds)

FairSpec == Spec /\ Fairness

-----------------------------------------------------------------------------
(* Properties *)

TypeOK ==
    /\ cand \in [Cands -> Candidate \cup {Absent}]
    /\ row \in [Cands -> Candidate \cup {Absent}]
    /\ applied \in [Cands -> {"no", "memory", "yes"}]
    /\ age \in [Cands -> {"new", "collected", "expired"}]
    /\ pos \in [Cands -> {"none", "open", "closed"}] /\ known \subseteq Cands
    /\ orders \in [Cands -> Nat] /\ gate \in BOOLEAN /\ blocked \in BOOLEAN
    /\ ev \in [pc : {"idle", "gather", "entry", "booking", "upsert"}, i : 0..N,
                list : [Cands -> Candidate \cup {Absent}],
                phase : [Cands -> {"new", "collected", "expired"}]]
    /\ ex \in [pc : {"idle", "pending", "closing", "settled"}, c : Cands,
                kind : {"full", "partial", "unrecoverable"},
                value : Candidate \cup {Absent}]
    /\ up \in BOOLEAN /\ faults \in 0..MaxFaults

(* A candidate enters the market at most once, through lost                 *)
(* acknowledgements, repeated passes and restarts: the entry of a candidate *)
(* that was committed before is not committed again (_open_candidate,       *)
(* commit_paper_entry).                                                     *)
OneEntryPerCandidate == \A c \in Cands : orders[c] <= 1

(* A candidate whose rejection was stored is never bought afterwards, by    *)
(* this process or by the one that restores its row.                        *)
RejectedNeverEnters ==
    [][\A c \in Cands : row[c].state = "REJECTED" => orders'[c] = orders[c]]_vars

(* A position the ledger knows is eventually closed, whatever happened to   *)
(* its candidate in the meantime (evaluate_and_close_exits).                *)
PositionsAreClosed ==
    \A c \in Cands : (c \in known /\ pos[c] = "open") ~> pos[c] = "closed"

(* docs/ACCEPTANCE.md: every discovered pool reaches a terminal candidate   *)
(* outcome, REJECTED or a closed position.                                  *)
TerminalOutcome ==
    \A c \in Cands : applied[c] = "yes" ~> row[c].state \in {"REJECTED", "CLOSED"}

(* CandidateState.CLOSED allows no transition (candidates.py).              *)
ClosedIsFinal ==
    [][\A c \in Cands : up /\ up' /\ cand[c].state = "CLOSED"
                          => cand'[c].state = "CLOSED"]_vars
=============================================================================
