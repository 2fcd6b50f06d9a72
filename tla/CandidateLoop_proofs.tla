------------------------ MODULE CandidateLoop_proofs ------------------------
(***************************************************************************)
(* Proofs for CandidateLoop, for any number of candidates, confirmations   *)
(* and faults.                                                             *)
(*                                                                         *)
(* That a stored rejection is never followed by an entry rests on          *)
(* RejectionKept: a rejection that is stored is also in memory, and one in *)
(* memory is also in the list the running pass copied, although the exit   *)
(* loop and the event pipeline write candidates between the awaits of the  *)
(* pass.                                                                   *)
(***************************************************************************)
EXTENDS CandidateLoop, TLAPS

(* What a pass stands on: a candidate of its copied list, which is waiting  *)
(* for its entry while the entry handler is awaited.                        *)
PassStands ==
    /\ ev.pc # "idle" => up /\ ev.i \in Cands /\ ev.list[ev.i] # Absent
    /\ ev.pc \in {"entry", "booking"} => ev.list[ev.i].state = "ENTRY_PENDING"
    /\ ev.pc = "upsert" /\ ev.list[ev.i].state = "REJECTED"
         => cand[ev.i].state = "REJECTED"

(* The exit loop runs in a process that is up and stores a state of a       *)
(* position.                                                                *)
ExitStands ==
    /\ ex.pc # "idle" => up
    /\ ex.pc \in {"pending", "settled"} => ex.value.state \in Positioned

(* A stored rejection is in memory, one in memory is in the copied list. *)
RejectionKept ==
    \A c \in Cands :
        /\ up /\ row[c].state = "REJECTED" => cand[c].state = "REJECTED"
        /\ ev.pc # "idle" /\ cand[c].state = "REJECTED" => ev.list[c].state = "REJECTED"

Inv == TypeOK /\ PassStands /\ ExitStands /\ RejectionKept /\ OneEntryPerCandidate

-----------------------------------------------------------------------------
(* The state machine *)

(* The states of the transition table. *)
LEMMA StatesAre ==
    States = {"DISCOVERED", "COLLECTING", "SECURITY_CHECK", "ELIGIBLE", "WAITING_PULLBACK",
              "ARMED", "ENTRY_PENDING", "POSITION_OPEN", "POSITION_PARTIAL", "EXIT_PENDING",
              "RETRYING_EXIT", "CLOSED", "REJECTED"}
BY DEF States, Allowed

(* A transition raises or leads to its target; none leads out of REJECTED.  *)
LEMMA TransitionIs ==
    ASSUME NEW c, NEW target \in States
    PROVE  /\ Transition(c, target) \in Candidate \cup {Invalid}
           /\ Transition(c, target) # Invalid => Transition(c, target).state = target
           /\ c.state = "REJECTED" => Transition(c, target) = Invalid
           /\ Invalid \notin Candidate
<1>1. [state |-> target, conf |-> 0] \in Candidate /\ Invalid \notin Candidate
  BY StatesAre, CandidateAssumption DEF Candidate, Invalid
<1>2. c.state = "REJECTED" => Allowed[c.state] = {}
  BY DEF Allowed
<1> QED
  BY <1>1, <1>2 DEF Transition

(* Confirmations stay between none and the number required. *)
LEMMA RecordScoreType ==
    ASSUME NEW conf \in 0..Required, NEW score \in {"low", "early", "window", "late"}
    PROVE  RecordScore(conf, score) \in 0..Required
BY CandidateAssumption DEF RecordScore

(* One evaluation yields a candidate or raises; a rejected one stays so.    *)
LEMMA EvaluateType ==
    ASSUME NEW c \in Candidate, NEW phase, NEW in \in Inputs
    PROVE  /\ Evaluate(c, phase, in) \in Candidate \cup {Invalid}
           /\ c.state = "REJECTED" => Evaluate(c, phase, in) \in {c, Invalid}
<1> DEFINE scored == [c EXCEPT !.conf = RecordScore(@, in.score)]
<1>1. scored \in Candidate /\ scored.state = c.state
  BY RecordScoreType DEF Candidate, Inputs
<1>2. \A target \in States, d \in Candidate : Transition(d, target) \in Candidate \cup {Invalid}
  BY TransitionIs
<1>3. {"COLLECTING", "SECURITY_CHECK", "ELIGIBLE", "WAITING_PULLBACK", "ARMED",
       "ENTRY_PENDING", "REJECTED"} \subseteq States
  BY StatesAre
<1>4. Evaluate(c, phase, in) \in Candidate \cup {Invalid}
  BY <1>1, <1>2, <1>3 DEF Evaluate
<1>5. ASSUME c.state = "REJECTED" PROVE Evaluate(c, phase, in) \in {c, Invalid}
  BY <1>3, <1>5, TransitionIs DEF Evaluate, Positioned, Checked
<1> QED
  BY <1>4, <1>5

-----------------------------------------------------------------------------
(* Every step keeps the invariant *)

(* The shape of the two loops' state, and their idle states. *)
EvType ==
    [pc : {"idle", "gather", "entry", "booking", "upsert"}, i : 0..N,
     list : [Cands -> Candidate \cup {Absent}],
     phase : [Cands -> {"new", "collected", "expired"}]]

ExType ==
    [pc : {"idle", "pending", "closing", "settled"}, c : Cands,
     kind : {"full", "partial", "unrecoverable"}, value : Candidate \cup {Absent}]

(* An idle pass and an idle exit have their types. *)
LEMMA IdleType == EvIdle \in EvType /\ EvIdle.pc = "idle" /\ ExIdle \in ExType /\ ExIdle.pc = "idle"
<1>1. EvIdle \in EvType /\ EvIdle.pc = "idle"
  BY CandidateAssumption DEF EvIdle, EvType
<1>2. ExIdle \in ExType /\ ExIdle.pc = "idle"
  BY CandidateAssumption DEF ExIdle, ExType, Cands
<1> QED
  BY <1>1, <1>2

(* The initial state: no candidate, both loops idle. *)
LEMMA InitInv == Init => Inv
<1> SUFFICES ASSUME Init PROVE Inv
  OBVIOUS
<1>1. TypeOK
  <2>1. ev \in EvType /\ ex \in ExType
    BY IdleType DEF Init
  <2>2. /\ cand \in [Cands -> Candidate \cup {Absent}] /\ row \in [Cands -> Candidate \cup {Absent}]
        /\ applied \in [Cands -> {"no", "memory", "yes"}]
        /\ age \in [Cands -> {"new", "collected", "expired"}]
        /\ pos \in [Cands -> {"none", "open", "closed"}] /\ known \subseteq Cands
    BY DEF Init
  <2>3. orders \in [Cands -> Nat] /\ faults \in 0..MaxFaults
    BY CandidateAssumption DEF Init
  <2>4. gate \in BOOLEAN /\ blocked \in BOOLEAN /\ up \in BOOLEAN
    BY DEF Init
  <2> QED
    BY <2>1, <2>2, <2>3, <2>4 DEF TypeOK, EvType, ExType
<1>2. PassStands /\ ExitStands
  BY DEF Init, PassStands, ExitStands, EvIdle, ExIdle
<1>3. RejectionKept
  BY DEF Init, RejectionKept, EvIdle, Absent
<1>4. OneEntryPerCandidate
  BY DEF Init, OneEntryPerCandidate
<1> QED
  BY <1>1, <1>2, <1>3, <1>4 DEF Inv

(* Discovery adds a fresh candidate to memory. *)
LEMMA DiscoverInv == ASSUME Inv, NEW c \in Cands, Discover(c) PROVE Inv'
<1> USE CandidateAssumption DEF Inv, Discover, tables
<1>a. Fresh \in Candidate /\ Fresh.state = "DISCOVERED" /\ Absent.state = "ABSENT"
  BY StatesAre DEF Fresh, Candidate, Absent
<1>1. TypeOK'
  BY <1>a DEF TypeOK
<1>2. PassStands'
  BY <1>a DEF TypeOK, PassStands
<1>3. ExitStands'
  BY <1>a DEF TypeOK, ExitStands, PassStands
<1>4. RejectionKept'
  BY <1>a DEF TypeOK, PassStands, ExitStands, RejectionKept
<1>5. OneEntryPerCandidate'
  BY <1>a DEF TypeOK, OneEntryPerCandidate
<1> QED
  BY <1>1, <1>2, <1>3, <1>4, <1>5 DEF Inv

(* The batch transaction stores a fresh candidate. *)
LEMMA CommitDiscoveryInv == ASSUME Inv, NEW c \in Cands, CommitDiscovery(c) PROVE Inv'
<1> USE CandidateAssumption DEF Inv, CommitDiscovery
<1>a. Fresh \in Candidate /\ Fresh.state = "DISCOVERED"
  BY StatesAre DEF Fresh, Candidate
<1>1. TypeOK'
  BY <1>a DEF TypeOK
<1>2. PassStands'
  BY <1>a DEF TypeOK, PassStands
<1>3. ExitStands'
  BY <1>a DEF TypeOK, ExitStands, PassStands
<1>4. RejectionKept'
  BY <1>a DEF TypeOK, PassStands, ExitStands, RejectionKept
<1>5. OneEntryPerCandidate'
  BY <1>a DEF TypeOK, OneEntryPerCandidate
<1> QED
  BY <1>1, <1>2, <1>3, <1>4, <1>5 DEF Inv

(* Time passes. *)
LEMMA TickInv == ASSUME Inv, NEW c \in Cands, Tick(c) PROVE Inv'
<1> USE CandidateAssumption DEF Inv, Tick, tables
<1>1. TypeOK'
  BY DEF TypeOK
<1>2. PassStands'
  BY DEF TypeOK, PassStands
<1>3. ExitStands'
  BY DEF TypeOK, ExitStands, PassStands
<1>4. RejectionKept'
  BY DEF TypeOK, PassStands, ExitStands, RejectionKept
<1>5. OneEntryPerCandidate'
  BY DEF TypeOK, OneEntryPerCandidate
<1> QED
  BY <1>1, <1>2, <1>3, <1>4, <1>5 DEF Inv

(* The gate. *)
LEMMA ToggleGateInv == ASSUME Inv, ToggleGate PROVE Inv'
<1> USE CandidateAssumption DEF Inv, ToggleGate, tables
<1>1. TypeOK'
  BY DEF TypeOK
<1>2. PassStands'
  BY DEF TypeOK, PassStands
<1>3. ExitStands'
  BY DEF TypeOK, ExitStands, PassStands
<1>4. RejectionKept'
  BY DEF TypeOK, PassStands, ExitStands, RejectionKept
<1>5. OneEntryPerCandidate'
  BY DEF TypeOK, OneEntryPerCandidate
<1> QED
  BY <1>1, <1>2, <1>3, <1>4, <1>5 DEF Inv

(* A provider or the database fails: the pass ends. *)
LEMMA GatherFailsInv == ASSUME Inv, GatherFails PROVE Inv'
<1> USE CandidateAssumption DEF Inv, GatherFails, AbortPass, tables
<1>a. EvIdle \in EvType /\ EvIdle.pc = "idle"
  BY IdleType
<1> USE DEF EvType
<1>1. TypeOK'
  BY <1>a DEF TypeOK
<1>2. PassStands'
  BY <1>a DEF TypeOK, PassStands
<1>3. ExitStands'
  BY <1>a DEF TypeOK, ExitStands, PassStands
<1>4. RejectionKept'
  BY <1>a DEF TypeOK, PassStands, ExitStands, RejectionKept
<1>5. OneEntryPerCandidate'
  BY <1>a DEF TypeOK, OneEntryPerCandidate
<1> QED
  BY <1>1, <1>2, <1>3, <1>4, <1>5 DEF Inv

(* The entry handler raises: the pass ends. *)
LEMMA HandlerRaisesInv == ASSUME Inv, HandlerRaises PROVE Inv'
<1> USE CandidateAssumption DEF Inv, HandlerRaises, AbortPass, tables
<1>a. EvIdle \in EvType /\ EvIdle.pc = "idle"
  BY IdleType
<1> USE DEF EvType
<1>1. TypeOK'
  BY <1>a DEF TypeOK
<1>2. PassStands'
  BY <1>a DEF TypeOK, PassStands
<1>3. ExitStands'
  BY <1>a DEF TypeOK, ExitStands, PassStands
<1>4. RejectionKept'
  BY <1>a DEF TypeOK, PassStands, ExitStands, RejectionKept
<1>5. OneEntryPerCandidate'
  BY <1>a DEF TypeOK, OneEntryPerCandidate
<1> QED
  BY <1>1, <1>2, <1>3, <1>4, <1>5 DEF Inv

(* The upsert fails: the pass ends. *)
LEMMA UpsertFailsInv == ASSUME Inv, UpsertFails PROVE Inv'
<1> USE CandidateAssumption DEF Inv, UpsertFails, AbortPass, tables
<1>a. EvIdle \in EvType /\ EvIdle.pc = "idle"
  BY IdleType
<1> USE DEF EvType
<1>1. TypeOK'
  BY <1>a DEF TypeOK
<1>2. PassStands'
  BY <1>a DEF TypeOK, PassStands
<1>3. ExitStands'
  BY <1>a DEF TypeOK, ExitStands, PassStands
<1>4. RejectionKept'
  BY <1>a DEF TypeOK, PassStands, ExitStands, RejectionKept
<1>5. OneEntryPerCandidate'
  BY <1>a DEF TypeOK, OneEntryPerCandidate
<1> QED
  BY <1>1, <1>2, <1>3, <1>4, <1>5 DEF Inv

(* A pass begins with a copy of the candidates. *)
LEMMA BeginPassInv == ASSUME Inv, BeginPass PROVE Inv'
<1> USE CandidateAssumption DEF Inv, BeginPass, tables
<1>a. EvIdle \in EvType /\ EvIdle.pc = "idle"
  BY IdleType
<1> USE DEF EvType
<1>b. CASE ev' = EvIdle /\ blocked' = FALSE
  BY <1>a, <1>b DEF TypeOK, PassStands, ExitStands, RejectionKept, OneEntryPerCandidate
<1>c. CASE \E c \in Remaining(PassList) :
              /\ ev' = [PassList EXCEPT !.pc = "gather", !.i = c]
              /\ UNCHANGED blocked
  <2>1. PICK c \in Cands :
          /\ cand[c] # Absent
          /\ ev' = [pc |-> "gather", i |-> c, list |-> cand, phase |-> age]
          /\ blocked' = blocked
    BY <1>c DEF Remaining, PassList, EvIdle
  <2>2. TypeOK'
    BY <2>1 DEF TypeOK, Cands
  <2>3. PassStands' /\ ExitStands' /\ RejectionKept' /\ OneEntryPerCandidate'
    BY <2>1 DEF TypeOK, PassStands, ExitStands, RejectionKept, OneEntryPerCandidate
  <2> QED
    BY <2>2, <2>3
<1> QED
  BY <1>b, <1>c DEF Advance

(* The write-back puts the same candidate into memory and into the list.    *)
LEMMA WriteBackInv ==
    ASSUME Inv, NEW c \in Candidate, WriteBack(c), ev.pc # "idle",
           ev.list[ev.i].state = "REJECTED" => c.state = "REJECTED",
           known' \subseteq Cands,
           UNCHANGED <<applied, tables, age, gate, blocked, ex, up, faults>>
    PROVE  Inv'
<1> USE CandidateAssumption DEF Inv, WriteBack, tables
<1>a. c # Absent
  BY StatesAre DEF Candidate, Absent
<1>b. ev.i \in Cands
  BY DEF PassStands
<1>1. TypeOK'
  BY <1>b DEF TypeOK
<1>2. PassStands'
  BY <1>a, <1>b DEF TypeOK, PassStands
<1>3. ExitStands'
  BY DEF TypeOK, ExitStands
<1>4. RejectionKept'
  BY <1>b DEF TypeOK, PassStands, RejectionKept
<1>5. OneEntryPerCandidate'
  BY DEF TypeOK, OneEntryPerCandidate
<1> QED
  BY <1>1, <1>2, <1>3, <1>4, <1>5 DEF Inv

(* The decision writes back what Evaluate returns, or ends the pass. *)
LEMMA DecideInv == ASSUME Inv, NEW in \in Inputs, Decide(in) PROVE Inv'
<1> USE CandidateAssumption DEF Inv
<1> DEFINE new == Evaluate(ev.list[ev.i], ev.phase[ev.i], in)
<1>1. ev.list[ev.i] \in Candidate /\ ev.pc = "gather"
  BY DEF TypeOK, PassStands, Decide
<1>2. /\ new \in Candidate \cup {Invalid}
      /\ ev.list[ev.i].state = "REJECTED" => new \in {ev.list[ev.i], Invalid}
  BY <1>1, EvaluateType
<1>3. CASE new = Invalid
  <2>1. UNCHANGED <<cand, applied, tables, age, known, gate, ex, up, faults>> /\ AbortPass
    BY <1>3 DEF Decide
  <2>2. EvIdle \in EvType /\ EvIdle.pc = "idle"
    BY IdleType
  <2> QED
    BY <2>1, <2>2 DEF EvType, AbortPass, tables, TypeOK, PassStands, ExitStands, RejectionKept,
                      OneEntryPerCandidate
<1>4. CASE new # Invalid
  <2>1. WriteBack(new) /\ UNCHANGED <<applied, tables, age, known, gate, blocked, ex, up, faults>>
    BY <1>4 DEF Decide
  <2>2. known' \subseteq Cands
    BY <2>1 DEF TypeOK
  <2> HIDE DEF new, Inv
  <2> QED
    BY <1>1, <1>2, <1>4, <2>1, <2>2, WriteBackInv DEF Inv
<1> QED
  BY <1>3, <1>4

(* A rejection of the entry is written back. *)
LEMMA RejectEntryInv == ASSUME Inv, RejectEntry \/ HandlerRejects PROVE Inv'
<1> DEFINE new == Transition(ev.list[ev.i], "REJECTED")
<1>1. ev.pc # "idle" /\ ev.list[ev.i].state = "ENTRY_PENDING"
  BY DEF RejectEntry, HandlerRejects, Inv, PassStands
<1>2. new \in Candidate /\ new.state = "REJECTED"
  <2>1. new = [state |-> "REJECTED", conf |-> 0]
    BY <1>1 DEF Transition, Allowed
  <2> QED
    BY <2>1, StatesAre, CandidateAssumption DEF Candidate
<1>3. WriteBack(new) /\ UNCHANGED <<applied, tables, age, known, gate, blocked, ex, up, faults>>
  BY DEF RejectEntry, HandlerRejects
<1>4. known' \subseteq Cands
  BY <1>3 DEF Inv, TypeOK
<1> HIDE DEF new
<1> QED
  BY <1>1, <1>2, <1>3, <1>4, WriteBackInv

(* The booked entry is written back as an open position. *)
LEMMA BookEntryInv == ASSUME Inv, BookEntry PROVE Inv'
<1> DEFINE new == Transition(ev.list[ev.i], "POSITION_OPEN")
<1>1. ev.pc # "idle" /\ ev.list[ev.i].state = "ENTRY_PENDING" /\ ev.i \in Cands
  BY DEF BookEntry, Inv, PassStands
<1>2. new \in Candidate
  <2>1. new = [state |-> "POSITION_OPEN", conf |-> 0]
    BY <1>1 DEF Transition, Allowed
  <2> QED
    BY <2>1, StatesAre, CandidateAssumption DEF Candidate
<1>3. WriteBack(new) /\ UNCHANGED <<applied, tables, age, gate, blocked, ex, up, faults>>
  BY DEF BookEntry
<1>4. known' \subseteq Cands
  BY <1>1 DEF BookEntry, Inv, TypeOK
<1> HIDE DEF new
<1> QED
  BY <1>1, <1>2, <1>3, <1>4, WriteBackInv

(* The entry handler is awaited. *)
LEMMA CallEntryHandlerInv == ASSUME Inv, CallEntryHandler PROVE Inv'
<1> USE CandidateAssumption DEF Inv, CallEntryHandler, tables
<1>1. TypeOK'
  BY DEF TypeOK
<1>2. PassStands'
  BY DEF TypeOK, PassStands
<1>3. ExitStands'
  BY DEF TypeOK, ExitStands, PassStands
<1>4. RejectionKept'
  BY DEF TypeOK, PassStands, ExitStands, RejectionKept
<1>5. OneEntryPerCandidate'
  BY DEF TypeOK, OneEntryPerCandidate
<1> QED
  BY <1>1, <1>2, <1>3, <1>4, <1>5 DEF Inv

(* The entry is committed, once. *)
LEMMA EntryCommittedInv == ASSUME Inv, EntryCommitted PROVE Inv'
<1> USE CandidateAssumption DEF Inv, EntryCommitted, CommitEntry
<1>a. ev.i \in Cands
  BY DEF PassStands
<1>1. TypeOK'
  BY <1>a DEF TypeOK
<1>2. PassStands'
  BY <1>a DEF TypeOK, PassStands
<1>3. ExitStands'
  BY <1>a DEF TypeOK, ExitStands, PassStands
<1>4. RejectionKept'
  BY <1>a DEF TypeOK, PassStands, ExitStands, RejectionKept
<1>5. OneEntryPerCandidate'
  BY <1>a DEF TypeOK, OneEntryPerCandidate
<1> QED
  BY <1>1, <1>2, <1>3, <1>4, <1>5 DEF Inv

(* The entry is committed and its acknowledgement lost. *)
LEMMA EntryAckLostInv == ASSUME Inv, EntryAckLost PROVE Inv'
<1> USE CandidateAssumption DEF Inv, EntryAckLost, CommitEntry, AbortPass
<1>a. EvIdle \in EvType /\ EvIdle.pc = "idle"
  BY IdleType
<1> USE DEF EvType
<1>b. ev.i \in Cands
  BY DEF PassStands
<1>1. TypeOK'
  BY <1>a, <1>b DEF TypeOK
<1>2. PassStands'
  BY <1>a, <1>b DEF TypeOK, PassStands
<1>3. ExitStands'
  BY <1>a, <1>b DEF TypeOK, ExitStands, PassStands
<1>4. RejectionKept'
  BY <1>a, <1>b DEF TypeOK, PassStands, ExitStands, RejectionKept
<1>5. OneEntryPerCandidate'
  BY <1>a, <1>b DEF TypeOK, OneEntryPerCandidate
<1> QED
  BY <1>1, <1>2, <1>3, <1>4, <1>5 DEF Inv

(* The upsert stores what was written back, and the pass goes on. *)
LEMMA UpsertInv == ASSUME Inv, Upsert PROVE Inv'
<1> USE CandidateAssumption DEF Inv, Upsert
<1>1. ev.i \in Cands /\ ev.pc = "upsert" /\ row' = [row EXCEPT ![ev.i] = ev.list[ev.i]]
  BY DEF PassStands
<1>2. row' \in [Cands -> Candidate \cup {Absent}]
  BY <1>1 DEF TypeOK
<1>3. \A c \in Cands : row'[c].state = "REJECTED" /\ up => cand[c].state = "REJECTED"
  BY <1>1 DEF TypeOK, PassStands, RejectionKept
<1>4. CASE ev' = EvIdle /\ blocked' = FALSE
  <2>1. TypeOK'
    BY <1>2, <1>4, IdleType DEF TypeOK, EvType
  <2> QED
    BY <1>3, <1>4, <2>1 DEF EvIdle, PassStands, ExitStands, RejectionKept, OneEntryPerCandidate
<1>5. CASE \E c \in Cands : /\ ev.list[c] # Absent
                           /\ ev' = [ev EXCEPT !.pc = "gather", !.i = c]
                           /\ blocked' = blocked
  <2>1. PICK c \in Cands : /\ ev.list[c] # Absent
                           /\ ev' = [ev EXCEPT !.pc = "gather", !.i = c]
                           /\ blocked' = blocked
    BY <1>5
  <2>2. c \in 0..N
    BY DEF Cands
  <2>3. ev'.pc = "gather" /\ ev'.i = c /\ ev'.list = ev.list /\ ev' \in EvType
    BY <2>1, <2>2 DEF TypeOK, EvType
  <2>4. TypeOK'
    BY <1>2, <2>1, <2>3 DEF TypeOK, EvType
  <2> QED
    BY <1>1, <1>3, <2>1, <2>3, <2>4 DEF PassStands, ExitStands, RejectionKept, OneEntryPerCandidate
<1> QED
  BY <1>4, <1>5 DEF Advance, Remaining

(* transition_candidate moves a candidate to a state of a position, or      *)
(* leaves it and ends the exit pass.                                        *)
LEMMA MoveIs ==
    ASSUME Inv, NEW c \in Cands, NEW target \in States \cap Positioned,
           NEW next \in {"pending", "settled"},
           NEW kind \in {"full", "partial", "unrecoverable"}, Move(c, target, next, kind)
    PROVE  /\ cand' \in [Cands -> Candidate \cup {Absent}]
           /\ \A d \in Cands : cand[d].state = "REJECTED" => cand'[d] = cand[d]
           /\ \A d \in Cands : cand'[d].state = "REJECTED" => cand[d].state = "REJECTED"
           /\ ex' \in ExType
           /\ ex'.pc \in {"pending", "settled"} => ex'.value.state \in Positioned
<1> DEFINE new == Transition(cand[c], target)
<1>1. /\ new \in Candidate \cup {Invalid} /\ Invalid \notin Candidate
      /\ new # Invalid => new.state = target
      /\ cand[c].state = "REJECTED" => new = Invalid
  BY TransitionIs
<1>2. target # "REJECTED"
  BY DEF Positioned
<1>3. CASE new = Invalid
  BY <1>3, IdleType DEF Move, Inv, TypeOK
<1>4. CASE new # Invalid
  <2>1. cand' = [cand EXCEPT ![c] = new]
        /\ ex' = [pc |-> next, c |-> c, kind |-> kind, value |-> new]
    BY <1>4 DEF Move
  <2> HIDE DEF new
  <2> QED
    BY <1>1, <1>2, <1>4, <2>1 DEF Inv, TypeOK, ExType
<1> QED
  BY <1>3, <1>4

(* A step of the exit loop that changes memory in this way keeps the        *)
(* invariant.                                                               *)
LEMMA ExitStepInv ==
    ASSUME Inv, up, cand' \in [Cands -> Candidate \cup {Absent}],
           \A d \in Cands : cand[d].state = "REJECTED" => cand'[d] = cand[d],
           \A d \in Cands : cand'[d].state = "REJECTED" => cand[d].state = "REJECTED",
           ex' \in ExType,
           ex'.pc \in {"pending", "settled"} => ex'.value.state \in Positioned,
           pos' \in [Cands -> {"none", "open", "closed"}],
           UNCHANGED <<applied, row, orders, age, known, gate, blocked, ev, up, faults>>
    PROVE  Inv'
<1> USE DEF Inv
<1>1. TypeOK'
  BY DEF TypeOK, ExType
<1>2. PassStands'
  BY DEF PassStands, TypeOK
<1>3. ExitStands'
  BY DEF ExitStands
<1>4. RejectionKept'
  BY DEF RejectionKept, TypeOK
<1>5. OneEntryPerCandidate'
  BY DEF OneEntryPerCandidate
<1> QED
  BY <1>1, <1>2, <1>3, <1>4, <1>5 DEF Inv

(* An exit begins: the candidate is moved, or left alone. *)
LEMMA BeginExitInv ==
    ASSUME Inv, NEW c \in Cands, NEW kind \in {"full", "partial", "unrecoverable"},
           BeginExit(c, kind)
    PROVE  Inv'
<1>1. "EXIT_PENDING" \in States \cap Positioned
  BY StatesAre DEF Positioned
<1>2. up /\ pos' = pos /\ pos \in [Cands -> {"none", "open", "closed"}]
      /\ UNCHANGED <<applied, row, orders, age, known, gate, blocked, ev, up, faults>>
  BY DEF BeginExit, Inv, TypeOK, tables
<1>3. CASE Move(c, "EXIT_PENDING", "pending", kind)
  BY <1>1, <1>2, <1>3, MoveIs, ExitStepInv
<1>4. CASE ex' = [pc |-> "closing", c |-> c, kind |-> kind, value |-> Absent] /\ cand' = cand
  <2>1. /\ cand' \in [Cands -> Candidate \cup {Absent}]
        /\ ex' \in ExType
        /\ ex'.pc = "closing"
    BY <1>4 DEF Inv, TypeOK, ExType
  <2> QED
    BY <1>2, <1>4, <2>1, ExitStepInv
<1> QED
  BY <1>3, <1>4 DEF BeginExit

(* AfterClose moves the candidate or ends the exit. *)
LEMMA AfterCloseInv ==
    ASSUME Inv, up, NEW target \in States \cap Positioned, AfterClose(target),
           pos' \in [Cands -> {"none", "open", "closed"}],
           UNCHANGED <<applied, row, orders, age, known, gate, blocked, ev, up, faults>>
    PROVE  Inv'
<1>1. ex.c \in Cands /\ ex.kind \in {"full", "partial", "unrecoverable"}
  BY DEF Inv, TypeOK
<1>2. CASE Move(ex.c, target, "settled", ex.kind)
  BY <1>1, <1>2, MoveIs, ExitStepInv
<1>3. CASE ex' = ExIdle /\ cand' = cand
  <2>1. /\ cand' \in [Cands -> Candidate \cup {Absent}]
        /\ ex' \in ExType
        /\ ex'.pc = "idle"
    BY <1>3, IdleType DEF Inv, TypeOK
  <2> QED
    BY <1>3, <2>1, ExitStepInv
<1> QED
  BY <1>2, <1>3 DEF AfterClose

(* The sale succeeds. *)
LEMMA CloseSucceedsInv == ASSUME Inv, CloseSucceeds PROVE Inv'
<1> DEFINE target == IF ex.kind = "partial" THEN "POSITION_PARTIAL" ELSE "CLOSED"
<1>1. target \in States \cap Positioned
  BY StatesAre DEF Positioned
<1>2. up /\ ex.c \in Cands
  BY DEF CloseSucceeds, Inv, TypeOK, ExitStands
<1>3. pos' \in [Cands -> {"none", "open", "closed"}]
  BY <1>2 DEF CloseSucceeds, Inv, TypeOK
<1>4. /\ AfterClose(target)
      /\ UNCHANGED <<applied, row, orders, age, known, gate, blocked, ev, up, faults>>
  BY DEF CloseSucceeds
<1> HIDE DEF target
<1> QED
  BY <1>1, <1>2, <1>3, <1>4, AfterCloseInv

(* The sale fails. *)
LEMMA CloseFailsInv == ASSUME Inv, CloseFails PROVE Inv'
<1>1. "RETRYING_EXIT" \in States \cap Positioned
  BY StatesAre DEF Positioned
<1>2. up /\ pos' \in [Cands -> {"none", "open", "closed"}]
  BY DEF CloseFails, Inv, TypeOK, ExitStands, tables
<1>3. /\ AfterClose("RETRYING_EXIT")
      /\ UNCHANGED <<applied, row, orders, age, known, gate, blocked, ev, up, faults>>
  BY DEF CloseFails, tables
<1> QED
  BY <1>1, <1>2, <1>3, AfterCloseInv

(* The exit loop stores the state of a position. *)
LEMMA ExitUpsertInv == ASSUME Inv, ExitUpsert PROVE Inv'
<1> USE CandidateAssumption DEF Inv, ExitUpsert
<1>a. ExIdle \in ExType /\ ExIdle.pc = "idle"
  BY IdleType
<1> USE DEF ExType
<1>c. /\ row' \in [Cands -> Candidate \cup {Absent}]
      /\ ex' \in ExType
  BY <1>a DEF TypeOK
<1>b. "REJECTED" \notin Positioned
  BY DEF Positioned
<1>1. TypeOK'
  BY <1>c DEF TypeOK
<1>2. PassStands'
  BY <1>a, <1>b DEF TypeOK, PassStands
<1>3. ExitStands'
  BY <1>a, <1>b DEF TypeOK, ExitStands, PassStands
<1>4. RejectionKept'
  BY <1>a, <1>b DEF TypeOK, PassStands, ExitStands, RejectionKept
<1>5. OneEntryPerCandidate'
  BY <1>a, <1>b DEF TypeOK, OneEntryPerCandidate
<1> QED
  BY <1>1, <1>2, <1>3, <1>4, <1>5 DEF Inv

(* The upsert of the exit loop fails. *)
LEMMA ExitUpsertFailsInv == ASSUME Inv, ExitUpsertFails PROVE Inv'
<1> USE CandidateAssumption DEF Inv, ExitUpsertFails, tables
<1>a. ExIdle \in ExType /\ ExIdle.pc = "idle"
  BY IdleType
<1> USE DEF ExType
<1>1. TypeOK'
  BY <1>a DEF TypeOK
<1>2. PassStands'
  BY <1>a DEF TypeOK, PassStands
<1>3. ExitStands'
  BY <1>a DEF TypeOK, ExitStands, PassStands
<1>4. RejectionKept'
  BY <1>a DEF TypeOK, PassStands, ExitStands, RejectionKept
<1>5. OneEntryPerCandidate'
  BY <1>a DEF TypeOK, OneEntryPerCandidate
<1> QED
  BY <1>1, <1>2, <1>3, <1>4, <1>5 DEF Inv

(* Memory is lost, what is stored stays. *)
LEMMA CrashInv == ASSUME Inv, Crash PROVE Inv'
<1> USE CandidateAssumption DEF Inv, Crash, tables
<1>1. ev' \in EvType /\ ev'.pc = "idle" /\ ex' \in ExType /\ ex'.pc = "idle" /\ ~up'
  BY IdleType
<1>2. faults' \in 0..MaxFaults
  BY DEF TypeOK
<1>3. /\ cand' \in [Cands -> Candidate \cup {Absent}]
      /\ applied' \in [Cands -> {"no", "memory", "yes"}]
  BY DEF TypeOK
<1>4. TypeOK'
  <2> SUFFICES /\ row' \in [Cands -> Candidate \cup {Absent}]
               /\ age' \in [Cands -> {"new", "collected", "expired"}]
               /\ pos' \in [Cands -> {"none", "open", "closed"}] /\ known' \subseteq Cands
               /\ orders' \in [Cands -> Nat] /\ gate' \in BOOLEAN /\ blocked' \in BOOLEAN
               /\ up' \in BOOLEAN
    BY <1>1, <1>2, <1>3 DEF TypeOK, EvType, ExType
  <2> QED
    BY DEF TypeOK
<1>5. PassStands' /\ ExitStands' /\ RejectionKept'
  BY <1>1 DEF PassStands, ExitStands, RejectionKept
<1>6. OneEntryPerCandidate'
  BY DEF OneEntryPerCandidate
<1> QED
  BY <1>4, <1>5, <1>6 DEF Inv

(* Memory is restored from the rows. *)
LEMMA RestartInv == ASSUME Inv, Restart PROVE Inv'
<1> USE CandidateAssumption DEF Inv, Restart, tables
<1>1. TypeOK'
  BY DEF TypeOK
<1>2. PassStands'
  BY DEF TypeOK, PassStands
<1>3. ExitStands'
  BY DEF TypeOK, ExitStands, PassStands
<1>4. RejectionKept'
  BY DEF TypeOK, PassStands, ExitStands, RejectionKept
<1>5. OneEntryPerCandidate'
  BY DEF TypeOK, OneEntryPerCandidate
<1> QED
  BY <1>1, <1>2, <1>3, <1>4, <1>5 DEF Inv

(* The invariant is inductive. *)
LEMMA InvInductive == Inv /\ [Next]_vars => Inv'
<1> SUFFICES ASSUME Inv, [Next]_vars PROVE Inv'
  OBVIOUS
<1>1. CASE UNCHANGED vars
  BY <1>1 DEF vars, Inv, TypeOK, PassStands, ExitStands, RejectionKept, OneEntryPerCandidate
<1>2. CASE \E c \in Cands :
             \/ Discover(c) \/ CommitDiscovery(c) \/ Tick(c)
             \/ \E kind \in {"full", "partial", "unrecoverable"} : BeginExit(c, kind)
  BY <1>2, DiscoverInv, CommitDiscoveryInv, TickInv, BeginExitInv
<1>3. CASE CandidateStep
  BY <1>3, BeginPassInv, UpsertInv, RejectEntryInv, CallEntryHandlerInv, EntryCommittedInv,
     BookEntryInv, DecideInv DEF CandidateStep
<1>4. CASE CandidateFault
  BY <1>4, GatherFailsInv, HandlerRaisesInv, UpsertFailsInv, EntryAckLostInv DEF CandidateFault
<1>5. CASE ToggleGate \/ ExitUpsert \/ ExitUpsertFails \/ CloseSucceeds \/ CloseFails
           \/ Crash \/ Restart
  BY <1>5, ToggleGateInv, ExitUpsertInv, ExitUpsertFailsInv, CloseSucceedsInv, CloseFailsInv,
     CrashInv, RestartInv
<1> QED
  BY <1>1, <1>2, <1>3, <1>4, <1>5 DEF Next

(* Every state of the candidate loop satisfies the invariant. *)
THEOREM SpecInv == Spec => []Inv
BY InitInv, InvInductive, PTL DEF Spec

(* The candidates, their rows and both loops keep the types of              *)
(* CandidateStateMachine, whatever pass, exit or crash comes between.       *)
THEOREM SpecTypeOK == Spec => []TypeOK
<1>1. Inv => TypeOK
  BY DEF Inv
<1> QED
  BY <1>1, SpecInv, PTL

(* A candidate enters the market at most once, for any number of            *)
(* candidates, lost acknowledgements and restarts (commit_paper_entry).     *)
THEOREM SpecOneEntry == Spec => []OneEntryPerCandidate
<1>1. Inv => OneEntryPerCandidate
  BY DEF Inv
<1> QED
  BY <1>1, SpecInv, PTL

(* No step buys a candidate whose stored state is REJECTED: an entry is     *)
(* committed by a pass that holds the candidate in ENTRY_PENDING, and by    *)
(* RejectionKept that list would hold the rejection (_open_candidate).      *)
THEOREM SpecRejectedNeverEnters == Spec => RejectedNeverEnters
<1>1. ASSUME Inv, [Next]_vars, NEW c \in Cands, row[c].state = "REJECTED"
      PROVE  orders'[c] = orders[c]
  <2>1. CASE EntryCommitted \/ EntryAckLost
    <3>1. /\ ev.i \in Cands /\ up /\ ev.list[ev.i].state = "ENTRY_PENDING" /\ ev.pc = "entry"
          /\ CommitEntry(ev.i)
      BY <1>1, <2>1 DEF EntryCommitted, EntryAckLost, Inv, PassStands
    <3>2. ev.i # c
      BY <1>1, <3>1 DEF Inv, RejectionKept
    <3> QED
      BY <1>1, <3>1, <3>2 DEF CommitEntry, Inv, TypeOK
  <2>2. CASE ~(EntryCommitted \/ EntryAckLost)
    <3>1. orders' = orders
      BY <1>1, <2>2 DEF Next, vars, tables, CandidateStep, CandidateFault, Discover,
         CommitDiscovery, Tick, BeginExit, ToggleGate, BeginPass, Upsert, RejectEntry,
         CallEntryHandler, HandlerRejects, BookEntry, Decide, GatherFails, HandlerRaises,
         UpsertFails, ExitUpsert, ExitUpsertFails, CloseSucceeds, CloseFails, Crash, Restart
    <3> QED
      BY <3>1
  <2> QED
    BY <2>1, <2>2
<1>2. Inv /\ [Next]_vars => [\A c \in Cands : row[c].state = "REJECTED" => orders'[c] = orders[c]]_vars
  BY <1>1
<1> QED
  BY <1>2, SpecInv, PTL DEF Spec, RejectedNeverEnters
=============================================================================
