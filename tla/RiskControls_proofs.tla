------------------------ MODULE RiskControls_proofs ------------------------
(***************************************************************************)
(* For every set of equities, every limit and any number of tasks: the     *)
(* type invariant of RiskControls, that a halt or a loss streak lets at    *)
(* most one more entry through, and that no day has more than MaxTrades    *)
(* entries.                                                                *)
(***************************************************************************)
EXTENDS RiskControls, TLAPS

(* The ledger never counts a position that has no live row. *)
LedgerBehindRows == open <= live

(* An entry that waits for its quote is the only one that can still be      *)
(* late: no other was committed since the ledger blocks entries.            *)
LateOnce ==
    /\ late <= 1
    /\ ~Blocked => late = 0
    /\ entry = "quoting" => late = 0

Inv == TypeOK /\ LedgerBehindRows /\ TradesPerDay /\ OpenLimit /\ LateOnce

(* What every action keeps, before late is counted. *)
StepType ==
    /\ mem' \in Controls /\ row' \in Controls
    /\ writes' \in [Writers -> Controls \cup {NoWrite}]
    /\ up' \in BOOLEAN
    /\ entry' \in {"idle", "quoting"} /\ exit' \in ExitType
    /\ equity' \in Equities /\ peak' \in Equities /\ dayStart' \in Equities
    /\ baseline' \in Equities \cup {0}
    /\ trades' \in Nat /\ buys' \in Nat /\ streak' \in Nat /\ losses' \in Nat
    /\ open' \in Nat /\ live' \in Nat
    /\ open' <= live' /\ buys' <= MaxTrades /\ live' <= MaxOpen

(* How an action may change what LateOnce speaks about: an entry is         *)
(* committed only from "quoting", which it leaves, and "quoting" is entered *)
(* only while the ledger allows entries.                                    *)
StepLate ==
    /\ buys' > buys => entry = "quoting" /\ entry' = "idle"
    /\ entry' = "quoting" => entry = "quoting" \/ ~Blocked'

-----------------------------------------------------------------------------
(* Every control operation maps controls to controls. *)
LEMMA ControlTypes ==
    ASSUME NEW c \in Controls, NEW day \in {"today", "past"}
    PROVE  /\ SetHalt(c) \in Controls /\ SetHardHalt(c) \in Controls
           /\ SetDailyHalt(c, day) \in Controls /\ ClearExpired(c) \in Controls
           /\ Aged(c) \in Controls /\ Over(c) \in Controls
           /\ [c EXCEPT !.halt = "none"] \in Controls
           /\ [c EXCEPT !.pause = "running"] \in Controls
<1>1. SetHalt(c) \in Controls /\ SetHardHalt(c) \in Controls
  BY DEF SetHalt, SetHardHalt, Controls
<1>2. SetDailyHalt(c, day) \in Controls
  <2>1. SetDailyHalt(c, day) = [[c EXCEPT !.halt = "daily"] EXCEPT !.haltDay = day]
    BY DEF SetDailyHalt
  <2>2. [c EXCEPT !.halt = "daily"] \in Controls
    BY DEF Controls
  <2>3. \A d \in Controls : [d EXCEPT !.haltDay = day] \in Controls
    BY DEF Controls
  <2> QED BY <2>1, <2>2, <2>3
<1>3. ClearExpired(c) \in Controls
  BY DEF ClearExpired, Controls
<1>4. Aged(c) \in Controls /\ Over(c) \in Controls
  BY DEF Aged, Over, Controls
<1>5. [c EXCEPT !.halt = "none"] \in Controls /\ [c EXCEPT !.pause = "running"] \in Controls
  BY DEF Controls
<1> QED BY <1>1, <1>2, <1>3, <1>4, <1>5

(* The passing of time leaves an absent write absent. *)
LEMMA NoWriteAges == Aged(NoWrite) = NoWrite /\ Over(NoWrite) = NoWrite
  BY DEF Aged, Over, NoWrite

(* A verdict's controls are controls. *)
LEMMA ControlsAfterType ==
    ASSUME NEW c \in Controls, NEW v
    PROVE  ControlsAfter(c, v) \in Controls
  BY ControlTypes DEF ControlsAfter

(* An allowed entry found no halt and no loss streak. *)
LEMMA AllowMeansUnblocked ==
    ASSUME NEW c \in Controls, NEW limit \in BOOLEAN, NEW duplicate \in BOOLEAN,
           TypeOK, EntryVerdict(c, limit, duplicate) = "ALLOW"
    PROVE  c.halt = "none" /\ ~(streak >= MaxLosses)
  BY DEF EntryVerdict

(* The baseline of the day, set or not, is an equity. *)
LEMMA BaselineType == TypeOK => Baseline \in Equities
  BY DEF TypeOK, Baseline

-----------------------------------------------------------------------------
(* The candidate loop. *)

(* Evaluating an entry changes controls, and starts waiting for a quote only *)
(* when nothing blocks it.                                                   *)
LEMMA EvaluateStep ==
    ASSUME Inv, Evaluate
    PROVE  StepType /\ StepLate
<1> USE DEF Inv
<1> PICK limit \in BOOLEAN, duplicate \in BOOLEAN : EvaluateEntry(limit, duplicate)
  BY DEF Evaluate
<1> DEFINE c == ClearExpired(mem)
           v == EntryVerdict(c, limit, duplicate)
<1>1. c \in Controls /\ ControlsAfter(c, v) \in Controls
  BY ControlTypes, ControlsAfterType DEF TypeOK
<1>2. /\ mem' = ControlsAfter(c, v)
      /\ baseline' = baseline \/ baseline' = Baseline
      /\ entry' = IF v = "ALLOW" THEN "quoting" ELSE "idle"
      /\ writes' = IF v = "ALLOW" THEN writes
                   ELSE [writes EXCEPT !["entry"] = ControlsAfter(c, v)]
      /\ UNCHANGED <<row, up, exit, equity, peak, dayStart, counts>>
  BY DEF EvaluateEntry
<1> HIDE DEF c, v
<1>3. StepType
  BY <1>1, <1>2, BaselineType DEF StepType, TypeOK, LedgerBehindRows, TradesPerDay, OpenLimit, counts
<1>4. StepLate
  <2>1. ASSUME v = "ALLOW" PROVE ~Blocked'
    <3>1. c.halt = "none" /\ ~(streak >= MaxLosses)
      BY <1>1, <2>1, AllowMeansUnblocked DEF v
    <3>2. mem' = c
      BY <1>2, <2>1 DEF ControlsAfter
    <3> QED BY <1>2, <3>1, <3>2 DEF Blocked, counts
  <2>2. buys' = buys /\ buys \in Nat
    BY <1>2 DEF counts, TypeOK
  <2> QED BY <1>2, <2>1, <2>2 DEF StepLate
<1> QED BY <1>3, <1>4

(* A commit is the end of a wait, and counts against the rows. *)
LEMMA CommitStep ==
    ASSUME Inv, CommitEntry \/ CommitEntryLost
    PROVE  StepType /\ StepLate
<1> USE DEF Inv
<1>1. /\ entry = "quoting" /\ entry' = "idle" /\ buys < MaxTrades /\ live < MaxOpen
      /\ row' = ClearExpired(row)
      /\ buys' = buys + 1 /\ live' = live + 1
      /\ trades' \in {trades, trades + 1} /\ open' \in {open, open + 1}
      /\ UNCHANGED <<mem, writes, up, exit, figures, streak, losses>>
  BY DEF CommitEntry, CommitEntryLost, InsertEntry, RowAllows
<1>2. row' \in Controls
  BY <1>1, ControlTypes DEF TypeOK
<1>3. StepType
  BY <1>1, <1>2, RiskAssumption
  DEF StepType, TypeOK, LedgerBehindRows, TradesPerDay, OpenLimit, figures
<1> QED BY <1>1, <1>3 DEF StepLate

(* A failed entry changes nothing but the loop. *)
LEMMA FailStep ==
    ASSUME Inv, EntryFails
    PROVE  StepType /\ StepLate
<1> USE DEF Inv, EntryFails, controlVars, figures, counts
<1>1. StepType
  BY DEF StepType, TypeOK, LedgerBehindRows, TradesPerDay, OpenLimit
<1>2. StepLate
  BY DEF StepLate, TypeOK
<1> QED BY <1>1, <1>2

-----------------------------------------------------------------------------
(* The exit loop. *)

(* A pass begins, marks or ends. *)
LEMMA PassStep ==
    ASSUME Inv, BeginPass \/ SkipMarks \/ EndPass \/ \E e \in Equities : MarkPositions(e)
    PROVE  StepType /\ StepLate
<1> USE DEF Inv
<1>1. /\ exit' \in ExitType
      /\ equity' \in Equities /\ peak' \in Equities /\ baseline' \in Equities \cup {0}
  BY DEF BeginPass, SkipMarks, EndPass, MarkPositions, MarkEquity, ExitIdle, ExitType,
         TypeOK, figures
<1>2. UNCHANGED <<controlVars, up, entry, dayStart, counts>>
  BY DEF BeginPass, SkipMarks, EndPass, MarkPositions, figures
<1>3. StepType
  BY <1>1, <1>2 DEF StepType, TypeOK, LedgerBehindRows, TradesPerDay, OpenLimit, controlVars, counts
<1>4. StepLate
  BY <1>2 DEF StepLate, TypeOK, counts
<1> QED BY <1>3, <1>4

(* A judgement sets halts and has them written. *)
LEMMA JudgeStep ==
    ASSUME Inv, JudgePosition
    PROVE  StepType /\ StepLate
<1> USE DEF Inv
<1>1. mem' \in Controls
  BY ControlTypes DEF JudgePosition, TypeOK, ExitType
<1>2. writes' = writes \/ writes' = [writes EXCEPT !["exit"] = mem']
  BY DEF JudgePosition
<1>3. exit' \in ExitType /\ baseline' \in Equities
      /\ UNCHANGED <<row, up, entry, equity, peak, dayStart, counts>>
  BY BaselineType DEF JudgePosition, TypeOK, ExitType
<1>4. StepType
  BY <1>1, <1>2, <1>3 DEF StepType, TypeOK, LedgerBehindRows, TradesPerDay, OpenLimit, counts
<1>5. StepLate
  BY <1>3 DEF StepLate, TypeOK, counts
<1> QED BY <1>4, <1>5

(* An exit takes from the ledger and from the rows alike. *)
LEMMA SellStep ==
    ASSUME Inv, NEW lost \in BOOLEAN, NEW last \in {0, 1}, NEW e \in Equities,
           Sell(lost, last, e)
    PROVE  StepType /\ StepLate
<1> USE DEF Inv
<1>1. StreakAfter(streak, lost) \in Nat /\ StreakAfter(losses, lost) \in Nat
  BY RiskAssumption DEF StreakAfter, TypeOK
<1>2. exit' \in ExitType
  BY DEF Sell, TypeOK, ExitType
<1>3. /\ open > 0 /\ open' = open - last /\ live' = live - last
      /\ streak' = StreakAfter(streak, lost) /\ losses' = StreakAfter(losses, lost)
      /\ equity' \in Equities /\ peak' \in Equities
      /\ UNCHANGED <<controlVars, up, entry, baseline, dayStart, trades, buys>>
  BY DEF Sell, MarkEquity, TypeOK
<1>4. open' \in Nat /\ live' \in Nat /\ open' <= live' /\ live' <= MaxOpen
  BY <1>3, RiskAssumption DEF TypeOK, LedgerBehindRows, OpenLimit
<1>5. StepType
  BY <1>1, <1>2, <1>3, <1>4 DEF StepType, TypeOK, TradesPerDay, controlVars
<1>6. StepLate
  BY <1>3 DEF StepLate, TypeOK
<1> QED BY <1>5, <1>6

-----------------------------------------------------------------------------
(* Commands, writes, time and the process. *)

(* /pause and /resume. *)
LEMMA CommandStep ==
    ASSUME Inv, Halt \/ Resume
    PROVE  StepType /\ StepLate
<1> USE DEF Inv
<1>1. mem' \in Controls
  BY ControlTypes DEF Halt, Resume, TypeOK
<1>2. UNCHANGED <<row, up, entry, exit, figures, counts>>
  BY DEF Halt, Resume
<1>3. PICK t \in Tasks : writes' = [writes EXCEPT ![t] = mem']
  BY DEF Halt, Resume, SchedulePersist
<1>4. StepType
  BY <1>1, <1>2, <1>3
  DEF StepType, TypeOK, LedgerBehindRows, TradesPerDay, OpenLimit, figures, counts
<1>5. StepLate
  BY <1>2 DEF StepLate, TypeOK, counts
<1> QED BY <1>4, <1>5

(* A write lands or fails. *)
LEMMA WriteStep ==
    ASSUME Inv, NEW w \in Writers, WriteLands(w) \/ WriteFails(w)
    PROVE  StepType /\ StepLate
<1> USE DEF Inv
<1>1. row' \in Controls
  BY DEF WriteLands, WriteFails, TypeOK
<1>2. writes' = [writes EXCEPT ![w] = NoWrite] /\ exit' \in ExitType
      /\ UNCHANGED <<mem, up, entry, figures, counts>>
  BY DEF WriteLands, WriteFails, ExitIdle, ExitType, TypeOK
<1>3. StepType
  BY <1>1, <1>2 DEF StepType, TypeOK, LedgerBehindRows, TradesPerDay, OpenLimit, figures, counts
<1>4. StepLate
  BY <1>2 DEF StepLate, TypeOK, counts
<1> QED BY <1>3, <1>4

(* A day or a pause ends. *)
LEMMA TimeStep ==
    ASSUME Inv, DayChange \/ PauseElapses
    PROVE  StepType /\ StepLate
<1> USE DEF Inv
<1>1. mem' \in Controls /\ row' \in Controls
  BY ControlTypes DEF DayChange, PauseElapses, TypeOK
<1>2. writes' \in [Writers -> Controls \cup {NoWrite}]
  <2>1. \A w \in Writers : Aged(writes[w]) \in Controls \cup {NoWrite}
                           /\ Over(writes[w]) \in Controls \cup {NoWrite}
    BY ControlTypes, NoWriteAges DEF TypeOK
  <2> QED BY <2>1 DEF DayChange, PauseElapses
<1>3. /\ exit' \in ExitType
      /\ baseline' \in {baseline, 0} /\ dayStart' \in {dayStart, equity}
      /\ trades' \in {trades, 0} /\ buys' \in {buys, 0}
      /\ UNCHANGED <<up, entry, equity, peak, streak, losses, open, live>>
  BY DEF DayChange, PauseElapses, TypeOK, ExitType, figures, counts
<1>4. StepType
  BY <1>1, <1>2, <1>3, RiskAssumption DEF StepType, TypeOK, LedgerBehindRows, TradesPerDay, OpenLimit
<1>5. StepLate
  BY <1>3 DEF StepLate, TypeOK
<1> QED BY <1>4, <1>5

(* The process dies, or starts from the rows. *)
LEMMA ProcessStep ==
    ASSUME Inv, Crash \/ Restart
    PROVE  StepType /\ StepLate
<1> USE DEF Inv
<1>1. NoControls \in Controls /\ ExitIdle \in ExitType
      /\ NoWrites \in [Writers -> Controls \cup {NoWrite}]
  BY DEF NoControls, Controls, ExitIdle, ExitType, NoWrites
<1>2. StepType
  <2>1. CASE Crash
    <3>1. /\ mem' \in Controls /\ writes' \in [Writers -> Controls \cup {NoWrite}]
          /\ exit' \in ExitType
      BY <1>1, <2>1 DEF Crash
    <3>2. /\ up' = FALSE /\ entry' = "idle" /\ baseline' = 0
          /\ trades' = 0 /\ streak' = 0 /\ open' = 0
          /\ UNCHANGED <<row, equity, peak, dayStart, buys, losses, live>>
      BY <2>1 DEF Crash
    <3>3. 0 <= live
      BY DEF TypeOK
    <3> QED BY <3>1, <3>2, <3>3 DEF StepType, TypeOK, TradesPerDay, OpenLimit
  <2>2. CASE Restart
    BY <2>2 DEF Restart, StepType, TypeOK, LedgerBehindRows, TradesPerDay, OpenLimit
  <2> QED BY <2>1, <2>2
<1>3. StepLate
  BY DEF Crash, Restart, StepLate, TypeOK
<1> QED BY <1>2, <1>3

-----------------------------------------------------------------------------
(* Nothing is halted, open or under way at the start. *)
LEMMA InitInv == Init => Inv
<1> SUFFICES ASSUME Init PROVE Inv
  OBVIOUS
<1> USE DEF Init
<1>1. TypeOK
  BY RiskAssumption
  DEF TypeOK, NoControls, Controls, NoWrites, ExitIdle, ExitType
<1>2. LedgerBehindRows /\ TradesPerDay /\ OpenLimit /\ LateOnce
  BY RiskAssumption DEF LedgerBehindRows, TradesPerDay, OpenLimit, LateOnce
<1> QED BY <1>1, <1>2 DEF Inv

(* Every step preserves the invariant. *)
LEMMA NextInv == Inv /\ [Next]_vars => Inv'
<1> SUFFICES ASSUME Inv, [Next]_vars PROVE Inv'
  OBVIOUS
<1>1. CASE Next
  <2>1. StepType /\ StepLate
    <3>1. CASE LoopNext
      BY <3>1, EvaluateStep, CommitStep, FailStep, PassStep, JudgeStep, SellStep DEF LoopNext
    <3>2. CASE ControlNext
      BY <3>2, CommandStep, WriteStep, TimeStep, ProcessStep DEF ControlNext
    <3> QED BY <1>1, <3>1, <3>2 DEF Next
  <2>2. late' = IF ~Blocked' THEN 0 ELSE IF buys' > buys THEN late + 1 ELSE late
    BY <1>1 DEF Next, CountLate
  <2>3. late' \in Nat
    BY <2>2 DEF Inv, TypeOK
  <2>4. TypeOK' /\ LedgerBehindRows' /\ TradesPerDay' /\ OpenLimit'
    BY <2>1, <2>3 DEF StepType, TypeOK, LedgerBehindRows, TradesPerDay, OpenLimit
  <2>5. LateOnce'
    BY <2>1, <2>2 DEF StepLate, LateOnce, Inv, TypeOK
  <2> QED BY <2>4, <2>5 DEF Inv
<1>2. CASE UNCHANGED vars
  BY <1>2 DEF vars, controlVars, figures, counts, Inv, TypeOK, LedgerBehindRows,
              TradesPerDay, OpenLimit, LateOnce, Blocked
<1> QED BY <1>1, <1>2

(* The inductive invariant holds in every reachable state. *)
THEOREM Invariance == Spec => []Inv
  BY InitInv, NextInv, PTL DEF Spec

(* Type correctness: no exit makes the number of positions negative.         *)
THEOREM TypeCorrect == Spec => []TypeOK
<1>1. Inv => TypeOK
  BY DEF Inv
<1> QED BY <1>1, Invariance, PTL

(* However halts, losses, commands, crashes and entries interleave, at most  *)
(* one entry is committed after the ledger began to block them.              *)
THEOREM HaltStopsEntries == Spec => []AtMostOneLateEntry
<1>1. Inv => AtMostOneLateEntry
  BY DEF Inv, LateOnce, AtMostOneLateEntry
<1> QED BY <1>1, Invariance, PTL

(* No interleaving, lost acknowledgement, restart or midnight makes the      *)
(* account hold more than MaxOpen positions, or a day have more than         *)
(* MaxTrades entries (commit_paper_entry).                                   *)
THEOREM EntryLimitsHold == Spec => []EntryLimits
<1>1. Inv => EntryLimits
  BY DEF Inv, EntryLimits
<1> QED BY <1>1, Invariance, PTL
=============================================================================
