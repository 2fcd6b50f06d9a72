---------------------------- MODULE RiskControls ----------------------------
(***************************************************************************)
(* The risk controls: halts, the daily halt, the loss pause and the limits *)
(* that set them, in the ledger's memory and in the paper_accounts row.    *)
(* The candidate loop, the exit loop and the operator's commands change    *)
(* the controls in memory and store them with persist_risk_state, whose    *)
(* transactions carry values captured when they were created.              *)
(*                                                                         *)
(* Time is relative to now: a pause is running or over, a day is today or  *)
(* past.  A pause is armed only when none is running, so every running     *)
(* copy of pause_until is the same instant.  Positions, their prices and   *)
(* the booking of fills are PaperAccount's: here an exit is a loss or not, *)
(* and the equity it leaves is an input.                                   *)
(***************************************************************************)
EXTENDS Integers

CONSTANTS
    Equities,       \* equity of the account (marks are inputs)
    Start,          \* starting equity
    DailyLimit,     \* daily_loss_limit_usdc
    DrawdownPct,    \* all_time_drawdown_limit_pct
    MaxTrades,      \* max_trades_per_day
    MaxLosses,      \* max_consecutive_losses: pause
    HaltLosses,     \* daily_halt_after_consecutive_losses
    MaxOpen,        \* max_open_positions
    Tasks,          \* bound: risk-state-persist tasks in flight
    DatabaseFails   \* persist_risk_state may fail, acknowledgements may be lost

ASSUME RiskAssumption ==
    /\ Equities \subseteq Nat \ {0} /\ Start \in Equities
    /\ DailyLimit \in Nat /\ DrawdownPct \in Nat
    /\ MaxTrades \in Nat /\ MaxOpen \in Nat
    /\ MaxLosses \in Nat \ {0} /\ HaltLosses \in Nat /\ MaxLosses <= HaltLosses
    /\ DatabaseFails \in BOOLEAN
    /\ Tasks \cap {"entry", "exit"} = {}

VARIABLES
    mem,        \* controls of the ledger
    row,        \* controls of the paper_accounts row
    writes,     \* persist_risk_state calls in flight, by writer
    up,         \* a runtime process is running
    entry,      \* candidate loop: "idle", or "quoting" an allowed entry
    exit,       \* exit loop: where it is, and the day its pass began on
    equity, peak,
    baseline,   \* daily_equity_baseline of today in memory, 0 when not set
    dayStart,   \* last equity mark before today
    trades,     \* entries of today among the ledger's fills
    buys,       \* entries of today among the order rows
    streak,     \* consecutive losing exits among the ledger's fills
    losses,     \* the same among the fill rows
    open,       \* open positions of the ledger
    live,       \* live position rows
    late        \* history: entries committed since the ledger blocks entries

controlVars == <<mem, row, writes>>
figures == <<equity, peak, baseline, dayStart>>
counts == <<trades, buys, streak, losses, open, live>>
vars == <<controlVars, up, entry, exit, figures, counts, late>>

Controls ==
    [halt : {"none", "manual", "daily", "hard"}, haltDay : {"none", "today", "past"},
     pause : {"none", "running", "over"}]
NoControls == [halt |-> "none", haltDay |-> "none", pause |-> "none"]

Writers == {"entry", "exit"} \cup Tasks
NoWrite == [halt |-> "absent", haltDay |-> "none", pause |-> "none"]
NoWrites == [w \in Writers |-> NoWrite]

ExitIdle == [pc |-> "idle", day |-> "today"]

Init ==
    /\ mem = NoControls /\ row = NoControls /\ writes = NoWrites
    /\ up = TRUE /\ entry = "idle" /\ exit = ExitIdle
    /\ equity = Start /\ peak = Start /\ baseline = Start /\ dayStart = Start
    /\ trades = 0 /\ buys = 0 /\ streak = 0 /\ losses = 0
    /\ open = 0 /\ live = 0
    /\ late = 0

-----------------------------------------------------------------------------
(* Setting and clearing controls (LedgerState, PaperLedger). *)

SetHalt(c) == [c EXCEPT !.halt = "manual"]
SetHardHalt(c) == [c EXCEPT !.halt = "hard"]
SetDailyHalt(c, day) == [c EXCEPT !.halt = "daily", !.haltDay = day]

(* clear_expired_daily_controls, and the same lines of commit_paper_entry. *)
ClearExpired(c) ==
    [halt |-> IF c.haltDay = "past" /\ c.halt = "daily" THEN "none" ELSE c.halt,
     haltDay |-> IF c.haltDay = "past" THEN "none" ELSE c.haltDay,
     pause |-> IF c.pause = "over" THEN "none" ELSE c.pause]

(* daily_loss_exceeded sets the baseline of a day that has none. *)
Baseline == IF baseline = 0 THEN equity ELSE baseline
DailyLossExceeded == Baseline - equity >= DailyLimit
DrawdownExceeded == equity < peak /\ (peak - equity) * 100 >= DrawdownPct * peak

-----------------------------------------------------------------------------
(* The candidate loop: evaluate_entry, broker.open, commit_paper_entry. *)

(* Mutant: a halt is left to the commit, which reads the row *)
EntryVerdictIgnoresHalt(c, limit, duplicate) ==
    IF c.pause = "running" THEN "CONSECUTIVE_LOSS_PAUSE"
    ELSE IF limit \/ open >= MaxOpen THEN "LIMIT"
    ELSE IF DailyLossExceeded THEN "DAILY_LOSS_LIMIT"
    ELSE IF trades >= MaxTrades THEN "MAX_TRADES_PER_DAY"
    ELSE IF DrawdownExceeded THEN "ALL_TIME_DRAWDOWN_LIMIT"
    ELSE IF streak >= HaltLosses THEN "CONSECUTIVE_LOSS_DAILY_HALT"
    ELSE IF streak >= MaxLosses THEN "CONSECUTIVE_LOSSES"
    ELSE IF duplicate THEN "DUPLICATE_TOKEN"
    ELSE "ALLOW"

(* The checks of evaluate_entry in their order.  limit stands for position  *)
(* size, exposure and cash, duplicate for a mint that is open.              *)
EntryVerdict(c, limit, duplicate) ==
    IF c.halt # "none" THEN "HALTED_BY_RISK_MANAGER"
    ELSE IF c.pause = "running" THEN "CONSECUTIVE_LOSS_PAUSE"
    ELSE IF limit \/ open >= MaxOpen THEN "LIMIT"
    ELSE IF DailyLossExceeded THEN "DAILY_LOSS_LIMIT"
    ELSE IF trades >= MaxTrades THEN "MAX_TRADES_PER_DAY"
    ELSE IF DrawdownExceeded THEN "ALL_TIME_DRAWDOWN_LIMIT"
    ELSE IF streak >= HaltLosses THEN "CONSECUTIVE_LOSS_DAILY_HALT"
    ELSE IF streak >= MaxLosses THEN "CONSECUTIVE_LOSSES"
    ELSE IF duplicate THEN "DUPLICATE_TOKEN"
    ELSE "ALLOW"

ControlsAfter(c, verdict) ==
    CASE verdict \in {"DAILY_LOSS_LIMIT", "CONSECUTIVE_LOSS_DAILY_HALT"}
            -> SetDailyHalt(c, "today")
      [] verdict = "ALL_TIME_DRAWDOWN_LIMIT" -> SetHardHalt(c)
      [] verdict = "CONSECUTIVE_LOSSES" -> [c EXCEPT !.pause = "running"]
      [] OTHER -> c

(* _open_candidate up to its first await: the entry waits for its quote, or *)
(* the controls are on their way to the row.                                *)
EvaluateEntry(limit, duplicate) ==
    /\ up /\ entry = "idle" /\ writes["entry"] = NoWrite
    /\ LET c == ClearExpired(mem)
           verdict == EntryVerdict(c, limit, duplicate) IN
       /\ mem' = ControlsAfter(c, verdict)
       /\ baseline' = IF verdict \in {"HALTED_BY_RISK_MANAGER", "CONSECUTIVE_LOSS_PAUSE",
                                      "LIMIT"}
                      THEN baseline ELSE Baseline
       /\ entry' = IF verdict = "ALLOW" THEN "quoting" ELSE "idle"
       /\ writes' = IF verdict = "ALLOW" THEN writes
                    ELSE [writes EXCEPT !["entry"] = ControlsAfter(c, verdict)]
    /\ UNCHANGED <<row, up, exit, equity, peak, dayStart, counts>>

(* Mutant: the commit trusts the ledger's count of today's entries *)
RowAllowsAnyTrades ==
    /\ ClearExpired(row).halt = "none" /\ ClearExpired(row).pause = "none"
    /\ live < MaxOpen
    /\ dayStart - equity < DailyLimit

(* What commit_paper_entry checks again under the row lock. *)
RowAllows ==
    /\ ClearExpired(row).halt = "none" /\ ClearExpired(row).pause = "none"
    /\ live < MaxOpen
    /\ buys < MaxTrades
    /\ dayStart - equity < DailyLimit

InsertEntry ==
    /\ entry = "quoting"
    /\ RowAllows
    /\ row' = ClearExpired(row)
    /\ buys' = buys + 1 /\ live' = live + 1
    /\ entry' = "idle"
    /\ UNCHANGED <<mem, writes, up, exit, figures, streak, losses>>

(* commit_paper_entry, and open_position in the ledger. *)
CommitEntry ==
    /\ InsertEntry
    /\ trades' = trades + 1 /\ open' = open + 1

(* The acknowledgement is lost: the ledger does not book the entry. *)
CommitEntryLost ==
    /\ InsertEntry /\ DatabaseFails
    /\ UNCHANGED <<trades, open>>

(* No quote, a limit of the row, or an error.  The daily halt the commit    *)
(* sets on the row when its own daily loss check fails is rolled back by    *)
(* the exception it raises next.                                            *)
EntryFails ==
    /\ entry = "quoting"
    /\ entry' = "idle"
    /\ UNCHANGED <<controlVars, up, exit, figures, counts>>

-----------------------------------------------------------------------------
(* The exit loop: evaluate_and_close_exits. *)

MarkEquity(e) ==
    /\ equity' = e
    /\ peak' = IF e > peak THEN e ELSE peak

(* The pass notes the time and asks for a quote of every open position. *)
BeginPass ==
    /\ up /\ exit.pc = "idle" /\ open > 0
    /\ exit' = [pc |-> "quoting", day |-> "today"]
    /\ UNCHANGED <<controlVars, up, entry, figures, counts>>

(* All quotes arrived: mark_to_market and update_paper_marks. *)
MarkPositions(e) ==
    /\ exit.pc = "quoting"
    /\ exit' = [exit EXCEPT !.pc = "judging"]
    /\ MarkEquity(e)
    /\ baseline' = IF baseline = 0 THEN e ELSE baseline
    /\ UNCHANGED <<controlVars, up, entry, dayStart, counts>>

(* Some quote is missing: no mark. *)
SkipMarks ==
    /\ exit.pc = "quoting"
    /\ exit' = [exit EXCEPT !.pc = "judging"]
    /\ UNCHANGED <<controlVars, up, entry, figures, counts>>

(* The next quoted position is judged: a breached limit sets a halt, dated  *)
(* with the day the pass began on, that is stored before the exit is        *)
(* decided.                                                                 *)
JudgePosition ==
    /\ exit.pc \in {"judging", "deciding"} /\ writes["exit"] = NoWrite /\ open > 0
    /\ mem' = IF DrawdownExceeded THEN SetHardHalt(mem)
              ELSE IF DailyLossExceeded THEN SetDailyHalt(mem, exit.day) ELSE mem
    /\ writes' = IF DrawdownExceeded \/ DailyLossExceeded
                 THEN [writes EXCEPT !["exit"] = mem'] ELSE writes
    /\ baseline' = Baseline
    /\ exit' = [exit EXCEPT !.pc = "deciding"]
    /\ UNCHANGED <<row, up, entry, equity, peak, dayStart, counts>>

StreakAfter(n, lost) == IF ~lost THEN 0 ELSE IF n < HaltLosses THEN n + 1 ELSE n

(* An exit, of a part (last = 0) or of the rest of a position: after its    *)
(* judgement, or during the quotes when it has been without one for too     *)
(* long.  Streaks are counted up to HaltLosses, more make no difference.    *)
Sell(lost, last, e) ==
    /\ writes["exit"] = NoWrite /\ open > 0
    /\ exit.pc = "deciding" \/ (exit.pc = "quoting" /\ lost)
    /\ exit' = [exit EXCEPT !.pc = IF @ = "deciding" THEN "judging" ELSE @]
    /\ streak' = StreakAfter(streak, lost) /\ losses' = StreakAfter(losses, lost)
    /\ open' = open - last /\ live' = live - last
    /\ MarkEquity(e)
    /\ UNCHANGED <<controlVars, up, entry, baseline, dayStart, trades, buys>>

(* The pass ends, after its last position or with an exception. *)
EndPass ==
    /\ exit.pc # "idle" /\ writes["exit"] = NoWrite
    /\ exit' = ExitIdle
    /\ UNCHANGED <<controlVars, up, entry, figures, counts>>

-----------------------------------------------------------------------------
(* Operator commands (/pause, /resume, SIGUSR1, SIGUSR2) and stored values. *)

SchedulePersist ==
    \E t \in Tasks : writes[t] = NoWrite /\ writes' = [writes EXCEPT ![t] = mem']

Halt ==
    /\ up
    /\ mem' = SetHalt(mem)
    /\ SchedulePersist
    /\ UNCHANGED <<row, up, entry, exit, figures, counts>>

(* clear_halt refuses a hard or daily halt. *)
Resume ==
    /\ up /\ mem.halt \in {"none", "manual"}
    /\ mem' = [mem EXCEPT !.halt = "none"]
    /\ SchedulePersist
    /\ UNCHANGED <<row, up, entry, exit, figures, counts>>

(* persist_risk_state commits the captured values; the tasks take their     *)
(* connections in any order.                                                *)
WriteLands(w) ==
    /\ writes[w] # NoWrite
    /\ row' = writes[w]
    /\ writes' = [writes EXCEPT ![w] = NoWrite]
    /\ UNCHANGED <<mem, up, entry, exit, figures, counts>>

(* It fails: a task's error is logged, a loop's ends its pass. *)
WriteFails(w) ==
    /\ writes[w] # NoWrite /\ DatabaseFails
    /\ writes' = [writes EXCEPT ![w] = NoWrite]
    /\ exit' = IF w = "exit" THEN ExitIdle ELSE exit
    /\ UNCHANGED <<mem, row, up, entry, figures, counts>>

-----------------------------------------------------------------------------
(* Time and the process. *)

Aged(c) == [c EXCEPT !.haltDay = IF @ = "today" THEN "past" ELSE @]

DayChange ==
    /\ mem' = Aged(mem) /\ row' = Aged(row)
    /\ writes' = [w \in Writers |-> Aged(writes[w])]
    /\ exit' = IF exit.pc = "idle" THEN exit ELSE [exit EXCEPT !.day = "past"]
    /\ baseline' = 0 /\ dayStart' = equity
    /\ trades' = 0 /\ buys' = 0
    /\ UNCHANGED <<up, entry, equity, peak, streak, losses, open, live>>

Over(c) == [c EXCEPT !.pause = IF @ = "running" THEN "over" ELSE @]

PauseElapses ==
    /\ "running" \in {mem.pause, row.pause} \cup {writes[w].pause : w \in Writers}
    /\ mem' = Over(mem) /\ row' = Over(row)
    /\ writes' = [w \in Writers |-> Over(writes[w])]
    /\ UNCHANGED <<up, entry, exit, figures, counts>>

Crash ==
    /\ up /\ up' = FALSE
    /\ mem' = NoControls /\ writes' = NoWrites
    /\ entry' = "idle" /\ exit' = ExitIdle
    /\ baseline' = 0 /\ trades' = 0 /\ streak' = 0 /\ open' = 0
    /\ UNCHANGED <<row, equity, peak, dayStart, buys, losses, live>>

(* start(): restore_from_database, set_daily_equity_baseline. *)
Restart ==
    /\ ~up /\ up' = TRUE
    /\ mem' = row
    /\ baseline' = dayStart /\ trades' = buys /\ streak' = losses /\ open' = live
    /\ UNCHANGED <<row, writes, entry, exit, equity, peak, dayStart, buys, losses, live>>

-----------------------------------------------------------------------------
Evaluate == \E limit, duplicate \in BOOLEAN : EvaluateEntry(limit, duplicate)

LoopNext ==
    \/ Evaluate
    \/ CommitEntry
    \/ CommitEntryLost
    \/ EntryFails
    \/ BeginPass
    \/ \E e \in Equities : MarkPositions(e)
    \/ SkipMarks
    \/ JudgePosition
    \/ \E lost \in BOOLEAN, last \in {0, 1}, e \in Equities : Sell(lost, last, e)
    \/ EndPass

ControlNext ==
    \/ Halt
    \/ Resume
    \/ \E w \in Writers : WriteLands(w) \/ WriteFails(w)
    \/ DayChange
    \/ PauseElapses
    \/ Crash
    \/ Restart

(* The ledger blocks new entries. *)
Blocked == mem.halt # "none" \/ streak >= MaxLosses

CountLate == late' = IF ~Blocked' THEN 0 ELSE IF buys' > buys THEN late + 1 ELSE late

Next == (LoopNext \/ ControlNext) /\ CountLate

Spec == Init /\ [][Next]_vars

(* Candidates keep coming, transactions end, the hour of a pause passes and *)
(* the supervisor restarts the process.                                     *)
Fairness ==
    /\ WF_vars(Evaluate /\ CountLate)
    /\ WF_vars(EntryFails /\ CountLate)
    /\ \A w \in Writers : WF_vars(WriteLands(w) /\ CountLate)
    /\ WF_vars(PauseElapses /\ CountLate)
    /\ WF_vars(Restart /\ CountLate)

FairSpec == Spec /\ Fairness

-----------------------------------------------------------------------------
ExitType == [pc : {"idle", "quoting", "judging", "deciding"}, day : {"today", "past"}]

(* The type of every variable. *)
TypeOK ==
    /\ mem \in Controls /\ row \in Controls
    /\ writes \in [Writers -> Controls \cup {NoWrite}]
    /\ up \in BOOLEAN
    /\ entry \in {"idle", "quoting"} /\ exit \in ExitType
    /\ equity \in Equities /\ peak \in Equities /\ dayStart \in Equities
    /\ baseline \in Equities \cup {0}
    /\ trades \in Nat /\ buys \in Nat /\ streak \in Nat /\ losses \in Nat
    /\ open \in Nat /\ live \in Nat
    /\ late \in Nat

(* Once a halt is set or the loss streak is reached, at most the one entry  *)
(* that was already waiting for its quote is committed: evaluate_entry is   *)
(* checked before the delay, exits and commands happen during it.           *)
AtMostOneLateEntry == late <= 1

(* max_trades_per_day holds for the order rows of every day, although the   *)
(* count in the ledger misses entries whose acknowledgement was lost.       *)
TradesPerDay == buys <= MaxTrades

(* max_open_positions holds for the position rows, although the entry was   *)
(* approved against a ledger that misses positions whose commit was not     *)
(* acknowledged.                                                            *)
OpenLimit == live <= MaxOpen

(* Both limits at once, as commit_paper_entry checks them under the lock of *)
(* the account row.                                                         *)
EntryLimits == TradesPerDay /\ OpenLimit

-----------------------------------------------------------------------------
(* What the documents say, and the code does not always do. *)

(* docs/RISK_MANAGEMENT.md: "Daily and hard halts are durable": with no     *)
(* write in flight the row has the halt the ledger has.                     *)
HaltsAreDurable ==
    writes = NoWrites /\ mem.halt \in {"daily", "hard"} => row.halt = mem.halt

(* docs/RISK_MANAGEMENT.md: "Three consecutive losing exits pause entry for *)
(* 60 minutes": the pause comes to an end.                                  *)
PauseEnds == mem.pause = "running" ~> mem.pause = "none"
=============================================================================
