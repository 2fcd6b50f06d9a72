---------------------------- MODULE PaperAccount ----------------------------
(***************************************************************************)
(* The paper account: the account, position and order rows of PostgreSQL,  *)
(* the in-memory ledger that mirrors them, the candidate loop that opens   *)
(* positions, the exit loop that marks and closes them, crashes, restarts  *)
(* and commits whose acknowledgement is lost.  The two loops are asyncio   *)
(* tasks: they interleave at every await, so every step below ends at one. *)
(*                                                                         *)
(* A position consists of Parts equal parts bought at UnitCost each; an    *)
(* exit sells a number of parts.  Costs, marks and proceeds are amounts    *)
(* per part, so the proportional costs of the code are exact integers.     *)
(* A candidate opens at most one position (order id entry:{candidate}), so *)
(* the position is named by its candidate.                                 *)
(***************************************************************************)
EXTENDS Integers, FiniteSets, Functions

CONSTANTS
    Candidates,    \* candidates whose entry rules are met
    Mints,         \* token mints
    MintOf,        \* the mint of a candidate
    Parts,         \* parts of a new position
    TP2Parts,      \* parts closed by TP2 (a share of the initial size)
    UnitCost,      \* cost of a part, entry fees included
    EntryFee,      \* network fee of an entry
    Prices,        \* executable value of a part in a sell quote
    FullReasons,   \* exit reasons that close the whole position
    Start,         \* starting equity
    MaxExposure,   \* max_exposure_usdc
    MaxOpen,       \* max_open_positions
    CostAmount,    \* amount of one recorded operational cost
    MaxCosts,      \* bound: operational costs recorded
    MaxLostAcks    \* bound: commits whose acknowledgement is lost

EntryCost == Parts * UnitCost
Notional == EntryCost - EntryFee

ASSUME PaperAssumption ==
    /\ MintOf \in [Candidates -> Mints]
    /\ Parts \in Nat \ {0} /\ TP2Parts \in Nat \ {0}
    /\ UnitCost \in Nat \ {0} /\ EntryFee \in Nat
    /\ Prices \subseteq Nat \ {0}
    /\ Start \in Nat /\ MaxExposure \in Nat /\ MaxOpen \in Nat
    /\ CostAmount \in Nat /\ MaxCosts \in Nat /\ MaxLostAcks \in Nat
    /\ FullReasons \cap {"TP1", "TP2", "entry"} = {}

ASSUME FiniteAssumption == IsFiniteSet(Candidates)

VARIABLES
    account,   \* paper_accounts row
    rows,      \* paper_positions rows
    orders,    \* paper_orders rows: the idempotency keys committed
    pending,   \* candidates stored as ENTRY_PENDING
    active,    \* a system_runs row is active (stopped_at IS NULL)
    costs,     \* operational costs recorded
    up,        \* a runtime process is running
    ledger,    \* account figures of the in-memory ledger
    book,      \* positions of the ledger
    filled,    \* order ids of the ledger's fills
    entry,     \* candidate loop: where it is, and the candidate it opens
    exit,      \* exit loop: where it is, and what it carries over awaits
    lostAcks   \* commits whose acknowledgement was lost

dbVars == <<account, rows, orders, pending, active, costs>>
memVars == <<ledger, book, filled>>
vars == <<dbVars, up, memVars, entry, exit, lostAcks>>

Reasons == {"TP1", "TP2", "UNRECOVERABLE"} \cup FullReasons
OrderId(c, r) == <<c, r>>
Live == {"OPEN", "PARTIAL"}

NoPosition == [open |-> FALSE, parts |-> 0, mark |-> 0, taken |-> {}]
EmptyLedger == [equity |-> Start, realized |-> 0, unrealized |-> 0, locked |-> 0]

NoQuotes == [c \in Candidates |-> 0]

EntryIdle == [pc |-> "idle", cand |-> "none"]
ExitIdle ==
    [pc |-> "idle", held |-> {}, todo |-> {}, quotes |-> NoQuotes, gain |-> 0,
     snap |-> EmptyLedger, cand |-> "none", reason |-> "none", amount |-> 0,
     price |-> 0, back |-> "idle"]

OpenBook == {c \in Candidates : book[c].open}
OpenRows == {c \in Candidates : rows[c].status \in Live}

Init ==
    /\ account = [cash |-> Start, locked |-> 0, realized |-> 0, unrealized |-> 0,
                  equity |-> Start]
    /\ rows = [c \in Candidates |->
                  [status |-> "NONE", parts |-> 0, unrealized |-> 0, taken |-> {}]]
    /\ orders = {}
    /\ pending = Candidates
    /\ active = TRUE
    /\ costs = 0
    /\ up = TRUE
    /\ ledger = EmptyLedger
    /\ book = [c \in Candidates |-> NoPosition]
    /\ filled = {}
    /\ entry = EntryIdle
    /\ exit = ExitIdle
    /\ lostAcks = 0

-----------------------------------------------------------------------------
(* The candidate loop: _open_candidate, broker.open, commit_paper_entry and *)
(* open_position.                                                           *)

(* RiskManager.evaluate_entry, the limits that depend on this state. *)
LedgerAllows(c) ==
    /\ ledger.locked + Notional <= MaxExposure
    /\ Cardinality(OpenBook) < MaxOpen
    /\ ledger.equity - ledger.unrealized - ledger.locked >= Notional
    /\ \A d \in OpenBook : MintOf[d] # MintOf[c]

(* Mutant: the commit trusts the ledger's duplicate check *)
CommitAllowsAnyMint(c) ==
    /\ account.locked + EntryCost <= MaxExposure
    /\ Cardinality(OpenRows) < MaxOpen
    /\ account.cash >= EntryCost

(* The limits commit_paper_entry checks again under the account row's lock. *)
CommitAllows(c) ==
    /\ account.locked + EntryCost <= MaxExposure
    /\ Cardinality(OpenRows) < MaxOpen
    /\ \A d \in OpenRows : MintOf[d] # MintOf[c]
    /\ account.cash >= EntryCost

(* The entry passes the risk manager and waits for delay and quote. *)
BeginEntry(c) ==
    /\ up /\ entry.pc = "idle" /\ c \in pending
    /\ LedgerAllows(c)
    /\ OrderId(c, "entry") \notin filled
    /\ entry' = [pc |-> "quoting", cand |-> c]
    /\ UNCHANGED <<dbVars, up, memVars, exit, lostAcks>>

(* The risk manager blocks the entry, or the ledger already has its fill:   *)
(* the candidate leaves ENTRY_PENDING without an order.                     *)
EntrySettled(c) ==
    /\ up /\ entry.pc = "idle" /\ c \in pending
    /\ ~LedgerAllows(c) \/ OrderId(c, "entry") \in filled
    /\ pending' = pending \ {c}
    /\ UNCHANGED <<account, rows, orders, active, costs, up, memVars, entry, exit,
                   lostAcks>>

(* An exception (no quote, a limit, the database) ends the pass and blocks  *)
(* the entry gate, so the next pass rejects the candidate.                  *)
EntryFails ==
    /\ entry.pc = "quoting"
    /\ pending' = pending \ {entry.cand}
    /\ entry' = EntryIdle
    /\ UNCHANGED <<account, rows, orders, active, costs, up, memVars, exit, lostAcks>>

(* The transaction of commit_paper_entry. *)
InsertEntry(c) ==
    /\ OrderId(c, "entry") \notin orders
    /\ CommitAllows(c)
    /\ orders' = orders \cup {OrderId(c, "entry")}
    /\ rows' = [rows EXCEPT ![c] =
           [status |-> "OPEN", parts |-> Parts, unrealized |-> 0, taken |-> {}]]
    /\ account' = [account EXCEPT !.cash = @ - EntryCost, !.locked = @ + EntryCost]
    /\ UNCHANGED <<active, costs>>

CommitEntry ==
    /\ entry.pc = "quoting"
    /\ InsertEntry(entry.cand)
    /\ entry' = [entry EXCEPT !.pc = "committed"]
    /\ UNCHANGED <<pending, up, memVars, exit, lostAcks>>

(* The transaction commits but the connection breaks: broker.open raises. *)
CommitEntryLost ==
    /\ entry.pc = "quoting" /\ lostAcks < MaxLostAcks
    /\ InsertEntry(entry.cand)
    /\ pending' = pending \ {entry.cand}
    /\ entry' = EntryIdle
    /\ lostAcks' = lostAcks + 1
    /\ UNCHANGED <<up, memVars, exit>>

(* Mutant: the ledger books the entry before it is committed *)
LedgerOpenEarly ==
    /\ entry.pc \in {"quoting", "committed"}
    /\ book' = [book EXCEPT ![entry.cand] =
           [open |-> TRUE, parts |-> Parts, mark |-> 0, taken |-> {}]]
    /\ filled' = filled \cup {OrderId(entry.cand, "entry")}
    /\ ledger' = [ledger EXCEPT !.locked = @ + EntryCost]
    /\ pending' = pending \ {entry.cand}
    /\ entry' = EntryIdle
    /\ UNCHANGED <<account, rows, orders, active, costs, up, exit, lostAcks>>

(* ledger.open_position, then the candidate is stored as POSITION_OPEN. *)
LedgerOpen ==
    /\ entry.pc = "committed"
    /\ book' = [book EXCEPT ![entry.cand] =
           [open |-> TRUE, parts |-> Parts, mark |-> 0, taken |-> {}]]
    /\ filled' = filled \cup {OrderId(entry.cand, "entry")}
    /\ ledger' = [ledger EXCEPT !.locked = @ + EntryCost]
    /\ pending' = pending \ {entry.cand}
    /\ entry' = EntryIdle
    /\ UNCHANGED <<account, rows, orders, active, costs, up, exit, lostAcks>>

-----------------------------------------------------------------------------
(* The exit loop: evaluate_and_close_exits. *)

BeginPass ==
    /\ up /\ exit.pc = "idle" /\ OpenBook # {}
    /\ exit' = [exit EXCEPT !.pc = "quoting", !.held = OpenBook, !.todo = OpenBook]
    /\ UNCHANGED <<dbVars, up, memVars, entry, lostAcks>>

(* The mark quote failed for exit_retry_timeout_seconds: close the whole    *)
(* position as UNRECOVERABLE, still inside the quote phase.                 *)
GiveUp(c) ==
    /\ exit.pc = "quoting" /\ c \in exit.todo
    /\ exit' = [exit EXCEPT !.pc = "selling", !.cand = c, !.reason = "UNRECOVERABLE",
                            !.amount = book[c].parts, !.back = "quoting",
                            !.todo = @ \ {c}]
    /\ UNCHANGED <<dbVars, up, memVars, entry, lostAcks>>

(* A position's mark quote arrives, or fails within the retry window.  gain *)
(* adds up what mark_to_market will compute from the quotes.                *)
Quote(c, price) ==
    /\ exit.pc = "quoting" /\ c \in exit.todo
    /\ exit' = [exit EXCEPT !.todo = @ \ {c}, !.quotes[c] = price,
                            !.gain = @ + book[c].parts * (price - UnitCost)]
    /\ UNCHANGED <<dbVars, up, memVars, entry, lostAcks>>

QuoteFails(c) ==
    /\ exit.pc = "quoting" /\ c \in exit.todo
    /\ exit' = [exit EXCEPT !.todo = @ \ {c}]
    /\ UNCHANGED <<dbVars, up, memVars, entry, lostAcks>>

Quoted == {c \in Candidates : exit.quotes[c] > 0}

(* mark_to_market *)
MarkedBook ==
    [c \in Candidates |->
        IF c \in Quoted THEN [book[c] EXCEPT !.mark = exit.quotes[c]] ELSE book[c]]

MarkedLedger ==
    [ledger EXCEPT !.unrealized = exit.gain,
                   !.equity = @ - ledger.unrealized + exit.gain]

(* Every position has a quote: mark the ledger, and capture the open        *)
(* positions and the snapshot that update_paper_marks will write once it    *)
(* has the account row's lock.                                              *)
MarkLedger ==
    /\ exit.pc = "quoting" /\ exit.todo = {} /\ Quoted = exit.held
    /\ ledger' = MarkedLedger
    /\ book' = MarkedBook
    /\ exit' = [exit EXCEPT !.pc = "marking", !.snap = MarkedLedger, !.gain = 0,
                            !.held = OpenBook, !.todo = Quoted]
    /\ UNCHANGED <<dbVars, up, filled, entry, lostAcks>>

(* Some quote failed: no mark, and only the quoted positions are judged. *)
SkipMarks ==
    /\ exit.pc = "quoting" /\ exit.todo = {} /\ Quoted # exit.held
    /\ exit' = [exit EXCEPT !.pc = "deciding", !.gain = 0, !.quotes = NoQuotes,
                            !.todo = Quoted]
    /\ UNCHANGED <<dbVars, up, memVars, entry, lostAcks>>

(* Mutant: the marks also restate the cash balance from the snapshot *)
MarkedAccountCash ==
    [account EXCEPT !.equity = exit.snap.equity,
                    !.unrealized = exit.snap.unrealized,
                    !.locked = exit.snap.locked,
                    !.cash = exit.snap.equity - exit.snap.unrealized - exit.snap.locked]

(* update_paper_marks: the snapshot replaces the account's figures (cash    *)
(* and realized PnL are left alone) and every listed row is re-marked.      *)
MarkedAccount ==
    [account EXCEPT !.equity = exit.snap.equity,
                    !.unrealized = exit.snap.unrealized,
                    !.locked = exit.snap.locked]

(* A position opened since the pass began has no executable value: it       *)
(* counts as 0.                                                             *)
MarkedValue(c) == book[c].parts * exit.quotes[c] - book[c].parts * UnitCost

(* Mutant: the marks write the ledger's status of a position to its row *)
UpdateMarksStatus ==
    /\ exit.pc = "marking"
    /\ account' = MarkedAccount
    /\ rows' = [c \in Candidates |->
           IF c \in exit.held
           THEN [rows[c] EXCEPT !.unrealized = MarkedValue(c), !.taken = book[c].taken,
                                !.status = IF book[c].open THEN "OPEN" ELSE "CLOSED"]
           ELSE rows[c]]
    /\ exit' = [exit EXCEPT !.pc = "deciding", !.snap = EmptyLedger, !.quotes = NoQuotes]
    /\ UNCHANGED <<orders, pending, active, costs, up, memVars, entry, lostAcks>>

UpdateMarks ==
    /\ exit.pc = "marking"
    /\ account' = MarkedAccount
    /\ rows' = [c \in Candidates |->
           IF c \in exit.held
           THEN [rows[c] EXCEPT !.unrealized = MarkedValue(c), !.taken = book[c].taken]
           ELSE rows[c]]
    /\ exit' = [exit EXCEPT !.pc = "deciding", !.snap = EmptyLedger, !.quotes = NoQuotes]
    /\ UNCHANGED <<orders, pending, active, costs, up, memVars, entry, lostAcks>>

(* evaluate_exit: which reasons a position may be closed for. *)
MayExit(c, r) ==
    \/ r \in FullReasons
    \/ r = "TP1" /\ "TP1" \notin book[c].taken
    \/ r = "TP2" /\ "TP1" \in book[c].taken /\ "TP2" \notin book[c].taken

CloseParts(c, r) ==
    CASE r = "TP1" -> book[c].parts \div 2
      [] r = "TP2" -> IF TP2Parts < book[c].parts THEN TP2Parts ELSE book[c].parts
      [] OTHER -> book[c].parts

(* evaluate_exit says hold, or the ledger already has a fill of this order  *)
(* and broker.close returns it.                                             *)
KeepPosition(c) ==
    /\ exit.pc = "deciding" /\ c \in exit.todo
    /\ exit' = [exit EXCEPT !.todo = @ \ {c}]
    /\ UNCHANGED <<dbVars, up, memVars, entry, lostAcks>>

DecideExit(c, r) ==
    /\ exit.pc = "deciding" /\ c \in exit.todo
    /\ MayExit(c, r) /\ OrderId(c, r) \notin filled
    /\ exit' = [exit EXCEPT !.pc = "selling", !.cand = c, !.reason = r,
                            !.amount = CloseParts(c, r), !.back = "deciding",
                            !.todo = @ \ {c}]
    /\ UNCHANGED <<dbVars, up, memVars, entry, lostAcks>>

EndPass ==
    /\ exit.pc = "deciding" /\ exit.todo = {}
    /\ exit' = ExitIdle
    /\ UNCHANGED <<dbVars, up, memVars, entry, lostAcks>>

(* An exception leaves evaluate_and_close_exits; the next pass starts over. *)
PassFails ==
    /\ exit.pc \in {"marking", "selling"}
    /\ exit' = ExitIdle
    /\ UNCHANGED <<dbVars, up, memVars, entry, lostAcks>>

-----------------------------------------------------------------------------
(* broker.close, commit_paper_exit and close_position.  A price of 0 stands *)
(* for "no route after all the retries": quote is None.                     *)

TakenAfter(taken, r, price) ==
    IF price > 0 /\ r \in {"TP1", "TP2"} THEN taken \cup {r} ELSE taken

RowStatus(left, price) ==
    IF price = 0 THEN "UNRECOVERABLE" ELSE IF left = 0 THEN "CLOSED" ELSE "PARTIAL"

(* The row commit_paper_exit finds by mint, and what it becomes. *)
SoldRow(p, n, price) ==
    [status |-> RowStatus(rows[p].parts - n, price),
     parts |-> rows[p].parts - n,
     unrealized |-> rows[p].unrealized - (rows[p].unrealized * n) \div rows[p].parts,
     taken |-> TakenAfter(rows[p].taken, exit.reason, price)]

(* Mutant: equity keeps the unrealized PnL of the closed fraction *)
SoldAccountDoubleCounts(p, n, price) ==
    LET realized == n * price - n * UnitCost
        closed == (rows[p].unrealized * n) \div rows[p].parts IN
    [account EXCEPT !.cash = @ + n * price,
                    !.locked = @ - n * UnitCost,
                    !.realized = @ + realized,
                    !.unrealized = @ - closed,
                    !.equity = @ + realized]

SoldAccount(p, n, price) ==
    LET realized == n * price - n * UnitCost
        closed == (rows[p].unrealized * n) \div rows[p].parts IN
    [account EXCEPT !.cash = @ + n * price,
                    !.locked = @ - n * UnitCost,
                    !.realized = @ + realized,
                    !.unrealized = @ - closed,
                    !.equity = @ + realized - closed]

(* Mutant: the amount is not compared with what the row still holds *)
InsertExitUnchecked(price) ==
    LET id == OrderId(exit.cand, exit.reason) IN
    /\ id \notin orders
    /\ orders' = orders \cup {id}
    /\ \E p \in OpenRows :
           /\ MintOf[p] = MintOf[exit.cand]
           /\ exit.amount > 0
           /\ rows' = [rows EXCEPT ![p] = SoldRow(p, exit.amount, price)]
           /\ account' = SoldAccount(p, exit.amount, price)
    /\ UNCHANGED <<pending, active, costs>>

InsertExit(price) ==
    LET id == OrderId(exit.cand, exit.reason) IN
    /\ id \notin orders
    /\ orders' = orders \cup {id}
    /\ \E p \in OpenRows :
           /\ MintOf[p] = MintOf[exit.cand]
           /\ exit.amount > 0 /\ exit.amount <= rows[p].parts
           /\ rows' = [rows EXCEPT ![p] = SoldRow(p, exit.amount, price)]
           /\ account' = SoldAccount(p, exit.amount, price)
    /\ UNCHANGED <<pending, active, costs>>

CommitExit(price) ==
    /\ exit.pc = "selling"
    /\ InsertExit(price)
    /\ exit' = [exit EXCEPT !.pc = "sold", !.price = price]
    /\ UNCHANGED <<up, memVars, entry, lostAcks>>

(* The order is already committed: its fill is returned, and the ledger     *)
(* will book the price of the new quote.                                    *)
CommitExitAgain(price) ==
    /\ exit.pc = "selling" /\ OrderId(exit.cand, exit.reason) \in orders
    /\ exit' = [exit EXCEPT !.pc = "sold", !.price = price]
    /\ UNCHANGED <<dbVars, up, memVars, entry, lostAcks>>

(* The commit succeeds, its acknowledgement is lost: the pass ends. *)
CommitExitLost(price) ==
    /\ exit.pc = "selling" /\ lostAcks < MaxLostAcks
    /\ InsertExit(price)
    /\ exit' = ExitIdle
    /\ lostAcks' = lostAcks + 1
    /\ UNCHANGED <<up, memVars, entry>>

(* What close_position books. *)
BookRealized == exit.amount * (exit.price - UnitCost)

BookClosed(c) ==
    IF book[c].mark > 0 THEN exit.amount * (book[c].mark - UnitCost) ELSE 0

BookLedger(c) ==
    [ledger EXCEPT !.realized = @ + BookRealized,
                   !.unrealized = @ - BookClosed(c),
                   !.locked = @ - exit.amount * UnitCost,
                   !.equity = @ + BookRealized - BookClosed(c)]

LedgerClose ==
    /\ exit.pc = "sold"
    /\ LET c == exit.cand
           left == book[c].parts - exit.amount IN
       /\ ledger' = BookLedger(c)
       /\ book' = [book EXCEPT ![c] =
              [open |-> left > 0, parts |-> left, mark |-> book[c].mark,
               taken |-> TakenAfter(book[c].taken, exit.reason, exit.price)]]
       /\ filled' = filled \cup {OrderId(c, exit.reason)}
    /\ exit' = [exit EXCEPT !.pc = exit.back, !.cand = "none", !.reason = "none",
                            !.amount = 0, !.price = 0, !.back = "idle"]
    /\ UNCHANGED <<dbVars, up, entry, lostAcks>>

-----------------------------------------------------------------------------
(* The process. *)

StopProcess ==
    /\ up /\ up' = FALSE
    /\ ledger' = EmptyLedger
    /\ book' = [c \in Candidates |-> NoPosition]
    /\ filled' = {}
    /\ entry' = EntryIdle
    /\ exit' = ExitIdle
    /\ UNCHANGED <<account, rows, orders, pending, costs, lostAcks>>

(* The process dies: its system_runs row stays active. *)
Crash == StopProcess /\ UNCHANGED active

(* shutdown(): the tasks are cancelled at their await, the run is stopped.  *)
Shutdown == StopProcess /\ active' = FALSE

(* Mutant: a PARTIAL row is restored as a closed position *)
RestoredBookOpenOnly ==
    [c \in Candidates |->
        [open |-> rows[c].status = "OPEN", parts |-> rows[c].parts,
         mark |-> IF rows[c].status = "OPEN" THEN UnitCost ELSE 0,
         taken |-> rows[c].taken]]

(* start(): restore_from_database.  load_paper_ledger supplies no           *)
(* unrealized_pnl for a position, so its last value is its cost.            *)
RestoredBook ==
    [c \in Candidates |->
        [open |-> rows[c].status \in Live, parts |-> rows[c].parts,
         mark |-> IF rows[c].status \in Live THEN UnitCost ELSE 0,
         taken |-> rows[c].taken]]

RestoredLedger ==
    [equity |-> account.equity, realized |-> account.realized,
     unrealized |-> account.unrealized, locked |-> account.locked]

Restart ==
    /\ ~up /\ up' = TRUE
    /\ active' = TRUE
    /\ ledger' = RestoredLedger
    /\ book' = RestoredBook
    /\ filled' = orders
    /\ UNCHANGED <<account, rows, orders, pending, costs, entry, exit, lostAcks>>

(* record_operational_cost refuses while a run is active. *)
RecordOperationalCost ==
    /\ ~active /\ costs < MaxCosts
    /\ costs' = costs + 1
    /\ account' = [account EXCEPT !.cash = @ - CostAmount, !.equity = @ - CostAmount]
    /\ UNCHANGED <<rows, orders, pending, active, up, memVars, entry, exit, lostAcks>>

-----------------------------------------------------------------------------
EntryNext ==
    \/ \E c \in Candidates : BeginEntry(c) \/ EntrySettled(c)
    \/ EntryFails
    \/ CommitEntry
    \/ CommitEntryLost
    \/ LedgerOpen

ExitNext ==
    \/ BeginPass
    \/ \E c \in Candidates : GiveUp(c) \/ QuoteFails(c) \/ KeepPosition(c)
    \/ \E c \in Candidates, price \in Prices : Quote(c, price)
    \/ MarkLedger
    \/ SkipMarks
    \/ UpdateMarks
    \/ \E c \in Candidates, r \in Reasons : DecideExit(c, r)
    \/ EndPass
    \/ PassFails
    \/ \E price \in Prices \cup {0} :
           CommitExit(price) \/ CommitExitAgain(price) \/ CommitExitLost(price)
    \/ LedgerClose

ProcessNext == Crash \/ Shutdown \/ Restart \/ RecordOperationalCost

Next == EntryNext \/ ExitNext \/ ProcessNext

Spec == Init /\ [][Next]_vars
-----------------------------------------------------------------------------
PositionType == [open : BOOLEAN, parts : Nat, mark : Nat, taken : SUBSET {"TP1", "TP2"}]
RowType ==
    [status : {"NONE", "OPEN", "PARTIAL", "CLOSED", "UNRECOVERABLE"}, parts : Nat,
     unrealized : Int, taken : SUBSET {"TP1", "TP2"}]
LedgerType == [equity : Int, realized : Int, unrealized : Int, locked : Int]
ExitType ==
    [pc : {"idle", "quoting", "marking", "deciding", "selling", "sold"},
     held : SUBSET Candidates, todo : SUBSET Candidates,
     quotes : [Candidates -> Nat], gain : Int, snap : LedgerType, cand : Candidates \cup {"none"},
     reason : Reasons \cup {"none"}, amount : Nat, price : Nat,
     back : {"idle", "quoting", "deciding"}]

(* The type of every variable. *)
TypeOK ==
    /\ account \in [cash : Int, locked : Int, realized : Int, unrealized : Int, equity : Int]
    /\ rows \in [Candidates -> RowType]
    /\ orders \subseteq Candidates \X (Reasons \cup {"entry"})
    /\ pending \subseteq Candidates
    /\ active \in BOOLEAN /\ up \in BOOLEAN
    /\ costs \in Nat /\ lostAcks \in Nat
    /\ ledger \in LedgerType
    /\ book \in [Candidates -> PositionType]
    /\ filled \subseteq Candidates \X (Reasons \cup {"entry"})
    /\ entry \in [pc : {"idle", "quoting", "committed"}, cand : Candidates \cup {"none"}]
    /\ exit \in ExitType

(* The cost that is still in each position row. *)
RowCosts == [c \in Candidates |-> rows[c].parts * UnitCost]

(* No money appears or vanishes in PostgreSQL: cash plus the cost still in  *)
(* position rows is the start plus realized PnL less operational costs,     *)
(* across marks, crashes, lost acknowledgements and unrecoverable exits.    *)
CashConserved ==
    account.cash + SumFunctionOnSet(RowCosts, Candidates)
        = Start + account.realized - costs * CostAmount

(* The duplicate check of commit_paper_entry holds even when the ledger the *)
(* entry was approved against lags behind: one live position per mint.      *)
OneLivePerMint ==
    \A c, d \in OpenRows : MintOf[c] = MintOf[d] => c = d

(* The database is written first: the ledger never shows a fill, or an open *)
(* position, that is not committed.                                         *)
FillsAreCommitted ==
    /\ filled \subseteq orders
    /\ \A c \in OpenBook : OrderId(c, "entry") \in orders

(* While no acknowledgement is lost, equity is start plus realized plus     *)
(* unrealized PnL less costs, in PostgreSQL and in the ledger: the          *)
(* snapshot written by update_paper_marks never undoes a fill.              *)
EquityIdentity ==
    lostAcks = 0 =>
        /\ account.equity + costs * CostAmount
               = Start + account.realized + account.unrealized
        /\ up => ledger.equity + costs * CostAmount
                     = Start + ledger.realized + ledger.unrealized

(* Between a commit and its booking the two differ; otherwise, while no     *)
(* acknowledgement is lost, ledger and rows agree on every position that    *)
(* has not become UNRECOVERABLE, and on realized PnL.                       *)
MirrorAgrees ==
    up /\ lostAcks = 0 /\ entry.pc # "committed" /\ exit.pc # "sold" =>
        /\ ledger.realized = account.realized
        /\ \A c \in Candidates : rows[c].status # "UNRECOVERABLE" =>
               /\ book[c].open <=> rows[c].status \in Live
               /\ book[c].parts = rows[c].parts
               /\ exit.pc # "marking" => book[c].taken = rows[c].taken

(* A closed or unrecoverable row is never sold again and never reopens, and *)
(* no row ever grows.                                                       *)
ClosedRowsAreFinal ==
    [][\A c \in Candidates :
          /\ rows[c].status \in {"CLOSED", "UNRECOVERABLE"}
                 => rows'[c].status = rows[c].status /\ rows'[c].parts = rows[c].parts
          /\ rows[c].status # "NONE" => rows'[c].parts <= rows[c].parts]_vars

-----------------------------------------------------------------------------
(* What documents and scripts of the repository say, and the code does not  *)
(* always do.                                                               *)

(* docs/RISK_MANAGEMENT.md: an exit without a route "closes the remaining   *)
(* paper position as UNRECOVERABLE".                                        *)
UnrecoverableIsClosed ==
    \A c \in Candidates : rows[c].status = "UNRECOVERABLE" => rows[c].parts = 0

(* scripts/verify_data.py: no account has negative locked capital. *)
LockedNeverNegative == account.locked >= 0

(* docs/ARCHITECTURE.md: open positions continue to be monitored when new   *)
(* entries are blocked: the exit loop knows every live row.                 *)
OpenPositionsMonitored ==
    up /\ entry.pc = "idle" => \A c \in OpenRows : book[c].open
=============================================================================
