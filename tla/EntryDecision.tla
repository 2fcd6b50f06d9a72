---------------------------- MODULE EntryDecision ----------------------------
(***************************************************************************)
(* One candidate is judged: _build_security_context takes a snapshot, waits *)
(* for the RPC and the quotes, stores the token, and gathers what the      *)
(* security engine, the score, the entry rules and the position size read. *)
(* Events are processed during the waits, and a store may fail.            *)
(*                                                                         *)
(* Ratios and limits are in thousandths, the score in hundredths, account   *)
(* money in thousandths of a dollar and positions in cents; the money of    *)
(* the market is in thousands of dollars.                                  *)
(***************************************************************************)
EXTENDS MarketAnalysis

CONSTANTS
    Cfg,            \* the limits of AppConfig
    EvalTimes,      \* the times of the passes that evaluate the candidate
    Answers(_),     \* by history, what the RPC, the quotes and the account may say;
                    \* no pass runs in a history without answers
    Minted,         \* supplies the token has, one after the other
    Lag,            \* bound: events on their way when a pass begins
    Instants        \* times at which features are compared

(* Sizes of an account; the round trip never gains (round_trip_loss_pct >= 0). *)
ASSUME DecisionAssumption ==
    /\ {Cfg.dailyLimit, Cfg.hardStop, Cfg.maxPosition} \subseteq Nat
    /\ \A f \in Feeds : \A in \in Answers(f) :
          in.equity \in Nat /\ in.loss \in Nat /\ in.pnl \in Int
    /\ Instants \subseteq Int

VARIABLES
    minted,     \* the supply last read from the chain: an index of Minted
    eval,       \* the evaluation in progress
    verdict,    \* the outcome of the last evaluation
    evals,      \* passes that have begun
    recorded,   \* history: supplies the token record had
    forgotten   \* history: a recorded supply was lost or replaced without a judgement

decision == <<minted, eval, verdict, evals, recorded, forgotten>>
vars == <<market, decision>>

AtMost(r, k) == r[1] * 1000 <= k * r[2]
AtLeast(r, k) == r[1] * 1000 >= k * r[2]

-----------------------------------------------------------------------------
(* aggregate_holders *)

Share(x, supply) == <<x, supply>>

AggregateHolders(accounts, supply, dev, devCluster, related) ==
    LET mine == {a \in accounts : ~a.system}
        owners == {a.owner : a \in mine} \ {NoWallet}
        SumOf(S) == MapThenSumSet(LAMBDA a : a.amount, S)
        balance == [o \in owners |-> SumOf({a \in mine : a.owner = o})]
        Held(ws) == Share(MapThenSumSet(LAMBDA o : balance[o], ws \cap owners), supply)
    IN  [largest |-> Share(LargestSum(balance, 1), supply),
         top5 |-> Share(LargestSum(balance, 5), supply),
         top10 |-> Share(LargestSum(balance, 10), supply),
         dev |-> Held({dev}), devCluster |-> Held(devCluster), related |-> Held(related),
         unknown |-> Share(SumOf({a \in mine : a.owner = NoWallet}), supply)]

-----------------------------------------------------------------------------
(* SecurityEngine.evaluate, with now the time of the pass: what was         *)
(* observed after it has age 0.  A context always has both routes, the      *)
(* holders and a supported quote mint, and a supply of 0 raises before.     *)

Age(now, t) == Floor0(now - t)
Names(tests) == {n \in DOMAIN tests : tests[n]}

(* The context c: the answers in, the first snapshot, the holders, and      *)
(* whether the supply changed and the developer sold.                       *)
RejectReasons(c, now) ==
    LET h == c.holders
        s == c.snap
    IN  Names([TOKEN_2022 |-> c.in.program = "token2022",
               INVALID_TOKEN_PROGRAM |-> c.in.program = "unknown",
               MINT_AUTHORITY_ACTIVE |-> c.in.mintAuthority,
               FREEZE_AUTHORITY_ACTIVE |-> c.in.freezeAuthority,
               SUPPLY_CHANGED |-> c.changed,
               INVALID_DECIMALS |-> c.in.decimals < 0 \/ c.in.decimals > 18,
               LOW_QUOTE_LIQUIDITY |-> s.liquidity < Cfg.minLiquidity,
               ROUND_TRIP_TOO_EXPENSIVE |-> c.in.loss > Cfg.maxLoss,
               HIGH_BUY_PRICE_IMPACT |-> c.in.buyImpact > Cfg.maxBuyImpact,
               HIGH_SELL_PRICE_IMPACT |-> c.in.sellImpact > Cfg.maxSellImpact,
               INSUFFICIENT_EXTERNAL_SELLERS |-> s.externalSellers < Cfg.minSellers,
               HOLDER_DATA_STALE |-> Age(now, c.in.mintAt) > 15,
               HIGH_HOLDER_CONCENTRATION |->
                   \/ ~AtMost(h.largest, Cfg.maxLargest) \/ ~AtMost(h.top5, Cfg.maxTop5)
                   \/ ~AtMost(h.top10, Cfg.maxTop10),
               DEV_HOLDING_TOO_LARGE |-> ~AtMost(h.dev, Cfg.maxDev),
               DEV_CLUSTER_TOO_LARGE |-> ~AtMost(h.devCluster, Cfg.maxDevCluster),
               RELATED_CLUSTER_TOO_LARGE |-> ~AtMost(h.related, Cfg.maxRelated),
               UNKNOWN_OWNER_SUPPLY |-> ~AtMost(h.unknown, Cfg.maxUnknown),
               DEV_SOLD |-> c.devSold,
               POOL_TOO_NEW |-> s.age < Cfg.minAge,
               POOL_TOO_OLD |-> s.age > Cfg.maxAge,
               LIQUIDITY_DECLINING |-> ~AtLeast(s.liquidityChange, -Cfg.maxDrop),
               STALE_DATA |-> Age(now, c.in.streamAt) > Cfg.maxStreamAge,
               STALE_QUOTE |-> Age(now, c.in.quoteAt) > Cfg.maxQuoteAge,
               UNKNOWN_PROTOCOL_LAYOUT |-> ~c.in.layout,
               API_UNAVAILABLE |-> ~c.in.database,
               PREVIOUS_RUGS |-> c.in.rugs >= 2,
               WASH_TRADING_PATTERN |->
                   \/ ~AtMost(s.sameFunder, Cfg.maxSameFunder)
                   \/ ~AtMost(s.hhi, 150) /\ ~AtMost(s.perTrader, Cfg.maxPerTrader),
               OVEREXTENDED_PRICE |-> ~AtMost(s.sinceCreation, Cfg.maxReturn)])

-----------------------------------------------------------------------------
(* ScoringEngine.score *)

(* _linear and _inverse: max points above high, none below low, and in      *)
(* between the share of the way, rounded down to a hundredth.               *)
Rising(r, low, high, max) ==
    CASE AtMost(r, low) -> 0
      [] AtLeast(r, high) -> max * 100
      [] OTHER -> ((r[1] * 1000 - low * r[2]) * max * 100) \div ((high - low) * r[2])
Falling(r, good, bad, max) ==
    CASE AtMost(r, good) -> max * 100
      [] AtLeast(r, bad) -> 0
      [] OTHER -> ((bad * r[2] - r[1] * 1000) * max * 100) \div ((bad - good) * r[2])

(* _developer_score *)
DeveloperScore(in) ==
    CASE ~in.known -> 500
      [] in.known /\ in.rugs >= 2 -> 0
      [] OTHER -> Max({0, 500 + 100 * Min({in.successes, 3}) - 100 * Min({2 * in.dumps, 4})
                            - IF in.week >= 10 THEN 300 ELSE 0})

Organic(s) ==
    Rising(<<s.uniqueBuyers, 1>>, 5000, 25000, 8) + Rising(s.acceleration, 800, 1500, 6)
    + Rising(s.uniqueRatio, 200, 750, 4) + Rising(s.buySell, 1000, 3000, 4)
    + Falling(s.perTrader, 2000, 6000, 3)
Distribution(s) ==
    Falling(s.top10, 150, 300, 6) + Falling(s.related, 50, 150, 6)
    + Falling(s.devCluster, 20, 50, 4) + Falling(s.top5, 350, 700, 4)
Execution(in) ==
    Falling(<<in.loss, 1000>>, 30, 80, 8)
    + Falling(<<Max({in.buyImpact, in.sellImpact}), 1000>>, 10, 35, 6) + 600
LiquidityScore(s) ==
    Rising(<<s.liquidity, 1>>, 40000, 100000, 5) + Rising(s.liquidityChange, -30, 0, 6)
    + Falling(s.capRatio, 5000, 15000, 4)
PriceStructure(s) ==
    (IF AtLeast(s.drawdown, 100) /\ AtMost(s.drawdown, 250) THEN 400 ELSE 0)
    + (IF s.price * s.vwap[2] > s.vwap[1] THEN 400 ELSE 0)
    + (IF AtMost(s.sinceCreation, 2500) THEN 200 ELSE 0)

Score(s, in) ==
    Organic(s) + Distribution(s) + Execution(in) + LiquidityScore(s)
    + DeveloperScore(in) + PriceStructure(s)

-----------------------------------------------------------------------------
(* _entry_rules *)

(* The limits that the security engine checks as well *)
SharedRules(s, c) ==
    /\ Cfg.minAge <= s.age /\ s.age <= Cfg.maxAge
    /\ c.snap.liquidity >= Cfg.minLiquidity
    /\ AtLeast(s.liquidityChange, -Cfg.maxDrop)
    /\ AtMost(s.sinceCreation, Cfg.maxReturn)
    /\ ~c.devSold
    /\ c.in.buyImpact <= Cfg.maxBuyImpact /\ c.in.sellImpact <= Cfg.maxSellImpact
    /\ c.in.loss <= Cfg.maxLoss
    /\ AtMost(c.holders.largest, Cfg.maxLargest) /\ AtMost(c.holders.top5, Cfg.maxTop5)
    /\ AtMost(c.holders.top10, Cfg.maxTop10) /\ AtMost(c.holders.dev, Cfg.maxDev)
    /\ AtMost(c.holders.devCluster, Cfg.maxDevCluster)
    /\ AtMost(c.holders.related, Cfg.maxRelated)
    /\ c.snap.externalSellers >= Cfg.minSellers

(* The limits on the flow of the last minute *)
FlowRules(s, score) ==
    /\ score >= Cfg.scoreEntry
    /\ AtMost(s.capRatio, Cfg.maxCapRatio)
    /\ s.uniqueBuyers >= Cfg.minBuyers
    /\ AtLeast(s.acceleration, Cfg.minAcceleration)
    /\ AtLeast(s.uniqueRatio, Cfg.minUniqueRatio)
    /\ AtMost(s.perTrader, Cfg.maxPerTrader)
    /\ AtMost(s.top5, Cfg.maxTop5Buyers) /\ AtMost(s.sameFunder, Cfg.maxSameFunder)
    /\ AtLeast(s.buySell, Cfg.minBuySell) /\ AtMost(s.buySell, Cfg.maxBuySell)
    /\ AtLeast(s.drawdown, Cfg.minPullback) /\ AtMost(s.drawdown, Cfg.maxPullback)

-----------------------------------------------------------------------------
(* calculate_position_size, in cents; rounding down commutes with minimum. *)

Multiplier(score) ==
    CASE score >= 9200 -> 100
      [] score >= 8500 /\ score < 9200 -> 90
      [] score >= 8000 /\ score < 8500 -> 75
      [] OTHER -> 0

(* Mutant: the losses of the day do not reduce the budget *)
BudgetOfEquity(in) == (in.equity * 5) \div 1000

Remaining(in) == Floor0(Cfg.dailyLimit + Min({in.pnl, 0}))
RiskBudget(in) == Min({(in.equity * 5) \div 1000, Remaining(in)})
EffectiveLoss(in) == Cfg.hardStop + in.loss + 10

Size(c, score) ==
    LET m == Multiplier(score)
    IN  IF RiskBudget(c.in) = 0 THEN 0
        ELSE Min({(RiskBudget(c.in) * m) \div EffectiveLoss(c.in),
                  (c.in.equity * m) \div 25000,
                  (c.snap.liquidity * 5 * m) \div 2,
                  Cfg.maxPosition * m})

-----------------------------------------------------------------------------
(* The evaluation *)

Idle == [pc |-> "idle", at |-> 0, snap |-> Snapshot(NoFeatures, 0), token |-> NoToken, supply |-> 0,
         seen |-> {}]
Pending == [out |-> "none"]
TokenRecord(m) == IF Token \in DOMAIN m.tokens THEN m.tokens[Token] ELSE NoToken

Init ==
    /\ MarketInit
    /\ minted = 1 /\ eval = Idle /\ verdict = Pending /\ evals = 0
    /\ recorded = {} /\ forgotten = FALSE

Running == verdict.out \notin {"entered", "rejected"}
Supplies(m) == {TokenRecord(m).supply} \ {None}

(* An event of the feed *)
Process(e) ==
    /\ Running /\ ProcessEvent(e)
    /\ recorded' = recorded \cup Supplies(mem')
    /\ forgotten' = (forgotten \/ ~(Supplies(mem) \subseteq Supplies(mem')))
    /\ UNCHANGED <<minted, eval, verdict, evals>>

RefreshPrice == Running /\ RefreshQuotePrice /\ UNCHANGED decision

(* A restart drops the evaluation; the supply it recorded is read again     *)
(* only from the creation of the token.                                     *)
Restart(recent) ==
    /\ Running /\ RestartMarket(recent)
    /\ eval' = Idle
    /\ recorded' = recorded \cup Supplies(mem')
    /\ forgotten' = (forgotten \/ ~(recorded \subseteq Supplies(mem')))
    /\ UNCHANGED <<minted, verdict, evals>>

(* evaluate_candidates takes the first snapshot; _build_security_context    *)
(* reads the token before it waits.                                         *)
BeginEvaluation(at) ==
    /\ Running /\ eval.pc = "idle" /\ HasCandidate(mem.pool) /\ Answers(feed) # {}
    /\ \A e \in Range(processed) : e.time <= at
    /\ Cardinality({e \in feed : e.time <= at} \ Range(processed)) <= Lag
    /\ eval' = [Idle EXCEPT !.pc = "rpc", !.at = at, !.snap = Snapshot(mem.feats, at),
                            !.token = TokenRecord(mem), !.seen = recorded]
    /\ evals' = evals + 1
    /\ UNCHANGED <<market, minted, verdict, recorded, forgotten>>

(* apply_mint_state *)
ApplyMintState(m, supply) ==
    IF Token \notin DOMAIN m.tokens THEN m
    ELSE [m EXCEPT !.tokens[Token].supply = supply]

(* The mint, the holders and the quotes have arrived: apply_mint_state.  The *)
(* answers other than the supply are chosen when they are used.             *)
RpcAnswers ==
    /\ eval.pc = "rpc"
    /\ \E n \in minted..Len(Minted) :
       LET supply == Minted[n]
       IN  /\ minted' = n
           /\ eval' = [eval EXCEPT !.pc = "store", !.supply = supply]
           /\ mem' = ApplyMintState(mem, supply)
           /\ forgotten' = (forgotten \/ ~(Supplies(mem) \subseteq {eval.token.supply, supply}))
    /\ recorded' = recorded \cup Supplies(mem')
    /\ UNCHANGED <<feed, processed, usd, restarts, started, traded, unpriced, verdict, evals>>

(* Mutant: the record is read after apply_mint_state *)
ChangedSinceRead == Supplies(mem) # {} /\ Supplies(mem) # {eval.supply}

Changed == eval.token.supply # None /\ eval.token.supply # eval.supply

(* The providers fail, or upsert_token does; the pass ends with an error.   *)
EvaluationFails ==
    /\ eval.pc \in {"rpc", "store"}
    /\ eval' = Idle
    /\ forgotten' = (forgotten \/ (eval.pc = "store" /\ Changed))
    /\ UNCHANGED <<market, minted, verdict, evals, recorded>>

ApplyBaseSupply(p, supply) == [p EXCEPT !.supply = supply]

(* update_pool_supply: one observation for each supply. *)
UpdatePoolSupply(m, in) ==
    LET p == ApplyBaseSupply(m.pool, eval.supply)
        o == Liquidity(p, 1000 + eval.supply, in.mintAt)
    IN  [m EXCEPT !.pool = p,
                  !.feats.liquidity = IF \E x \in Range(@) : x.id = o.id THEN @
                                      ELSE InsertOrdered(@, o, "id")]

(* Mutant: only trades of the first snapshot's window *)
DevSoldOutside(m) ==
    \E o \in Range(Window(m.feats.trades, eval.at, 15)) :
        o.wallet = eval.token.creator /\ o.wallet # NoWallet /\ o.side = "SELL"

(* The developer is the one of the token record read before the waits. *)
DevSold(m) ==
    \E o \in Range(Upto(m.feats.trades, eval.at)) :
        o.wallet = eval.token.creator /\ o.wallet # NoWallet /\ o.side = "SELL"

HoldersOf(m, in) ==
    LET owners == {a.owner : a \in in.accounts} \ {NoWallet}
        devCluster == ClusterFor(eval.token.creator, owners, m.relations)
        related == LargestRelatedCluster(owners, devCluster, m.relations)
    IN  AggregateHolders(in.accounts, eval.supply, eval.token.creator, devCluster, related)

IngestHolders(m, h) ==
    LET o == [id |-> 2000 + eval.at, time |-> eval.at, top10 |-> h.top10,
              devCluster |-> h.devCluster, related |-> h.related]
    IN  [m EXCEPT !.feats.holders = InsertOrdered(@, o, "id")]

Context(m, h, in) ==
    [in |-> in, snap |-> eval.snap, holders |-> h, changed |-> Changed,
     devSold |-> DevSold(m)]

(* The rest of _build_security_context, the security engine, the second     *)
(* snapshot, the score, and for a candidate in ENTRY_PENDING the entry      *)
(* rules and the size of _open_candidate.                                   *)
Judge(in) ==
    /\ eval.pc = "store"
    /\ \E h \in {HoldersOf(mem, in)} :
       \E m \in {IngestHolders(UpdatePoolSupply(mem, in), h)} :
       \E s \in {Snapshot(m.feats, eval.at)} :
       LET c == Context(m, h, in)
           score == Score(s, in)
           size == Size(c, score)
           hard == RejectReasons(c, eval.at) # {}
           enter == /\ SharedRules(s, c) /\ FlowRules(s, score)
                    /\ RiskBudget(in) > 0 /\ size >= Cfg.minPosition * 100
       IN  /\ mem' = m
           /\ verdict' = [out |-> IF hard THEN "rejected"
                                  ELSE IF ~in.pending THEN "kept"
                                  ELSE IF enter THEN "entered" ELSE "rejected",
                          at |-> eval.at, dev |-> eval.token.creator, in |-> in,
                          seen |-> eval.seen, supply |-> eval.supply,
                          score |-> score, size |-> size, liquidity |-> eval.snap.liquidity]
    /\ eval' = Idle
    /\ UNCHANGED <<feed, processed, usd, restarts, started, traded, unpriced, minted, evals, recorded,
                   forgotten>>

Next ==
    \/ \E e \in feed : Process(e)
    \/ RefreshPrice \/ RpcAnswers \/ EvaluationFails
    \/ \E recent \in BOOLEAN : Restart(recent)
    \/ evals < Len(EvalTimes) /\ BeginEvaluation(EvalTimes[evals + 1])
    \/ \E in \in Answers(feed) : Judge(in)

Spec == Init /\ [][Next]_vars

-----------------------------------------------------------------------------
(* Properties *)

Entered == verdict.out = "entered"

TypeOK ==
    /\ feed \in Feeds /\ Range(processed) \subseteq feed /\ usd \in {0, QuoteUsd}
    /\ mem.applied \subseteq Range(processed)
    /\ \A p \in DOMAIN mem.relations : mem.relations[p] \in (SUBSET DOMAIN Weight) \ {{}}
    /\ minted \in 1..Len(Minted) /\ eval.pc \in {"idle", "rpc", "store"}
    /\ verdict.out \in {"none", "kept", "entered", "rejected"}
    /\ verdict.out # "none" => verdict.score \in 0..10000

(* No entry is made in a token whose creator sold it before the time of the  *)
(* evaluation, when the creator was known as the evaluation began and the    *)
(* sale could be priced: a sale that arrives while the providers are awaited  *)
(* counts, and in a pool with exchanged sides it is the source's buy.        *)
DevSoldBlocksEntry ==
    (Entered /\ verdict.dev # NoWallet) =>
        \A e \in mem.applied :
            (e.kind \in Swaps /\ e.user = verdict.dev /\ e.time <= verdict.at
                /\ e.id \notin unpriced) =>
            LET received == IF e.kind = "SWAP_BUY" THEN ~mem.pool.rev ELSE mem.pool.rev
            IN  received

(* No entry is made once the supply of the token differs from one that was   *)
(* recorded before the evaluation began, by this process or an earlier one,  *)
(* in however many passes it was kept meanwhile, unless the pass that read the  *)
(* new supply replaced the record and then failed, or replaced one that it   *)
(* had not read, or a restart or a late TOKEN_CREATED lost the record.       *)
SupplyChangeBlocksEntry ==
    Entered => forgotten \/ verdict.seen \subseteq {verdict.supply}

(* A position that loses its stop, its costs and the buffer does not take    *)
(* the day below the daily loss limit, nor lose more than half a percent of  *)
(* the account; it is at most 4% of it, and 0.25% of the liquidity.          *)
LossFitsTheDay ==
    Entered =>
        LET in == verdict.in
            loss == verdict.size * EffectiveLoss(in)
        IN  /\ loss <= 100 * (Cfg.dailyLimit + in.pnl)
            /\ 200 * (loss \div 100) <= in.equity
            /\ 250 * verdict.size <= in.equity
            /\ verdict.size <= 250 * verdict.liquidity

(* The features of a time are those of the trades known, in event order,     *)
(* whatever the order of arrival: the buyers of the last minute and the last *)
(* price.                                                                    *)
SnapshotIsOrderFree ==
    \A at \in Instants :
        LET s == Snapshot(mem.feats, at)
            swaps == {e \in mem.applied : e.kind \in Swaps /\ e.id \notin unpriced /\ e.time <= at}
            Bought(e) == (e.kind = "SWAP_BUY") # mem.pool.rev
            last == CHOOSE e \in swaps : \A x \in swaps :
                        x.time < e.time \/ (x.time = e.time /\ x.id <= e.id)
        IN  /\ s.uniqueBuyers = Cardinality({e.user : e \in
                                   {x \in swaps : Bought(x) /\ x.time > at - 60}})
            /\ swaps # {} => s.price = (CHOOSE o \in Range(mem.feats.trades) :
                                           o.id = last.id).price

(* A restart rebuilds what the process knew of the trades of its candidate   *)
(* ("Rebuild bounded in-memory state from an already processed durable       *)
(* event").                                                                  *)
RehydrationKeepsTrades == traded \subseteq TradeIds(mem)
=============================================================================
