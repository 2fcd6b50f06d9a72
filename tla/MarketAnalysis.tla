--------------------------- MODULE MarketAnalysis ---------------------------
(***************************************************************************)
(* What the process derives from the events of one token and its pool:     *)
(* the token registry, the state of the pool, the event-time features and  *)
(* the wallet analysis.  Events arrive in any order, each once (the claims  *)
(* of EventPipeline); a restart forgets all of this and reads the          *)
(* processed events again.                                                 *)
(*                                                                         *)
(* Wallets are numbers, so that addresses have an order; amounts have no    *)
(* decimals.  Names, signatures, metadata and the fields that are only      *)
(* stored are left out.                                                    *)
(***************************************************************************)
EXTENDS Integers, FiniteSets, SequencesExt, FiniteSetsExt

CONSTANTS
    Feeds,          \* the histories of the chain: sets of events
    Token,          \* the mint of the pool
    Limit,          \* first buyers and top buyers kept (20)
    MaxAge,         \* max_pool_age_seconds
    QuoteUsd,       \* the SOL price the quote asset loop obtains
    MaxLate,        \* bound: events that arrive after a later one
    PriceDelay,     \* bound: events a process handles before it knows the SOL price
    MaxRestarts     \* bound: restarts of a behaviour

None == -1          \* a field the payload or the record does not have
NoWallet == 0
NoBundle == 0
Supported == {"wsol", "usdc"}   \* SUPPORTED_QUOTE_MINTS
PriceScale == 1000  \* prices are in thousandths

ASSUME AnalysisAssumption ==
    /\ Limit \in Nat \ {0} /\ MaxAge \in Nat /\ MaxLate \in Nat
    /\ PriceDelay \in Nat /\ MaxRestarts \in Nat
    /\ QuoteUsd \in Nat \ {0} /\ Token \notin Supported

(* A history is finite, an event has one id, and a pool one pair of mints. *)
ASSUME FeedsAssumption ==
    \A f \in Feeds :
        /\ IsFiniteSet(f)
        /\ \A e \in f : /\ {e.id, e.time, e.base, e.quote, e.virtual} \subseteq Int
                         /\ {e.user, e.baseAmt, e.quoteAmt} \subseteq Nat
        /\ \A e, d \in f : e.id = d.id => e = d
        /\ \A e, d \in f :
              e.kind = "POOL_CREATED" /\ d.kind = "POOL_CREATED" =>
                  e.baseMint = d.baseMint /\ e.quoteMint = d.quoteMint

VARIABLES
    feed,       \* the history of this behaviour
    processed,  \* events marked PROCESSED, in ingest_sequence order
    usd,        \* the SOL price, 0 before the first answer
    mem,        \* what the process derived from the events; see Blank
    restarts,   \* bound
    started,    \* bound: events processed before the last start
    traded,     \* history: swaps whose trade some process has observed
    unpriced    \* history: swaps whose trade the process could not price

market == <<feed, processed, usd, mem, restarts, started, traded, unpriced>>

Swaps == {"SWAP_BUY", "SWAP_SELL"}
Wallets == {e.user : e \in UNION Feeds} \ {NoWallet}

ASSUME WalletsAssumption == IsFiniteSet(Wallets)

-----------------------------------------------------------------------------
(* Lists and dictionaries *)

(* The elements of s that are in S, in their order *)
Only(s, S) ==
    LET F[i \in 0..Len(s)] ==
            IF i = 0 THEN <<>>
            ELSE IF s[i] \in S THEN Append(F[i - 1], s[i]) ELSE F[i - 1]
    IN  F[Len(s)]

(* f with the value v for x *)
Put(f, x, v) == [z \in DOMAIN f \cup {x} |-> IF z = x THEN v ELSE f[z]]

(* By time, then by the field the code sorts on: the event or the wallet. *)
NotAfter(a, b, field) == a.time < b.time \/ (a.time = b.time /\ a[field] <= b[field])

(* _insert_ordered, and the stable sort of _observe_buyer. *)
InsertOrdered(s, x, field) ==
    InsertAt(s, Cardinality({i \in DOMAIN s : NotAfter(s[i], x, field)}) + 1, x)

-----------------------------------------------------------------------------
(* TokenRegistry.apply *)

NoToken == [creator |-> NoWallet, supply |-> None, poolTime |-> None]

ApplyToken(ts, e) ==
    LET old == IF e.mint \in DOMAIN ts THEN ts[e.mint] ELSE NoToken
        new == CASE e.kind = "TOKEN_CREATED" ->
                        [creator |-> e.user, supply |-> e.supply, poolTime |-> None]
                 [] e.kind = "MIGRATION" -> [old EXCEPT !.poolTime = e.time]
                 [] e.kind = "POOL_CREATED" ->
                        [old EXCEPT !.poolTime = IF @ = None THEN e.time ELSE @]
                 [] OTHER -> old
    IN  Put(ts, e.mint, new)

-----------------------------------------------------------------------------
(* PoolStateTracker.apply: one pool, of which events know the source        *)
(* orientation; base and quote are exchanged when the source's base is a    *)
(* quote asset.                                                             *)

NoPool == [known |-> FALSE, rev |-> FALSE, quoteMint |-> Token, at |-> 0, usd |-> 0,
           base |-> None, quote |-> None, virtual |-> None, supply |-> None]

Reversed(e) == e.baseMint \in Supported /\ e.quoteMint \notin Supported

PoolRecord(p, e) ==
    IF e.kind # "POOL_CREATED" THEN p
    ELSE [p EXCEPT !.known = TRUE, !.rev = Reversed(e), !.at = e.time,
                   !.quoteMint = IF Reversed(e) THEN e.baseMint ELSE e.quoteMint]

(* _reserve_fields *)
ReserveFields(p, e) == IF p.rev THEN <<e.quote, e.base>> ELSE <<e.base, e.quote>>

Kept(new, old) == IF new = None THEN old ELSE new

(* An event without a field leaves the field as it was; the state has the   *)
(* SOL price of its last event.                                             *)
ApplyPool(p, e, price) ==
    LET rec == PoolRecord(p, e)
        raw == ReserveFields(rec, e)
    IN  IF ~rec.known THEN rec
        ELSE [rec EXCEPT !.usd = price, !.base = Kept(raw[1], @), !.quote = Kept(raw[2], @),
                         !.virtual = Kept(e.virtual, @),
                         !.supply = IF rec.rev THEN @ ELSE Kept(e.supply, @)]

Amount(x) == IF x = None THEN 0 ELSE x
Floor0(x) == IF x < 0 THEN 0 ELSE x

(* Effective reserves; the virtual reserves belong to the source's quote. *)
EffectiveBase(p) == Floor0(Amount(p.base) + IF p.rev THEN Amount(p.virtual) ELSE 0)
EffectiveQuote(p) == Floor0(Amount(p.quote) + IF p.rev THEN 0 ELSE Amount(p.virtual))

QuotePrice(p) ==
    CASE p.quoteMint = "usdc" -> 1
      [] p.quoteMint = "wsol" -> p.usd
      [] OTHER -> 0
MarginalPrice(p) ==
    IF EffectiveBase(p) = 0 THEN 0
    ELSE (EffectiveQuote(p) * QuotePrice(p) * PriceScale) \div EffectiveBase(p)
QuoteReserveUsd(p) == EffectiveQuote(p) * QuotePrice(p)
MarketCap(p) ==
    IF p.supply = None \/ MarginalPrice(p) = 0 THEN 0
    ELSE (p.supply * MarginalPrice(p)) \div PriceScale

(* The candidate of the pool exists when the pair is supported. *)
HasCandidate(p) == p.known /\ p.quoteMint \in Supported

(* _event_state_filter_reason: swaps outside the life of the candidate. *)
Filtered(p, e) ==
    e.kind \in Swaps /\ (~HasCandidate(p) \/ e.time < p.at \/ e.time > p.at + MaxAge)

-----------------------------------------------------------------------------
(* WalletAnalyzer: the buyers *)

Buy(e) ==
    [time |-> e.time, wallet |-> e.user, slot |-> e.slot, bundle |-> e.bundle,
     amount |-> IF e.quoteAmt # 0 THEN e.quoteAmt ELSE e.baseAmt]

NoEvidence == [total |-> 0, slots |-> {}, bundles |-> {}, amounts |-> {}]

(* _accumulate_evidence *)
Accumulate(ev, b) ==
    [total |-> ev.total + b.amount, slots |-> ev.slots \cup {b.slot},
     bundles |-> ev.bundles \cup ({b.bundle} \ {NoBundle}),
     amounts |-> ev.amounts \cup ({b.amount} \ {0})]

(* One buy, after the buys before it: the evidence of its wallet, and the   *)
(* first Limit buyers.                                                      *)
AddBuy(st, b) ==
    LET old == IF b.wallet \in DOMAIN st.evidence THEN st.evidence[b.wallet]
               ELSE NoEvidence
    IN  [evidence |-> Put(st.evidence, b.wallet, Accumulate(old, b)),
         first |-> IF b.wallet \notin Range(st.first) /\ Len(st.first) < Limit
                   THEN Append(st.first, b.wallet) ELSE st.first]

NoBuyers == [evidence |-> <<>>, first |-> <<>>]

(* _rebuild_buyer_state: the buys one after the other *)
Rebuild(buys) ==
    LET F[i \in 0..Len(buys)] == IF i = 0 THEN NoBuyers ELSE AddBuy(F[i - 1], buys[i])
    IN  F[Len(buys)]

AboveIn(evidence, a, b) ==
    \/ evidence[a].total > evidence[b].total
    \/ evidence[a].total = evidence[b].total /\ a < b

(* The Limit largest buyers of S, in order *)
Best(evidence, S) ==
    [i \in 1..Min({Cardinality(S), Limit}) |->
        CHOOSE w \in S : Cardinality({v \in S : AboveIn(evidence, v, w)}) = i - 1]

(* Mutant: a buyer among the first twenty volumes keeps its place *)
TopVolumeKept(top, evidence, w) ==
    IF w \in Range(top) THEN top
    ELSE IF Len(top) < Limit \/ AboveIn(evidence, w, Last(top))
         THEN Best(evidence, Range(top) \cup {w}) ELSE top

(* _update_top_volume *)
UpdateTopVolume(top, evidence, w) ==
    LET rest == Only(top, Range(top) \ {w})
    IN  IF Len(rest) < Limit \/ AboveIn(evidence, w, Last(rest))
        THEN Best(evidence, Range(rest) \cup {w}) ELSE rest

NoBook == [buys |-> <<>>, evidence |-> <<>>, first |-> <<>>, top |-> <<>>]

Late(bk, b) == bk.buys # <<>> /\ ~NotAfter(Last(bk.buys), b, "wallet")

(* _observe_buyer: the next buy extends the state, a late buy rebuilds it. *)
ObserveBuyer(bk, b) ==
    LET buys == InsertOrdered(bk.buys, b, "wallet")
        next == IF Late(bk, b) THEN Rebuild(buys)
                ELSE AddBuy([evidence |-> bk.evidence, first |-> bk.first], b)
    IN  [buys |-> buys, evidence |-> next.evidence, first |-> next.first,
         top |-> IF Late(bk, b) THEN Best(next.evidence, DOMAIN next.evidence)
                 ELSE UpdateTopVolume(bk.top, next.evidence, b.wallet)]

(* The evidence and the wallets that a buy is compared with: those of the   *)
(* present, or for a late buy those of its own time.                        *)
RelationState(old, new, b) ==
    LET past == Rebuild(Only(new.buys, {x \in Range(new.buys) : x.time <= b.time}))
    IN  IF Late(old, b)
        THEN [evidence |-> past.evidence,
              scope |-> Range(past.first)
                        \cup Range(Best(past.evidence, DOMAIN past.evidence))]
        ELSE [evidence |-> new.evidence, scope |-> Range(new.first) \cup Range(new.top)]

-----------------------------------------------------------------------------
(* Relations and clusters *)

(* _STRONG and _MEDIUM, in hundredths, for the evidence the analyzer finds *)
Weight == [funder |-> 78, slot |-> 46, bundle |-> 55, amount |-> 46]
Strong == {"funder"}

(* score_relation: eligible_for_cluster *)
Eligible(ev) ==
    LET complement == FoldSet(LAMBDA n, c : c * (100 - Weight[n]), 1, ev)
    IN  /\ ev # {}
        /\ 100^Cardinality(ev) - complement >= 70 * 100^(Cardinality(ev) - 1)
        /\ ev \cap Strong # {} \/ Cardinality(ev \ Strong) >= 2

Shared(fs, evidence, a, b) ==
    {n \in DOMAIN Weight :
        CASE n = "funder" -> fs[a] # NoWallet /\ fs[a] = fs[b]
          [] n = "slot" -> evidence[a].slots \cap evidence[b].slots # {}
          [] n = "bundle" -> evidence[a].bundles \cap evidence[b].bundles # {}
          [] n = "amount" -> evidence[a].amounts \cap evidence[b].amounts # {}}

(* Mutant: a pair is compared once *)
RecomputeNew(rs, fs, w, st) ==
    LET pairs == IF w \in st.scope THEN {{w, o} : o \in st.scope \ {w}} ELSE {}
        found == [p \in pairs |->
                    Shared(fs, st.evidence, w, CHOOSE o \in p : o # w)]
        new == {q \in pairs \ DOMAIN rs : found[q] # {}}
    IN  [p \in DOMAIN rs \cup new |-> IF p \in new THEN found[p] ELSE rs[p]]

(* _recompute_relations: a pair without evidence keeps what it had. *)
RecomputeRelations(rs, fs, w, st) ==
    LET pairs == IF w \in st.scope THEN {{w, o} : o \in st.scope \ {w}} ELSE {}
        found == [p \in pairs |->
                    Shared(fs, st.evidence, w, CHOOSE o \in p : o # w)]
        new == {q \in pairs : found[q] # {}}
    IN  [p \in DOMAIN rs \cup new |-> IF p \in new THEN found[p] ELSE rs[p]]

(* find of build_clusters: the root of a wallet and, as it halves the paths, *)
(* the parents.  A parent is never above its child, so the loop ends after   *)
(* at most w steps.                                                         *)
Halved(st) ==
    LET up == st.parent[st.root]
    IN  IF up = st.root THEN st
        ELSE [parent |-> [st.parent EXCEPT ![st.root] = st.parent[up]],
              root |-> st.parent[up]]
Find(parent, w) ==
    LET F[n \in 0..w] ==
            IF n = 0 THEN [parent |-> parent, root |-> w] ELSE Halved(F[n - 1])
    IN  F[w]

(* Mutant: the wallets are linked instead of their roots *)
UnionOfWallets(pair, parent) ==
    [parent EXCEPT ![Max(pair)] = Min(pair)]

(* union of build_clusters *)
Union(pair, parent) ==
    LET left == Find(parent, Min(pair))
        right == Find(left.parent, Max(pair))
    IN  IF left.root = right.root THEN right.parent
        ELSE [right.parent EXCEPT ![Max({left.root, right.root})] =
                 Min({left.root, right.root})]

(* build_clusters, over the relations inside of scope *)
BuildClusters(scope, rs) ==
    LET edges == {p \in DOMAIN rs : p \subseteq scope /\ Eligible(rs[p])}
        parent == FoldSet(Union, [w \in scope |-> w], edges)
    IN  {{w \in scope : Find(parent, w).root = r} : r \in {Find(parent, w).root : w \in scope}}

(* cluster_for *)
ClusterFor(w, scope, rs) ==
    IF w = NoWallet THEN {}
    ELSE CHOOSE c \in BuildClusters(scope \cup {w}, rs) : w \in c

(* largest_related_cluster: the larger, then the last in order. *)
LargestRelatedCluster(scope, excluded, rs) ==
    LET cs == {c \ excluded : c \in BuildClusters(scope, rs)}
        big == {c \in cs : Cardinality(c) > 1}
    IN  IF big = {} THEN {}
        ELSE CHOOSE c \in big : \A d \in big \ {c} :
                 \/ Cardinality(c) > Cardinality(d)
                 \/ Cardinality(c) = Cardinality(d) /\ Min(c) > Min(d)

(* is_same_funder_cluster *)
SameFunder(bk, fs, w) ==
    /\ fs[w] # NoWallet
    /\ Cardinality({b \in DOMAIN bk.evidence : fs[b] = fs[w]}) >= 2

(* _touch_profile: the funder of a wallet is the first one seen. *)
TouchProfile(fs, w, funder) ==
    IF w = NoWallet \/ fs[w] # NoWallet THEN fs ELSE [fs EXCEPT ![w] = funder]

(* WalletAnalyzer.observe *)
ObserveWallet(m, e) ==
    LET w == e.user
        fs == TouchProfile(m.funder, w, e.funder)
        bk == ObserveBuyer(m.book, Buy(e))
    IN  IF e.kind # "SWAP_BUY" \/ w = NoWallet THEN [m EXCEPT !.funder = fs]
        ELSE [m EXCEPT !.funder = fs, !.book = bk,
                       !.relations = RecomputeRelations(@, fs, w,
                                         RelationState(m.book, bk, Buy(e)))]

-----------------------------------------------------------------------------
(* The features *)

NoFeatures == [created |-> None, trades |-> <<>>, liquidity |-> <<>>, holders |-> <<>>]

(* register_pool *)
RegisterPool(f, e) ==
    [f EXCEPT !.created = IF @ = None \/ e.time < @ THEN e.time ELSE @]

(* Mutant: the side of the source's event *)
SourceSide(p, e) == IF e.kind = "SWAP_BUY" THEN "BUY" ELSE "SELL"

(* The side of the trade in the token, and the quote asset it moved. *)
TradeSide(p, e) ==
    IF (e.kind = "SWAP_BUY") = p.rev THEN "SELL" ELSE "BUY"
TradeQuote(p, e) == IF p.rev THEN e.baseAmt ELSE e.quoteAmt

Liquidity(p, id, time) ==
    [id |-> id, time |-> time, quote |-> QuoteReserveUsd(p),
     cap |-> MarketCap(p)]

(* _ingest_pool_features: a swap of a pool without a price is no trade. *)
IngestPoolFeatures(f, p, ts, e, same) ==
    LET liq == InsertOrdered(f.liquidity, Liquidity(p, e.id, e.time), "id")
        creator == IF Token \in DOMAIN ts THEN ts[Token].creator ELSE NoWallet
        trade == [id |-> e.id, time |-> e.time, side |-> TradeSide(p, e), wallet |-> e.user,
                  vol |-> TradeQuote(p, e) * QuotePrice(p),
                  price |-> MarginalPrice(p),
                  external |-> e.user # NoWallet /\ e.user # creator, same |-> same]
    IN  IF e.kind \notin Swaps \/ MarginalPrice(p) = 0
        THEN [f EXCEPT !.liquidity = liq]
        ELSE [f EXCEPT !.liquidity = liq,
                       !.trades = InsertOrdered(@, trade, "id")]

Upto(s, at) == Only(s, {o \in Range(s) : o.time <= at})

Window(s, at, seconds) ==
    Only(s, {o \in Range(s) : at - seconds < o.time /\ o.time <= at})
Side(s, side) == Only(s, {o \in Range(s) : o.side = side})
WalletsOf(s) == {o.wallet : o \in Range(s)}
Volume(s) == FoldLeft(LAMBDA sum, o : sum + o.vol, 0, s)

(* Ratios are pairs; a ratio over nothing is 0. *)
Ratio(n, d) == IF d > 0 THEN <<n, d>> ELSE <<0, 1>>
Change(current, previous) == Ratio(current - previous, previous)

(* _vwap *)
Vwap(s) == Ratio(FoldLeft(LAMBDA sum, o : sum + o.price * o.vol, 0, s), Volume(s))

(* The last observation that is seconds old, or the first. *)
Previous(s, at, seconds) ==
    IF Upto(s, at - seconds) = <<>> THEN Head(s) ELSE Last(Upto(s, at - seconds))

(* _liquidity_change, and the change since the pool was created *)
LiquidityChange(s, at, seconds) ==
    IF s = <<>> THEN Ratio(0, 0)
    ELSE Change(Last(s).quote, Previous(s, at, seconds).quote)

(* The sum of the n largest of some volumes *)
LargestSum(vol, n) ==
    LET Above(a, b) == vol[a] > vol[b] \/ (vol[a] = vol[b] /\ a < b)
        largest == {w \in DOMAIN vol : Cardinality({v \in DOMAIN vol : Above(v, w)}) < n}
    IN  MapThenSumSet(LAMBDA w : vol[w], largest)

(* EventTimeFeatureEngine.snapshot, without the fields that are only stored *)
Snapshot(f, at) ==
    LET trades == Upto(f.trades, at)
        liq == Upto(f.liquidity, at)
        holders == Upto(f.holders, at)
        buys == Side(trades, "BUY")
        buy30 == Window(buys, at, 30)
        buy60 == Window(buys, at, 60)
        sell60 == Window(Side(trades, "SELL"), at, 60)
        all60 == Window(trades, at, 60)
        total == Volume(buy60)
        volumes == [w \in WalletsOf(buy60) |->
                      Volume(Only(buy60, {o \in Range(buy60) : o.wallet = w}))]
        earlier == WalletsOf(Window(buys, at - 30, 30))
        quote == IF liq = <<>> THEN 0 ELSE Last(liq).quote
        price == IF trades = <<>> THEN 0 ELSE Last(trades).price
        high == Max({0} \cup {o.price : o \in Range(trades)})
    IN  [age |-> IF f.created = None THEN 0 ELSE Floor0(at - f.created),
         uniqueBuyers |-> Cardinality(WalletsOf(buy60)),
         newBuyers |-> Cardinality(WalletsOf(buy30) \ WalletsOf(Upto(buys, at - 30))),
         acceleration |-> <<Cardinality(WalletsOf(buy30)), Max({1, Cardinality(earlier)})>>,
         uniqueRatio |-> <<Cardinality(WalletsOf(buy60)), Max({1, Len(buy60)})>>,
         perTrader |-> <<Len(all60), Max({1, Cardinality(WalletsOf(all60))})>>,
         buySell |-> IF Volume(sell60) = 0 THEN <<100 * total, 1>>
                     ELSE <<total, Volume(sell60)>>,
         top5 |-> Ratio(LargestSum(volumes, 5), total),
         hhi |-> Ratio(MapThenSumSet(LAMBDA w : volumes[w] * volumes[w], DOMAIN volumes),
                       total * total),
         sameFunder |-> Ratio(Volume(Only(buy60, {o \in Range(buy60) : o.same})), total),
         externalSellers |-> Cardinality({o.wallet : o \in
                                {x \in Range(Side(trades, "SELL")) : x.external}}),
         liquidity |-> quote,
         liquidityChange |-> LiquidityChange(liq, at, 30),
         capRatio |-> IF liq = <<>> THEN <<0, 1>> ELSE Ratio(Last(liq).cap, quote),
         price |-> price, vwap |-> Vwap(Window(trades, at, 30)),
         sinceCreation |-> IF trades = <<>> THEN <<0, 1>>
                           ELSE Change(price, Head(trades).price),
         drawdown |-> Ratio(high - price, high),
         top10 |-> IF holders = <<>> THEN <<0, 1>> ELSE Last(holders).top10,
         devCluster |-> IF holders = <<>> THEN <<0, 1>> ELSE Last(holders).devCluster,
         related |-> IF holders = <<>> THEN <<0, 1>> ELSE Last(holders).related]

-----------------------------------------------------------------------------
(* Applying events *)

(* What the process derives from events: the registry, the pool, the        *)
(* features, and the buyers, funders and relations of the wallet analysis.  *)
(* history: events it applied.                                              *)
Blank ==
    [tokens |-> <<>>, pool |-> NoPool, feats |-> NoFeatures, book |-> NoBook,
     funder |-> [w \in Wallets |-> NoWallet], relations |-> <<>>, applied |-> {}]

(* Pump events name the bonding curve, not the pool. *)
OfPool(e) == e.kind \notin {"TOKEN_CREATED", "CURVE_COMPLETED"}

(* _apply_event; a rehydrated event is observed after it is applied, and    *)
(* carries no same_funder_cluster.                                          *)
ApplyEvent(m, e, price, live) ==
    LET p == IF OfPool(e) THEN ApplyPool(m.pool, e, price) ELSE m.pool
        o == ObserveWallet(m, e)
        ts == ApplyToken(m.tokens, e)
        f == IF e.kind = "POOL_CREATED" THEN RegisterPool(m.feats, e) ELSE m.feats
        same == live /\ e.user # NoWallet /\ SameFunder(o.book, o.funder, e.user)
    IN  [o EXCEPT !.pool = p, !.tokens = ts, !.applied = @ \cup {e},
                  !.feats = IF OfPool(e) /\ p.known
                            THEN IngestPoolFeatures(f, p, ts, e, same) ELSE f]

TradeIds(m) == {o.id : o \in Range(m.feats.trades)}

MarketInit ==
    /\ feed \in Feeds /\ processed = <<>> /\ usd = 0 /\ mem = Blank
    /\ restarts = 0 /\ started = 0 /\ traded = {} /\ unpriced = {}

(* The events that a later event of s overtook *)
LateIn(s) ==
    {x \in feed : \E i \in DOMAIN s :
        s[i].time > x.time /\ \A j \in 1..i : s[j] # x}

(* process_event and _persist_claimed_event_state *)
ProcessEvent(e) ==
    /\ e \in feed \ Range(processed)
    /\ Cardinality(LateIn(Append(processed, e))) <= MaxLate
    /\ usd = 0 => Len(processed) - started < PriceDelay
    /\ processed' = Append(processed, e)
    /\ mem' = IF Filtered(mem.pool, e) THEN mem ELSE ApplyEvent(mem, e, usd, TRUE)
    /\ traded' = traded \cup TradeIds(mem')
    /\ unpriced' = IF e.kind \in Swaps /\ e \in mem'.applied /\ e.id \notin TradeIds(mem')
                   THEN unpriced \cup {e.id} ELSE unpriced
    /\ UNCHANGED <<feed, usd, restarts, started>>

(* _quote_asset_loop *)
RefreshQuotePrice ==
    /\ usd = 0 /\ usd' = QuoteUsd
    /\ UNCHANGED <<feed, processed, mem, restarts, started, traded, unpriced>>

Rehydrate(m, e) == IF Filtered(m.pool, e) THEN m ELSE ApplyEvent(m, e, 0, FALSE)

(* load_wallet_analysis and restore: profiles and relations *)
RestoredMemory == [Blank EXCEPT !.funder = mem.funder, !.relations = mem.relations]

(* load_processed_pool_creation_events, then load_processed_events_since:   *)
(* the creation of the token may be older than the recovery window.         *)
RecoveredEvents(recent) ==
    LET created == {e \in Range(processed) : e.kind = "POOL_CREATED"}
        old == {e \in Range(processed) : ~recent /\ e.kind = "TOKEN_CREATED"}
    IN  Only(processed, created) \o Only(processed, Range(processed) \ (created \cup old))

(* The state m after the events of s are read again *)
Rehydrated(m, s) ==
    LET F[i \in 0..Len(s)] == IF i = 0 THEN m ELSE Rehydrate(F[i - 1], s[i])
    IN  F[Len(s)]

(* start; the quote asset loop starts after the events are read. *)
RestartMarket(recent) ==
    /\ restarts < MaxRestarts /\ restarts' = restarts + 1 /\ started' = Len(processed)
    /\ mem' = Rehydrated(RestoredMemory, RecoveredEvents(recent))
    /\ usd' = 0
    /\ unpriced' = {e.id : e \in {x \in mem'.applied : x.kind \in Swaps}} \ TradeIds(mem')
    /\ UNCHANGED <<feed, processed, traded>>

-----------------------------------------------------------------------------
(* Properties *)

AppliedBuys == {e \in mem.applied : e.kind = "SWAP_BUY" /\ e.user # NoWallet}
BuysOf(w) == {e \in AppliedBuys : e.user = w}
Buyers == {e.user : e \in AppliedBuys}

LexLess(s, t) == s[1] < t[1] \/ (s[1] = t[1] /\ s[2] < t[2])

(* The n-th of some wallets by a key *)
Ranked(S, Key(_)) == {w \in S : Cardinality({v \in S : LexLess(Key(v), Key(w))}) < Limit}

(* However the buys arrive, in order, late, or again after a restart, what   *)
(* the analyzer keeps of the buyers is what the set of applied buys says:    *)
(* their evidence, the first Limit buyers and the Limit largest (the         *)
(* incremental path of _observe_buyer agrees with _rebuild_buyer_state).     *)
BuyerStateIsExact ==
    LET Total(w) == MapThenSumSet(LAMBDA e : Buy(e).amount, BuysOf(w))
        First(w) == <<Min({e.time : e \in BuysOf(w)}), w>>
        Top(w) == <<-Total(w), w>>
    IN  /\ DOMAIN mem.book.evidence = Buyers
        /\ \A w \in Buyers :
              mem.book.evidence[w] =
                 [total |-> Total(w), slots |-> {e.slot : e \in BuysOf(w)},
                  bundles |-> {e.bundle : e \in BuysOf(w)} \ {NoBundle},
                  amounts |-> {Buy(e).amount : e \in BuysOf(w)} \ {0}]
        /\ Range(mem.book.first) = Ranked(Buyers, First)
        /\ Range(mem.book.top) = Ranked(Buyers, Top)

(* While the buys arrive in order, two wallets that the analyzer compares    *)
(* are related by exactly what they share in slots, bundles and amounts:     *)
(* a wallet that leaves the largest buyers and returns is compared again.    *)
RelationsAreComplete ==
    LET inOrder == restarts = 0
            /\ \A i, j \in DOMAIN processed :
                  (i < j /\ {processed[i], processed[j]} \subseteq AppliedBuys) =>
                      NotAfter(Buy(processed[i]), Buy(processed[j]), "wallet")
        scope == Range(mem.book.first) \cup Range(mem.book.top)
    IN  inOrder =>
          \A a, b \in scope :
             a < b => LET found == IF {a, b} \in DOMAIN mem.relations
                                   THEN mem.relations[{a, b}] ELSE {}
                      IN  found \ Strong =
                            {n \in {"slot", "bundle", "amount"} :
                               \E e \in BuysOf(a), f \in BuysOf(b) :
                                  CASE n = "slot" -> e.slot = f.slot
                                    [] n = "bundle" -> e.bundle = f.bundle /\ e.bundle # NoBundle
                                    [] n = "amount" -> /\ Buy(e).amount = Buy(f).amount
                                                       /\ Buy(e).amount > 0}

(* The clusters are the connected components of the eligible relations       *)
(* (build_clusters with union-find and path halving): no relation joins two, *)
(* and no part of one is without a relation to the rest.                     *)
ClustersAreComponents ==
    LET edges == {p \in DOMAIN mem.relations : Eligible(mem.relations[p])}
        clusters == BuildClusters(Wallets, mem.relations)
    IN  /\ UNION clusters = Wallets
        /\ \A p \in edges : \E c \in clusters : p \subseteq c
        /\ \A c, d \in clusters : c # d => c \cap d = {}
        /\ \A c \in clusters : \A part \in (SUBSET c) \ {{}, c} :
              \E p \in edges : p \subseteq c /\ p \cap part # {} /\ ~(p \subseteq part)
=============================================================================
