--------------------------- MODULE MCEntryDecision ---------------------------
(* Small histories of one token for TLC: a token of developer 1, a pool,    *)
(* and trades of wallets 1 to 4, with variations.                           *)
EXTENDS EntryDecision

Event(id, kind, time, user) ==
    [id |-> id, kind |-> kind, time |-> time, slot |-> time, mint |-> Token, user |-> user,
     baseMint |-> Token, quoteMint |-> "wsol", base |-> None, quote |-> None,
     virtual |-> None, supply |-> None, baseAmt |-> 0, quoteAmt |-> 0,
     funder |-> NoWallet, bundle |-> NoBundle]

Created == [Event(1, "TOKEN_CREATED", 50, 1) EXCEPT !.supply = 300]
PoolOf(base, quote) ==
    [Event(2, "POOL_CREATED", 100, 1) EXCEPT
        !.baseMint = base, !.quoteMint = quote, !.base = 100, !.quote = 100, !.virtual = 0]
Trade(id, kind, time, user, amount, base, quote) ==
    [Event(id, kind, time, user) EXCEPT
        !.base = base, !.quote = quote, !.quoteAmt = amount, !.baseAmt = amount]

(* A buyer, a sale by `seller`, and another buyer *)
Usual(seller, sold) ==
    {Created, PoolOf(Token, "wsol"), Trade(3, "SWAP_BUY", 125, 3, 10, 83, 100),
     Trade(4, "SWAP_SELL", sold, seller, 15, 101, 100),
     Trade(5, "SWAP_BUY", 140, 4, 40, 100, 108)}

Exchanged(e) ==
    [e EXCEPT !.baseMint = e.quoteMint, !.quoteMint = e.baseMint, !.base = e.quote,
              !.quote = e.base, !.baseAmt = e.quoteAmt, !.quoteAmt = e.baseAmt,
              !.virtual = IF e.kind = "POOL_CREATED" THEN 0 ELSE e.virtual,
              !.kind = CASE e.kind = "SWAP_BUY" -> "SWAP_SELL"
                         [] e.kind = "SWAP_SELL" -> "SWAP_BUY"
                         [] OTHER -> e.kind]

Flipped == {Exchanged(e) : e \in Usual(1, 135)}

(* Wallets that buy together: a chain of shared slots and amounts *)
Together ==
    {PoolOf(Token, "wsol"),
     Trade(3, "SWAP_BUY", 110, 1, 10, 100, 100), Trade(4, "SWAP_BUY", 110, 3, 10, 100, 100),
     Trade(5, "SWAP_BUY", 120, 2, 15, 100, 101), Trade(6, "SWAP_BUY", 120, 3, 12, 100, 102),
     Trade(7, "SWAP_BUY", 130, 2, 10, 100, 103), Trade(8, "SWAP_BUY", 130, 4, 24, 100, 103)}

MCMinted == <<300, 400>>
MCEvalTimes == <<150, 152>>

MCFeeds ==
    {Usual(2, 130), Together, Flipped}

MCCfg ==
    [minAge |-> 45, maxAge |-> 180, minLiquidity |-> 40, maxLoss |-> 80, maxBuyImpact |-> 25,
     maxSellImpact |-> 35, minSellers |-> 1, maxLargest |-> 70, maxTop5 |-> 220,
     maxTop10 |-> 300, maxDev |-> 20, maxDevCluster |-> 50, maxRelated |-> 150,
     maxUnknown |-> 50, maxDrop |-> 30, maxStreamAge |-> 3, maxQuoteAge |-> 1,
     maxReturn |-> 2500, maxSameFunder |-> 200, maxPerTrader |-> 4000, scoreEntry |-> 8000,
     maxCapRatio |-> 25000, minBuyers |-> 2, minAcceleration |-> 1300, minUniqueRatio |-> 300,
     maxTop5Buyers |-> 1000, minBuySell |-> 1500, maxBuySell |-> 5000, minPullback |-> 100,
     maxPullback |-> 250, dailyLimit |-> 10000, hardStop |-> 150, maxPosition |-> 20,
     minPosition |-> 8]

Account(acct, owner, amount) ==
    [account |-> acct, owner |-> owner, amount |-> amount, system |-> acct = 0]
Balances == {Account(0, NoWallet, 200), Account(1, 1, 6), Account(2, 2, 10),
             Account(3, 3, 10), Account(4, 4, 10), Account(5, 2, 5)}

(* Everything is as it should be *)
Good ==
    [program |-> "spl", mintAuthority |-> FALSE, freezeAuthority |-> FALSE, decimals |-> 6,
     mintAt |-> 150, quoteAt |-> 151, streamAt |-> 149, loss |-> 20, buyImpact |-> 5,
     sellImpact |-> 5, accounts |-> Balances, layout |-> TRUE, database |-> TRUE,
     known |-> FALSE, rugs |-> 0, dumps |-> 0, week |-> 1, successes |-> 0,
     equity |-> 500000, pnl |-> 0, pending |-> TRUE]

(* One answer off, at or beyond its limit; for the first history only *)
MCAnswers(f) ==
    CASE f = Together -> {}
      [] f = Flipped -> {Good}
      [] OTHER ->
         {Good, [Good EXCEPT !.pending = FALSE],
          [Good EXCEPT !.loss = 80], [Good EXCEPT !.loss = 81],
          [Good EXCEPT !.accounts = @ \cup {Account(6, 3, 12)}], 
          [Good EXCEPT !.pnl = -8000, !.equity = 800000]}
=============================================================================
