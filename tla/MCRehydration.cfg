SPECIFICATION Spec
CONSTANTS
    Token = "token"
    Feeds <- MCFeeds
    Cfg <- MCCfg
    Answers <- MCAnswers
    Minted <- MCMinted
    EvalTimes <- MCEvalTimes
    Instants = {125, 150}
    Limit = 2
    MaxAge = 180
    QuoteUsd = 1
    MaxLate = 1
    PriceDelay = 1
    Lag = 1
    MaxRestarts = 1
INVARIANT
    RehydrationKeepsTrades
CHECK_DEADLOCK FALSE
