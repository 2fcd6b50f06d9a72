--------------------------- MODULE MCRiskControls ---------------------------
(* RiskControls with a memory of what happened: whether this process ever   *)
(* had a hard halt.                                                          *)
EXTENDS RiskControls

VARIABLE hardHalted

InitH == Init /\ hardHalted = FALSE
NextH == Next /\ hardHalted' = (up' /\ (hardHalted \/ mem'.halt = "hard"))
SpecH == InitH /\ [][NextH]_<<vars, hardHalted>>

(* docs/RISK_MANAGEMENT.md: the drawdown halt "cannot be cleared by          *)
(* Telegram /resume": once it was set no entry is allowed any more.          *)
HardHaltHolds ==
    [][hardHalted /\ entry = "idle" => entry' = "idle"]_<<vars, hardHalted>>
=============================================================================
