--------------------------- MODULE MCTradingCycle ---------------------------
(* Small campaigns for the trading cycle, starting empty, with the          *)
(* position of HoldingInit, or with either.                                *)
EXTENDS TradingCycle, MCPaperBroker

HoldingCycleInit ==
    /\ HoldingInit
    /\ phase = "idle"
    /\ queue = {} /\ held = {} /\ seen = {} /\ loaded = FALSE /\ todo = {} /\ tried = {}
    /\ nav = InitialCash /\ peak = InitialCash

HoldingCycle == HoldingCycleInit /\ [][CycleNext]_cycleVars

AnyCycle == (CycleInit \/ HoldingCycleInit) /\ [][CycleNext]_cycleVars
=============================================================================
