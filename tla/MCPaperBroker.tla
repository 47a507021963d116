--------------------------- MODULE MCPaperBroker ---------------------------
(* Small campaigns for the paper broker.  "Spec" starts a new campaign;     *)
(* "HoldingSpec" starts one in which an entry for g1 has been filled, with  *)
(* the state that Spec reaches by submitting at time 0 and filling at 1.    *)
EXTENDS PaperBroker, TLC

CONSTANTS s1, s2, g1, g2, c1, none

MCSymbolOf == [g \in Signals |-> s1]
MCPrices   == {2, 3}
TradedOnly == {2}
TwoOnly    == {2}
Ones       == {1}
MCTrims    == {50}
OnlyTrue   == {TRUE}
Never      == {}

EntryQty == 3
EntryNet == BuyNet(EntryQty, 2)

HoldingInit ==
    /\ cash = InitialCash - EntryNet /\ realized = 0
    /\ orders = [o \in OrderIds |->
        IF o = 1 THEN [status |-> "FILLED", side |-> "BUY", type |-> "LIMIT", symbol |-> s1,
                       signal |-> g1, position |-> 0, price |-> 2, qty |-> EntryQty,
                       filled |-> EntryQty, created |-> 0, cursor |-> 1]
                 ELSE NoOrder]
    /\ positions = <<[symbol |-> s1, qty |-> EntryQty, average |-> 2, invested |-> EntryNet,
                      current |-> 2, open |-> TRUE, trimmed |-> FALSE, scaled |-> FALSE]>>
    /\ logs = <<[symbol |-> s1, entryOrder |-> 1, entry |-> 2, qty |-> EntryQty,
                 invested |-> EntryNet, exit |-> 0, gross |-> 0, net |-> 0, closed |-> FALSE]>>
    /\ closed = <<>>
    /\ fills = <<[order |-> 1, symbol |-> s1, side |-> "BUY", qty |-> EntryQty, price |-> 2,
                  net |-> EntryNet, at |-> 1]>>
    /\ ledger = <<[order |-> 0, amount |-> InitialCash, balance |-> InitialCash],
                  [order |-> 1, amount |-> -EntryNet, balance |-> InitialCash - EntryNet]>>
    /\ signals = [g \in Signals |-> IF g = g1 THEN 0 ELSE Unpublished]
    /\ committed = Working
    /\ session = "idle" /\ visible = 0 /\ killSeen = FALSE
    /\ kill = FALSE
    /\ requests = [c \in Clients |-> NoOrder]
    /\ snapshots = [s \in Symbols |-> <<[at |-> 0, price |-> 2, volume |-> 0],
                                        [at |-> 1, price |-> 2, volume |-> 3]>>]
    /\ lapsed = {g1} /\ now = 1
    /\ outcome = "ok"

HoldingSpec == HoldingInit /\ [][Next]_vars
=============================================================================
