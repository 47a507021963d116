--------------------------- MODULE MCMarketWorker ---------------------------
(* A worker that is started on a Wednesday, over a weekend and a closure on  *)
(* the Saturday; a day of forty seconds of two units.                        *)
EXTENDS MarketWorker

CONSTANT socket

OnSaturday == {3}
TwoTimes   == {0, 3}
Retries    == {1, 20}
=============================================================================
