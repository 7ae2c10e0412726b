------------------------ MODULE MCMarketDataSnapshot ------------------------
(* One stream error that leaves the market data to its fate and one that    *)
(* means the connection is gone.                                            *)
EXTENDS MarketDataSnapshot

MCStreamErrors == {Notice(10197), Transport("ConnectionReset")}
=============================================================================
