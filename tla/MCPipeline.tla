----------------------------- MODULE MCPipeline -----------------------------
(* TLC instances of Pipeline: two venues, of which only Kraken checksums.  *)
EXTENDS Pipeline, TLC

CONSTANTS coinbase, kraken

BothVenues == {coinbase, kraken}
OnlyKraken == {kraken}
OnlyCoinbase == {coinbase}
NoVenue == {}
=============================================================================
