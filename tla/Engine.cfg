SPECIFICATION Spec
CONSTANTS
    Coinbase = Coinbase
    Kraken = Kraken
    Venues <- Two
    Prices <- FivePrices
    KrakenDepth = 2
    ChecksumDepth = 1
    Markets <- TheMarkets
    Moves <- TheMoves
    Garbage <- TheGarbage
INVARIANTS
    FaithfulBook
    VerifiedTop
    ReadyBookUncrossed
    CrossIsAcrossVenues
    QuotesAreLive
    ConsolidatesTops
