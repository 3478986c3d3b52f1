\* Every ticker of up to four tokens, and a clock that may be set.
SPECIFICATION QuoteSpec
CONSTANTS
    TickerTexts <- MCTickerTexts
    Prices = {1, 2}
    BusyVolumes = {2, 3}
    Volumes = {1}
    MaxU32 = 3
    MaxU64 = 4
    Times <- MCTimes
INVARIANTS
    ParseInvertsDisplay
