SPECIFICATION DeskFairSpec
CONSTANTS
    buyer = buyer
    seller = seller
    cash = 5
    tokens = 2
    price = 2
    Quantities = {1, 2}
    Parties <- MCParties
    Terms <- MCTerms
    OpeningCash <- MCCash
    OpeningTokens <- MCTokens
    DeskCalls = {c1, c2}
    Timer = Timer
    Limit = 4
    MaxConditions = 2
    MaxCalls = 4
    AtOnce = 3
INVARIANTS DeskTypeOK ReservedWithinBalance ReleasedHasMoved RecordIsTrue
PROPERTY NothingStranded
CHECK_DEADLOCK FALSE
