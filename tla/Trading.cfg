SPECIFICATION FairSpec
CONSTANTS
    thin = thin
    liquid = liquid
    single = single
    Singles <- JustSingle
    FirstLegs <- JustThin
    SecondOf <- ThenLiquid
    Request <- Requests
    Limit <- Limits
    Markets <- AllMarkets
    MaxQty = 4
    MaxDeviation = 10
INVARIANTS
    LimitUnlessRaced
    SecondLegOnce
PROPERTIES
    SecondLegFollows
CHECK_DEADLOCK FALSE
