CONSTANTS
    binance = binance
    okx = okx
    btc = btc
    eth = eth
    sol = sol
    first = first
    second = second
    Callers = {c1, c2}
    Symbols = {btc, eth, sol}
    Policies <- MCPolicies
    Stripes = {first, second}
    StripeOf <- MCStripeOf
    MaxEntries = 2
    TTL = 2
    RegistryTTL = 2
    StartBudget = 1
    MaxTime = 3
    Nobody = Nobody
    NoTime = NoTime
SPECIFICATION FairSpec
INVARIANTS
    CacheTypeOK
    BundleIsSound
PROPERTIES
    NothingIsFetchedTwice
    EveryCallEnds
CHECK_DEADLOCK FALSE
