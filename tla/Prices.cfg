\* Two callers race on two coins for five instants; answers may fail, come late or lack a coin.
SPECIFICATION Spec
CONSTANTS
    eth = eth
    usdc = usdc
    a = a
    b = b
    Coins <- MCCoins
    Pairs <- MCPairs
    Callers <- MCCallers
    TTL = 2
    MaxCall = 2
    Horizon = 5
INVARIANTS
    TypeOK
    PricesAreRecent
    SameCoinSamePrice
    CallsTimely
SYMMETRY CallersAlike
