------------------------------- MODULE MCPrices -------------------------------
\* Two callers, two coins, a TTL of two instants and requests of at most two.
EXTENDS PriceCache, TLC
CONSTANTS eth, usdc, a, b
MCCoins == {eth, usdc}
MCCallers == {a, b}
\* A swap between the coins, and one in the same coin.
MCPairs == {<<eth, usdc>>, <<eth, eth>>}
CallersAlike == Permutations(MCCallers)
=============================================================================
