------------------------------ MODULE PriceCache ------------------------------
(***************************************************************************)
(* CoinGeckoPricer (src/core/pricer.rs): calls that share one cache of coin   *)
(* prices behind a mutex, and fetch what is missing without holding it.       *)
(*                                                                           *)
(* A price is represented by the instant at which CoinGecko had it, so its    *)
(* age can be read off; what matters is which sample a quote is made from.    *)
(***************************************************************************)
EXTENDS Naturals, SequencesExt

CONSTANTS
    Coins,      \* coin ids of CoinGecko
    Pairs,      \* the input and output coins callers ask for
    Callers,    \* concurrent callers of Pricer::quote
    TTL,        \* how long a price is used from the cache
    MaxCall,    \* bound: no request takes longer than this
    Horizon     \* bound: the clock stops here

ASSUME PriceCacheAssumption ==
    /\ Pairs \subseteq Coins \X Coins
    /\ TTL \in Nat \ {0}
    /\ MaxCall \in Nat
    /\ Horizon \in Nat

VARIABLES
    clock,
    cache,   \* coin -> the entry, or NoEntry
    call     \* caller -> its current or last call of quote

vars == <<clock, cache, call>>

NoEntry == [sampled |-> 0, fetchedAt |-> 0, present |-> FALSE]
CacheEntry(sampled, fetchedAt) == [sampled |-> sampled, fetchedAt |-> fetchedAt, present |-> TRUE]

\* What a call holds at each of its steps: the coins and the time it began, the coins it
\* found missing in the order asked, the instant of CoinGecko's answer and the coins it has
\* prices for, and at the end the samples the quote was made from.
Idle == [at |-> "idle"]
Looking(coins, now) == [at |-> "look", coins |-> coins, now |-> now]
Asked(c, missing) == [at |-> "asked", coins |-> c.coins, now |-> c.now, missing |-> missing]
Fetched(c, known) == [at |-> "fetched", coins |-> c.coins, now |-> c.now,
                      missing |-> c.missing, sampled |-> clock, known |-> known]
Reading(c) == [at |-> "read", coins |-> c.coins, now |-> c.now]
Answered(c, in, out) ==
    [at |-> "answered", coins |-> c.coins, now |-> c.now, answer |-> <<in, out>>]

Init ==
    /\ clock = 0
    /\ cache = [c \in Coins |-> NoEntry]
    /\ call = [p \in Callers |-> Idle]

-----------------------------------------------------------------------------
FreshFor(c, now) == cache[c].present /\ now < cache[c].fetchedAt + TTL

\* quote for an input and an output coin, which may be the same.
Ask(p, coins) ==
    /\ call[p].at \in {"idle", "answered"}
    /\ call' = [call EXCEPT ![p] = Looking(coins, clock)]
    /\ UNCHANGED <<clock, cache>>

\* The coins without a fresh entry, each once, in the order they are asked for.
Missing(coins, now) ==
    LET first == IF FreshFor(coins[1], now) THEN <<>> ELSE <<coins[1]>> IN
    IF coins[2] = coins[1] \/ FreshFor(coins[2], now) THEN first ELSE Append(first, coins[2])

\* Under the lock: which of the coins have no fresh entry?
Look(p) ==
    LET c == call[p]  missing == Missing(c.coins, c.now) IN
    /\ c.at = "look"
    /\ call' = [call EXCEPT ![p] = IF missing = <<>> THEN Reading(c) ELSE Asked(c, missing)]
    /\ UNCHANGED <<clock, cache>>

\* CoinGecko answers for the coins it has prices for; its answer is under way.
Sample(p, known) ==
    /\ call[p].at = "asked"
    /\ known \subseteq Range(call[p].missing)
    /\ call' = [call EXCEPT ![p] = Fetched(@, known)]
    /\ UNCHANGED <<clock, cache>>

\* The request fails, or its answer is no price list.
FetchFails(p) ==
    /\ call[p].at = "asked"
    /\ call' = [call EXCEPT ![p] = Idle]
    /\ UNCHANGED <<clock, cache>>

\* The coins stored before the first one without a price.
Stored(c) ==
    {c.missing[i] : i \in {k \in 1..Len(c.missing) : \A n \in 1..k : c.missing[n] \in c.known}}

\* Mutation: an entry carries the time of its arrival.
StoreStampedLate(p) ==
    LET c == call[p] IN
    /\ c.at = "fetched"
    /\ cache' = [id \in Coins |-> IF id \in Stored(c) THEN CacheEntry(c.sampled, clock)
                                                      ELSE cache[id]]
    /\ call' = [call EXCEPT ![p] = IF Range(c.missing) = c.known THEN Reading(c) ELSE Idle]
    /\ UNCHANGED clock

\* Mutation: a missing price is passed over.
StorePartial(p) ==
    LET c == call[p] IN
    /\ c.at = "fetched"
    /\ cache' = [id \in Coins |-> IF id \in Stored(c) THEN CacheEntry(c.sampled, c.now)
                                                      ELSE cache[id]]
    /\ call' = [call EXCEPT ![p] = Reading(c)]
    /\ UNCHANGED clock

\* Under the lock again: the prices are stored over whatever is there by now, stamped with
\* the time before the request, until one is missing.
Store(p) ==
    LET c == call[p] IN
    /\ c.at = "fetched"
    /\ cache' = [id \in Coins |-> IF id \in Stored(c) THEN CacheEntry(c.sampled, c.now)
                                                      ELSE cache[id]]
    /\ call' = [call EXCEPT ![p] = IF Range(c.missing) = c.known THEN Reading(c) ELSE Idle]
    /\ UNCHANGED clock

\* Mutation: the lock is given back between the two prices, and the second comes from
\* another call's answer.
ReadTwice(p) ==
    LET c == call[p] IN
    /\ c.at = "read"
    /\ \E q \in Callers :
         LET later == IF call[q].at = "fetched" /\ c.coins[2] \in Stored(call[q])
                        THEN call[q].sampled ELSE cache[c.coins[2]].sampled
         IN call' = [call EXCEPT ![p] = Answered(c, cache[c.coins[1]].sampled, later)]
    /\ UNCHANGED <<clock, cache>>

\* Under the lock a third time: both prices as they are now, however old.
Read(p) ==
    LET c == call[p] IN
    /\ c.at = "read"
    /\ call' = [call EXCEPT ![p] =
                  Answered(c, cache[c.coins[1]].sampled, cache[c.coins[2]].sampled)]
    /\ UNCHANGED <<clock, cache>>

Busy(p) == call[p].at \in {"look", "asked", "fetched", "read"}

Tick ==
    /\ clock < Horizon
    /\ \A p \in Callers : Busy(p) => clock < call[p].now + MaxCall
    /\ clock' = clock + 1
    /\ UNCHANGED <<cache, call>>

Next ==
    \/ Tick
    \/ \E p \in Callers :
         \/ \E coins \in Pairs : Ask(p, coins)
         \/ Look(p) \/ FetchFails(p) \/ Store(p) \/ Read(p)
         \/ \E known \in SUBSET Coins : Sample(p, known)

Spec == Init /\ [][Next]_vars

-----------------------------------------------------------------------------
Instants == 0..Horizon

CacheOK ==
    \A c \in Coins : /\ cache[c] \in [sampled : Instants, fetchedAt : Instants, present : BOOLEAN]
                     /\ cache[c].fetchedAt <= cache[c].sampled

\* An entry is no newer than its price, and both entries are there when a call reads them.
TypeOK ==
    /\ clock \in Instants
    /\ CacheOK
    /\ \A p \in Callers :
         /\ call[p].at \in {"idle", "look", "asked", "fetched", "read", "answered"}
         /\ call[p].at = "read" => \A i \in 1..2 : cache[call[p].coins[i]].present

\* A quote is made from prices CoinGecko had less than a TTL before the call began, or
\* since a request began that was still under way then: a slow answer may replace a
\* newer entry between the look and the read, but nothing older than that is used.
PricesAreRecent ==
    \A p \in Callers : call[p].at = "answered" =>
        \A i \in 1..2 : \/ call[p].answer[i] + TTL > call[p].now
                        \/ call[p].answer[i] + MaxCall >= call[p].now

\* Input and output in the same coin are priced by the same sample, so their swap is one
\* to one whatever other calls store in between.
SameCoinSamePrice ==
    \A p \in Callers : call[p].at = "answered" /\ call[p].coins[1] = call[p].coins[2] =>
        call[p].answer[1] = call[p].answer[2]

-----------------------------------------------------------------------------
(***************************************************************************)
(* The inductive invariant behind PricesAreRecent and SameCoinSamePrice.      *)
(***************************************************************************)
Calls ==
    {Idle} \cup [at : {"look", "read"}, coins : Pairs, now : Instants]
    \cup [at : {"asked"}, coins : Pairs, now : Instants, missing : Seq(Coins)]
    \cup [at : {"fetched"}, coins : Pairs, now : Instants, missing : Seq(Coins),
          sampled : Instants, known : SUBSET Coins]
    \cup [at : {"answered"}, coins : Pairs, now : Instants, answer : Instants \X Instants]

\* The sample may serve a call that began at now.
Serves(sampled, now) == sampled + TTL > now \/ sampled + MaxCall >= now

\* The coin has an entry that may serve it, and no Store takes that back.
Served(id, now) == cache[id].present /\ Serves(cache[id].sampled, now)

\* A call began a while ago; what it does not ask for, or has stored, serves it; an answer
\* under way was made after the call began.
CallTimely(c) ==
    /\ c.at \in {"look", "asked", "fetched", "read"} => c.now <= clock /\ clock <= c.now + MaxCall
    /\ c.at \in {"asked", "fetched"} =>
         \A i \in 1..2 : c.coins[i] \in Range(c.missing) \/ Served(c.coins[i], c.now)
    /\ c.at = "fetched" => c.now <= c.sampled /\ c.sampled <= clock
                           /\ c.known \subseteq Range(c.missing)
    /\ c.at = "read" => \A i \in 1..2 : Served(c.coins[i], c.now)
    /\ c.at = "answered" => /\ \A i \in 1..2 : Serves(c.answer[i], c.now)
                            /\ c.coins[1] = c.coins[2] => c.answer[1] = c.answer[2]

CallsTimely ==
    /\ clock \in Instants
    /\ CacheOK /\ DOMAIN cache = Coins
    /\ call \in [Callers -> Calls]
    /\ \A p \in Callers : CallTimely(call[p])

=============================================================================
