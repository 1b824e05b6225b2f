--------------------------- MODULE PriceCacheProofs ---------------------------
(***************************************************************************)
(* Theorems about PriceCache for every number of callers and coins, every     *)
(* TTL and every bound on the duration of a request.                          *)
(*                                                                            *)
(* The inductive invariant is CallsTimely: what a call need not fetch is      *)
(* served by an entry, and no other call's Store takes that back, because a   *)
(* request that is under way began at most MaxCall ago (ServedStays).         *)
(***************************************************************************)
EXTENDS PriceCache, SequenceTheorems, TLAPS

-----------------------------------------------------------------------------
\* What a call holds at each of its steps.
LEMMA CallTyped ==
    ASSUME NEW c \in Calls
    PROVE  /\ c.at \in {"idle", "look", "asked", "fetched", "read", "answered"}
           /\ c.at # "idle" => c.coins \in Pairs /\ c.now \in Instants
           /\ c.at \in {"asked", "fetched"} => c.missing \in Seq(Coins)
           /\ c.at = "fetched" => c.sampled \in Instants /\ c.known \subseteq Coins
           /\ c.at = "answered" => c.answer \in Instants \X Instants
BY DEF Calls, Idle

\* The coins of a pair.
LEMMA PairTyped ==
    ASSUME NEW coins \in Pairs
    PROVE  coins[1] \in Coins /\ coins[2] \in Coins
BY PriceCacheAssumption

\* Instants are numbers.
LEMMA InstantsNat ==
    /\ Instants \subseteq Nat /\ Instants \subseteq Int
    /\ TTL \in Nat /\ MaxCall \in Nat /\ 0 \in Instants
BY PriceCacheAssumption DEF Instants

\* A second coin goes behind the first.
LEMMA TwoCoins ==
    ASSUME NEW a \in Coins, NEW b \in Coins
    PROVE  Append(<<a>>, b) = <<a, b>>
<1> DEFINE s == Append(<<a>>, b)
<1>1. <<a>> \in Seq(Coins) /\ <<a, b>> \in Seq(Coins) /\ s \in Seq(Coins)
  OBVIOUS
<1>2. Len(<<a, b>>) = 2 /\ Len(s) = 2
  BY <1>1
<1>3. s[1] = a /\ s[2] = b
  BY <1>1
<1>4. \A i \in 1..Len(s) : s[i] = <<a, b>>[i]
  BY <1>2, <1>3
<1> HIDE DEF s
<1>5. s = <<a, b>>
  BY <1>1, <1>2, <1>4, SeqEqual
<1> QED BY <1>5 DEF s

\* The missing coins are those without a fresh entry.
LEMMA MissingCoins ==
    ASSUME NEW coins \in Pairs, NEW now
    PROVE  /\ Missing(coins, now) \in Seq(Coins)
           /\ \A i \in 1..2 : coins[i] \in Range(Missing(coins, now)) \/ FreshFor(coins[i], now)
           /\ Missing(coins, now) = <<>> => \A i \in 1..2 : FreshFor(coins[i], now)
<1> DEFINE a == coins[1]
           b == coins[2]
<1>1. a \in Coins /\ b \in Coins
  BY PairTyped
<1>2. \/ Missing(coins, now) = <<>> /\ FreshFor(a, now) /\ FreshFor(b, now)
      \/ Missing(coins, now) = <<a>> /\ (FreshFor(b, now) \/ a = b)
      \/ Missing(coins, now) = <<b>> /\ FreshFor(a, now)
      \/ Missing(coins, now) = <<a, b>>
  <2>1. Append(<<>>, b) = <<b>>
    OBVIOUS
  <2>2. Append(<<a>>, b) = <<a, b>>
    BY <1>1, TwoCoins
  <2> QED BY <2>1, <2>2 DEF Missing
<1>3. /\ a \in Range(<<a>>) /\ b \in Range(<<b>>)
      /\ a \in Range(<<a, b>>) /\ b \in Range(<<a, b>>)
  BY <1>1 DEF Range
<1>4. <<a>> # <<>> /\ <<b>> # <<>> /\ <<a, b>> # <<>>
  OBVIOUS
<1>5. <<>> \in Seq(Coins) /\ <<a>> \in Seq(Coins) /\ <<b>> \in Seq(Coins) /\ <<a, b>> \in Seq(Coins)
  BY <1>1
<1>6. \A i \in 1..2 : coins[i] = a \/ coins[i] = b
  OBVIOUS
<1> HIDE DEF a, b
<1>7. Missing(coins, now) \in Seq(Coins)
  BY <1>2, <1>5
<1>8. \A i \in 1..2 : coins[i] \in Range(Missing(coins, now)) \/ FreshFor(coins[i], now)
  BY <1>2, <1>3, <1>6
<1>9. Missing(coins, now) = <<>> => \A i \in 1..2 : FreshFor(coins[i], now)
  BY <1>2, <1>4, <1>6
<1> QED BY <1>7, <1>8, <1>9

\* A fresh entry serves the call that finds it.
LEMMA FreshServes ==
    ASSUME CallsTimely, NEW id \in Coins, NEW now \in Instants, FreshFor(id, now)
    PROVE  Served(id, now)
<1>1. cache[id].sampled \in Nat /\ cache[id].fetchedAt \in Nat
      /\ cache[id].fetchedAt <= cache[id].sampled
  BY InstantsNat DEF CallsTimely, CacheOK
<1> QED BY <1>1, InstantsNat DEF FreshFor, Served, Serves

\* A call is timely as long as it is not overdue and what serves it goes on serving it.
LEMMA CallStays ==
    ASSUME NEW c \in Calls, CallTimely(c), clock \in Instants, clock' \in Instants,
           clock <= clock',
           c.at \in {"look", "asked", "fetched", "read"} => clock' <= c.now + MaxCall,
           \A id \in Coins, now \in Instants :
             now <= clock /\ Served(id, now) => Served(id, now)'
    PROVE  CallTimely(c)'
<1>1. c.at # "idle" => /\ c.now \in Instants
                       /\ \A i \in 1..2 : c.coins[i] \in Coins
  BY CallTyped, PairTyped
<1>3. c.at \in {"look", "asked", "fetched", "read"} => c.now <= clock
  BY DEF CallTimely
<1>a. /\ clock \in Int /\ clock' \in Int /\ MaxCall \in Int
      /\ c.at # "idle" => c.now \in Int
  <2>1. clock \in Int /\ clock' \in Int
    BY InstantsNat
  <2>2. MaxCall \in Int
    BY InstantsNat
  <2>3. c.at # "idle" => c.now \in Int
    BY <1>1, InstantsNat
  <2> QED BY <2>1, <2>2, <2>3
<1>2. c.at \in {"look", "asked", "fetched", "read"}
        => c.now <= clock' /\ clock' <= c.now + MaxCall
  BY <1>3, <1>a
<1>4. c.at \in {"asked", "fetched"} =>
        \A i \in 1..2 : c.coins[i] \in Range(c.missing) \/ Served(c.coins[i], c.now)'
  BY <1>1, <1>3 DEF CallTimely
<1>5. c.at = "fetched" => c.now <= c.sampled /\ c.sampled <= clock'
                          /\ c.known \subseteq Range(c.missing)
  <2>1. c.at = "fetched" => c.now <= c.sampled /\ c.sampled <= clock
                            /\ c.known \subseteq Range(c.missing)
    BY DEF CallTimely
  <2>2. c.at = "fetched" => c.sampled \in Int
    BY CallTyped, InstantsNat
  <2> QED BY <1>a, <2>1, <2>2
<1>6. c.at = "read" => \A i \in 1..2 : Served(c.coins[i], c.now)'
  BY <1>1, <1>3 DEF CallTimely
<1>7. c.at = "answered" => /\ \A i \in 1..2 : Serves(c.answer[i], c.now)
                           /\ c.coins[1] = c.coins[2] => c.answer[1] = c.answer[2]
  BY DEF CallTimely
<1> QED BY <1>2, <1>4, <1>5, <1>6, <1>7 DEF CallTimely, Serves

\* A step of one caller that leaves the cache alone needs a timely call.
LEMMA CallMoves ==
    ASSUME CallsTimely, NEW p \in Callers, NEW c \in Calls, CallTimely(c),
           call' = [call EXCEPT ![p] = c], UNCHANGED <<clock, cache>>
    PROVE  CallsTimely'
<1>1. call' \in [Callers -> Calls]
  BY DEF CallsTimely
<1>2. \A q \in Callers : CallTimely(call'[q])
  BY DEF CallsTimely
<1> QED BY <1>1, <1>2 DEF CallsTimely, CallTimely, CacheOK, Served

-----------------------------------------------------------------------------
(***************************************************************************)
(* The steps.                                                                 *)
(***************************************************************************)

\* A caller asks: its call begins now.
LEMMA AskKeeps ==
    ASSUME CallsTimely, NEW p \in Callers, NEW coins \in Pairs, Ask(p, coins)
    PROVE  CallsTimely'
<1>1. Looking(coins, clock) \in Calls
  BY DEF Looking, Calls, CallsTimely
<1>2. CallTimely(Looking(coins, clock))
  <2>1. clock <= clock /\ clock <= clock + MaxCall
    BY InstantsNat DEF CallsTimely
  <2> QED BY <2>1 DEF Looking, CallTimely
<1> QED BY <1>1, <1>2, CallMoves DEF Ask

\* A caller looks: what it does not find fresh it asks for.
LEMMA LookKeeps ==
    ASSUME CallsTimely, NEW p \in Callers, Look(p)
    PROVE  CallsTimely'
<1>1. PICK c \in Calls : c = call[p] /\ CallTimely(c) /\ c.at = "look"
  BY DEF CallsTimely, Look
<1>2. c.coins \in Pairs /\ c.now \in Instants /\ c.coins[1] \in Coins /\ c.coins[2] \in Coins
  BY <1>1, CallTyped, PairTyped
<1>3. PICK m : m = Missing(c.coins, c.now)
  OBVIOUS
<1>4. /\ m \in Seq(Coins)
      /\ \A i \in 1..2 : c.coins[i] \in Range(m) \/ Served(c.coins[i], c.now)
      /\ m = <<>> => \A i \in 1..2 : Served(c.coins[i], c.now)
  BY <1>2, <1>3, MissingCoins, FreshServes
<1>5. c.now <= clock /\ clock <= c.now + MaxCall
  BY <1>1 DEF CallTimely
<1>6. Reading(c) \in Calls /\ Asked(c, m) \in Calls
  BY <1>2, <1>4 DEF Reading, Asked, Calls
<1>7. CallTimely(Asked(c, m))
  BY <1>4, <1>5 DEF Asked, CallTimely
<1>8. m = <<>> => CallTimely(Reading(c))
  BY <1>4, <1>5 DEF Reading, CallTimely
<1> QED BY <1>1, <1>3, <1>6, <1>7, <1>8, CallMoves DEF Look

\* CoinGecko answers.
LEMMA SampleKeeps ==
    ASSUME CallsTimely, NEW p \in Callers, NEW known \in SUBSET Coins, Sample(p, known)
    PROVE  CallsTimely'
<1>1. PICK c \in Calls : c = call[p] /\ CallTimely(c) /\ c.at = "asked"
  BY DEF CallsTimely, Sample
<1>2. /\ c.coins \in Pairs /\ c.now \in Instants /\ c.missing \in Seq(Coins)
      /\ clock \in Instants
  BY <1>1, CallTyped DEF CallsTimely
<1>3. /\ c.now <= clock /\ clock <= c.now + MaxCall
      /\ \A i \in 1..2 : c.coins[i] \in Range(c.missing) \/ Served(c.coins[i], c.now)
  BY <1>1 DEF CallTimely
<1>4. known \subseteq Range(c.missing) /\ call' = [call EXCEPT ![p] = Fetched(c, known)]
  BY <1>1 DEF Sample, CallsTimely
<1>5. Fetched(c, known) \in Calls
  BY <1>2 DEF Fetched, Calls
<1>6. CallTimely(Fetched(c, known))
  <2>1. clock <= clock
    BY <1>2, InstantsNat
  <2> QED BY <1>3, <1>4, <2>1 DEF Fetched, CallTimely
<1> QED BY <1>4, <1>5, <1>6, CallMoves DEF Sample

\* A request fails.
LEMMA FailKeeps ==
    ASSUME CallsTimely, NEW p \in Callers, FetchFails(p)
    PROVE  CallsTimely'
<1>1. Idle \in Calls /\ CallTimely(Idle)
  BY DEF Idle, Calls, CallTimely
<1> QED BY <1>1, CallMoves DEF FetchFails

\* A quote is made from the entries of both coins.
LEMMA ReadKeeps ==
    ASSUME CallsTimely, NEW p \in Callers, Read(p)
    PROVE  CallsTimely'
<1>1. PICK c \in Calls : c = call[p] /\ CallTimely(c) /\ c.at = "read"
  BY DEF CallsTimely, Read
<1>2. c.coins \in Pairs /\ c.now \in Instants /\ c.coins[1] \in Coins /\ c.coins[2] \in Coins
  BY <1>1, CallTyped, PairTyped
<1>3. PICK in \in Instants, out \in Instants :
        in = cache[c.coins[1]].sampled /\ out = cache[c.coins[2]].sampled
  BY <1>2 DEF CallsTimely, CacheOK
<1>4. Serves(in, c.now) /\ Serves(out, c.now)
  BY <1>1, <1>3 DEF CallTimely, Served
<1>5. Answered(c, in, out) \in Calls
  BY <1>2, <1>3 DEF Answered, Calls
<1>6. CallTimely(Answered(c, in, out))
  <2>1. c.coins[1] = c.coins[2] => in = out
    BY <1>3
  <2>2. \A i \in 1..2 : Serves(<<in, out>>[i], c.now)
    BY <1>4
  <2> QED BY <2>1, <2>2 DEF Answered, CallTimely
<1> QED BY <1>1, <1>3, <1>5, <1>6, CallMoves DEF Read

\* With the cache as it is, what serves a call goes on serving it.
LEMMA ServedSame ==
    ASSUME cache' = cache
    PROVE  \A id, now : Served(id, now) => Served(id, now)'
BY DEF Served, Serves

\* An answer that is stored over an entry serves every call that began before: the request
\* was not under way for longer than MaxCall.
LEMMA ServedStays ==
    ASSUME CallsTimely, NEW p \in Callers, Store(p)
    PROVE  /\ \A id \in Stored(call[p]) : \A now \in Instants : now <= clock => Served(id, now)'
           /\ \A id \in Coins, now \in Instants :
                now <= clock /\ Served(id, now) => Served(id, now)'
           /\ CacheOK' /\ DOMAIN cache' = Coins
<1>1. PICK c \in Calls : c = call[p] /\ CallTimely(c) /\ c.at = "fetched"
  BY DEF CallsTimely, Store
<1>2. /\ c.now \in Instants /\ c.sampled \in Instants /\ c.missing \in Seq(Coins)
      /\ clock \in Instants
  BY <1>1, CallTyped DEF CallsTimely
<1>3. c.now <= c.sampled /\ clock <= c.now + MaxCall
  BY <1>1 DEF CallTimely
<1>4. /\ \A id \in Coins : cache'[id] = IF id \in Stored(c) THEN CacheEntry(c.sampled, c.now)
                                                            ELSE cache[id]
      /\ DOMAIN cache' = Coins
  BY <1>1 DEF Store
<1>5. Stored(c) \subseteq Coins
  BY <1>2, LenProperties DEF Stored
<1>6. /\ CacheEntry(c.sampled, c.now).present /\ CacheEntry(c.sampled, c.now).sampled = c.sampled
      /\ CacheEntry(c.sampled, c.now).fetchedAt = c.now
      /\ CacheEntry(c.sampled, c.now) \in
           [sampled : Instants, fetchedAt : Instants, present : BOOLEAN]
  BY <1>2 DEF CacheEntry
<1>7. ASSUME NEW now \in Instants, now <= clock PROVE Serves(c.sampled, now)
  <2>1. now \in Int /\ clock \in Int
    BY <1>2, InstantsNat
  <2>2. c.sampled \in Int /\ c.now \in Int
    BY <1>2, InstantsNat
  <2>3. MaxCall \in Int
    BY InstantsNat
  <2> QED BY <1>3, <1>7, <2>1, <2>2, <2>3 DEF Serves
<1>8. ASSUME NEW id \in Stored(c), NEW now \in Instants, now <= clock PROVE Served(id, now)'
  <2>1. cache'[id].present /\ cache'[id].sampled = c.sampled
    BY <1>4, <1>5, <1>6
  <2> QED BY <1>7, <1>8, <2>1 DEF Served, Serves
<1>9. ASSUME NEW id \in Coins, NEW now \in Instants, now <= clock, Served(id, now)
      PROVE  Served(id, now)'
  <2>1. CASE id \in Stored(c)
    BY <1>8, <1>9, <2>1
  <2>2. CASE id \notin Stored(c)
    BY <1>4, <1>9, <2>2 DEF Served, Serves
  <2> QED BY <2>1, <2>2
<1>10. CacheOK'
  BY <1>3, <1>4, <1>6 DEF CacheOK, CallsTimely
<1> QED BY <1>1, <1>4, <1>8, <1>9, <1>10

\* An answer is stored.
LEMMA StoreKeeps ==
    ASSUME CallsTimely, NEW p \in Callers, Store(p)
    PROVE  CallsTimely'
<1>1. PICK c \in Calls : c = call[p] /\ CallTimely(c) /\ c.at = "fetched"
  BY DEF CallsTimely, Store
<1>2. /\ c.coins \in Pairs /\ c.now \in Instants /\ c.missing \in Seq(Coins)
      /\ c.coins[1] \in Coins /\ c.coins[2] \in Coins
  BY <1>1, CallTyped, PairTyped
<1>3. /\ c.now <= clock /\ clock <= c.now + MaxCall
      /\ \A i \in 1..2 : c.coins[i] \in Range(c.missing) \/ Served(c.coins[i], c.now)
  BY <1>1 DEF CallTimely
<1>4. PICK d : /\ call' = [call EXCEPT ![p] = d] /\ clock' = clock
               /\ d = IF Range(c.missing) = c.known THEN Reading(c) ELSE Idle
  BY <1>1 DEF Store
<1>5. d \in Calls
  BY <1>2, <1>4 DEF Reading, Idle, Calls
<1>6. CallTimely(d)'
  <2>1. CASE Range(c.missing) = c.known
    <3>1. \A id \in Range(c.missing) : id \in Stored(c)
      <4>1. \A i \in 1..Len(c.missing) : c.missing[i] \in c.known
        BY <1>2, <2>1, LenProperties DEF Range
      <4>2. DOMAIN c.missing = 1..Len(c.missing) /\ Len(c.missing) \in Nat
        BY <1>2, LenProperties
      <4>3. \A i \in 1..Len(c.missing) : \A n \in 1..i : n \in 1..Len(c.missing)
        BY <4>2
      <4> QED BY <4>1, <4>2, <4>3 DEF Range, Stored
    <3>2. \A i \in 1..2 : Served(c.coins[i], c.now)'
      BY <1>1, <1>2, <1>3, <3>1, ServedStays
    <3> QED BY <1>3, <1>4, <2>1, <3>2 DEF Reading, CallTimely
  <2>2. CASE Range(c.missing) # c.known
    BY <1>4, <2>2 DEF Idle, CallTimely
  <2> QED BY <2>1, <2>2
<1>7. ASSUME NEW q \in Callers, q # p PROVE CallTimely(call[q])'
  <2>1. PICK e \in Calls : e = call[q] /\ e = call'[q] /\ CallTimely(e)
    BY <1>4, <1>7 DEF CallsTimely
  <2>2. clock \in Instants /\ clock' \in Instants /\ clock <= clock'
    BY <1>4, InstantsNat DEF CallsTimely
  <2>3. e.at \in {"look", "asked", "fetched", "read"} => clock' <= e.now + MaxCall
    BY <1>4, <2>1 DEF CallTimely
  <2>4. CallTimely(e)'
    BY <2>1, <2>2, <2>3, CallStays, ServedStays
  <2> QED BY <2>1, <2>4 DEF CallTimely
<1>8. call' \in [Callers -> Calls] /\ call'[p] = d
  BY <1>4, <1>5 DEF CallsTimely
<1>9. \A q \in Callers : CallTimely(call[q])'
  BY <1>6, <1>7, <1>8 DEF CallTimely
<1>10. clock' \in Instants /\ CacheOK' /\ DOMAIN cache' = Coins
  BY <1>4, ServedStays DEF CallsTimely
<1> QED BY <1>8, <1>9, <1>10 DEF CallsTimely

\* Time passes, unless a request is overdue.
LEMMA TickKeeps ==
    ASSUME CallsTimely, Tick
    PROVE  CallsTimely'
<1>1. clock \in Nat /\ clock' = clock + 1 /\ clock' \in Instants
  BY PriceCacheAssumption, InstantsNat DEF CallsTimely, Tick, Instants
<1>2. ASSUME NEW q \in Callers PROVE CallTimely(call[q])'
  <2>1. PICK e \in Calls : e = call[q] /\ e = call'[q] /\ CallTimely(e)
    BY DEF CallsTimely, Tick
  <2>2. e.at \in {"look", "asked", "fetched", "read"} => clock' <= e.now + MaxCall
    <3>1. e.at # "idle" => e.now \in Int
      BY CallTyped, InstantsNat
    <3>2. e.at \in {"look", "asked", "fetched", "read"} => clock < e.now + MaxCall
      BY <2>1 DEF Tick, Busy
    <3>3. MaxCall \in Int
      BY InstantsNat
    <3> QED BY <1>1, <3>1, <3>2, <3>3
  <2>3. clock \in Instants /\ clock <= clock'
    BY <1>1 DEF CallsTimely
  <2>4. CallTimely(e)'
    <3>1. \A id, now : Served(id, now) => Served(id, now)'
      BY ServedSame DEF Tick
    <3> QED BY <1>1, <2>1, <2>2, <2>3, <3>1, CallStays
  <2> QED BY <2>1, <2>4 DEF CallTimely
<1> QED BY <1>1, <1>2 DEF CallsTimely, Tick, CacheOK

-----------------------------------------------------------------------------
(***************************************************************************)
(* The theorems.                                                              *)
(***************************************************************************)

\* What a call relies on is there when it reads it, whoever stores what in between.
THEOREM CallsAreTimely == Spec => []CallsTimely
<1>1. Init => CallsTimely
  <2>1. Idle \in Calls /\ CallTimely(Idle)
    BY DEF Idle, Calls, CallTimely
  <2>2. NoEntry \in [sampled : Instants, fetchedAt : Instants, present : BOOLEAN]
        /\ NoEntry.fetchedAt <= NoEntry.sampled
    BY InstantsNat DEF NoEntry
  <2> QED BY <2>1, <2>2, InstantsNat DEF Init, CallsTimely, CacheOK
<1>2. CallsTimely /\ [Next]_vars => CallsTimely'
  <2> SUFFICES ASSUME CallsTimely, [Next]_vars PROVE CallsTimely'
    OBVIOUS
  <2>1. CASE UNCHANGED vars
    BY <2>1 DEF vars, CallsTimely, CallTimely, CacheOK, Served
  <2>2. ASSUME NEW p \in Callers, NEW coins \in Pairs, Ask(p, coins) PROVE CallsTimely'
    BY <2>2, AskKeeps
  <2>3. ASSUME NEW p \in Callers, Look(p) \/ FetchFails(p) \/ Store(p) \/ Read(p)
        PROVE  CallsTimely'
    BY <2>3, LookKeeps, FailKeeps, StoreKeeps, ReadKeeps
  <2>4. ASSUME NEW p \in Callers, NEW known \in SUBSET Coins, Sample(p, known)
        PROVE  CallsTimely'
    BY <2>4, SampleKeeps
  <2> QED BY <2>1, <2>2, <2>3, <2>4, TickKeeps DEF Next
<1> QED BY <1>1, <1>2, PTL DEF Spec

\* The cache and the calls hold what the code can put there; both entries are present
\* whenever a call reads them, so a quote never ends in MissingPrice after its fetch.
THEOREM TypeCorrect == Spec => []TypeOK
<1>1. CallsTimely => TypeOK
  <2> SUFFICES ASSUME CallsTimely PROVE TypeOK
    OBVIOUS
  <2>1. ASSUME NEW p \in Callers
        PROVE  /\ call[p].at \in {"idle", "look", "asked", "fetched", "read", "answered"}
               /\ call[p].at = "read" => \A i \in 1..2 : cache[call[p].coins[i]].present
    BY CallTyped DEF CallsTimely, CallTimely, Served
  <2> QED BY <2>1 DEF CallsTimely, TypeOK
<1> QED BY <1>1, CallsAreTimely, PTL

\* A quote is made from prices less than a TTL old when its call began, or no older than a
\* request that was still under way then.
THEOREM RecentPrices == Spec => []PricesAreRecent
<1>1. CallsTimely => PricesAreRecent
  BY DEF CallsTimely, CallTimely, Serves, PricesAreRecent
<1> QED BY <1>1, CallsAreTimely, PTL

\* Input and output in the same coin are priced by the same sample.
THEOREM OnePricePerCoin == Spec => []SameCoinSamePrice
<1>1. CallsTimely => SameCoinSamePrice
  BY DEF CallsTimely, CallTimely, SameCoinSamePrice
<1> QED BY <1>1, CallsAreTimely, PTL
=============================================================================
