------------------------- MODULE MidenBootstrapProofs -------------------------
(***************************************************************************)
(* Theorems about MidenBootstrap for every list of assets and every number    *)
(* of failures.                                                              *)
(*                                                                           *)
(* The invariants are split by what they are about: Positions and Faucets     *)
(* (the process and what it has written down), Ledgers (what accounts are),   *)
(* MintedOnce (an asset whose last mint was not orphaned is found again) and  *)
(* FundedOn (an asset the run has passed is on the network).                  *)
(***************************************************************************)
EXTENDS MidenBootstrap, SequenceTheorems, TLAPS

\* The process: its place, and how far it is in Assets.
Positions ==
    /\ at \in {"off", "wallet", "deployWait", "faucet", "record", "fund", "consume",
               "consumeWait", "asset", "mintWait", "up"}
    /\ step \in 1..(Len(Assets) + 1)
    /\ at \in {"off", "wallet", "deployWait", "up"} => step = 1
    /\ at \in {"faucet", "mintWait"} => step <= Len(Assets)

\* The faucets: a run that makes them has the keys of those it made, and they are written
\* down before anything is minted.
Faucets ==
    /\ made \in Nat /\ held \subseteq 1..made
    /\ record = NoRecord \/ record \in [Kinds -> 1..made]
    /\ at \in {"faucet", "record"} => record = NoRecord
    /\ at = "faucet" => step - 1 <= made /\ \A i \in 1..(step - 1) : made + 1 - i \in held
    /\ at = "record" => Len(Assets) <= made /\ \A i \in 1..Len(Assets) : made + 1 - i \in held
    /\ at \in {"fund", "consume", "consumeWait", "asset", "mintWait", "up"} =>
         record # NoRecord

\* The failures.
Counted ==
    /\ failures \in 0..MaxFailures
    /\ orphaned \in [Kinds -> Nat]
    /\ \A a \in Kinds : orphaned[a] <= failures

Notes == Kinds \X Nat
TxsOf(x) == IF x = "wallet" THEN SUBSET Notes ELSE Notes
Ledger(f) ==
    /\ f = [x \in Accounts |-> f[x]]
    /\ \A x \in Accounts : f[x] \in Seq(TxsOf(x))

Typed == Ledger(store) /\ Ledger(chain) /\ Ledger(pool)

\* The accounts: a faucet numbers its notes, it has none before it is recorded, and the
\* wallet consumes committed notes only.
Numbered(a, txs) == \A k \in 1..Len(txs) : txs[k] = <<a, k>>
Ledgers ==
    /\ \A a \in Kinds : Numbered(a, Latest(a))
    /\ record = NoRecord => \A a \in Kinds : Latest(a) = <<>>
    /\ \A n \in Consumed(Latest("wallet")) : \E a \in Kinds : n \in Range(chain[a])

\* The store has every transaction of the wallet the network may keep.
WalletKept ==
    \/ store["wallet"] = Latest("wallet")
    \/ pool["wallet"] = <<>> /\ IsPrefix(chain["wallet"], store["wallet"])

\* As many mints of an asset as may be, and the faucet's key in the store.
Minted(a) ==
    /\ record # NoRecord /\ record[a] \in held
    /\ Len(Latest(a)) = 1 + orphaned[a]

\* Then the store knows them, nothing of the asset is in flight but in the wait for its
\* mint, and the last one is consumed where the balance is read.
Found(a) ==
    LET last == <<a, Len(Latest(a))>> IN
    /\ store[a] = Latest(a)
    /\ pool[a] # <<>> => at = "mintWait" /\ Assets[step] = a
    /\ last \in Consumed(Latest("wallet")) => WalletKept
    /\ at \in {"consumeWait", "asset"} => last \in Consumed(store["wallet"])

MintedOnce(a) ==
    /\ Len(Latest(a)) <= 1 + orphaned[a]
    /\ Minted(a) => Found(a)

\* The run has passed the asset.
Passed(a) == \E j \in 1..(step - 1) : Assets[j] = a

\* Unless something of it was orphaned: a transaction of the wallet is in flight only in
\* the wait for it, and an asset the run has passed is held on the network, or one of its
\* notes is there to consume, or its consumption is waited for.
FundedOn(a) ==
    /\ pool["wallet"] # <<>> =>
         at \in {"deployWait", "consumeWait"} /\ store["wallet"] = Latest("wallet")
    /\ at = "asset" => IsPrefix(store["wallet"], chain["wallet"])
    /\ at = "mintWait" => store[Assets[step]] # <<>>
    /\ at = "consume" /\ Passed(a) =>
         \/ Holds(a, chain["wallet"])
         \/ store[a] # <<>> /\ IsPrefix(store[a], chain[a])
    /\ at = "consumeWait" /\ Passed(a) =>
         Holds(a, chain["wallet"]) \/ Holds(a, store["wallet"])
    /\ at \in {"asset", "mintWait"} /\ Passed(a) => Holds(a, chain["wallet"])
    /\ at = "up" => Holds(a, chain["wallet"])

AllMintedOnce == \A a \in Kinds : MintedOnce(a)
AllFundedOn == \A a \in Kinds : orphaned[a] = 0 => FundedOn(a)

-----------------------------------------------------------------------------
\* Sequences of transactions.

\* A prefix, by its positions.
LEMMA PrefixIndex ==
    ASSUME NEW S, NEW s \in Seq(S), NEW t \in Seq(S)
    PROVE  IsPrefix(s, t) <=> Len(s) <= Len(t) /\ \A i \in 1..Len(s) : s[i] = t[i]
<1>1. Len(s) \in Nat /\ Len(t) \in Nat
  BY LenProperties
<1>2. SubSeq(s, 1, Len(s)) = s
  BY SubSeqFull
<1>3. ASSUME Len(s) <= Len(t)
      PROVE  /\ SubSeq(t, 1, Len(s)) \in Seq(S)
             /\ Len(SubSeq(t, 1, Len(s))) = Len(s)
             /\ \A i \in 1..Len(s) : SubSeq(t, 1, Len(s))[i] = t[i]
  <2> DEFINE n == Len(s)
  <2>1. n \in Nat /\ n <= Len(t)
    BY <1>1, <1>3
  <2>2. \A i \in 1..n : t[i] \in S
    BY <2>1, LenProperties, ElementOfSeq
  <2> HIDE DEF n
  <2>3. /\ SubSeq(t, 1, n) \in Seq(S)
        /\ Len(SubSeq(t, 1, n)) = IF 1 <= n THEN n - 1 + 1 ELSE 0
        /\ \A i \in 1..n-1+1 : SubSeq(t, 1, n)[i] = t[1+i-1]
    BY <2>1, <2>2, SubSeqProperties
  <2>4. Len(SubSeq(t, 1, n)) = n
    BY <2>1, <2>3
  <2>5. \A i \in 1..n : SubSeq(t, 1, n)[i] = t[i]
    BY <2>1, <2>3
  <2> QED BY <2>3, <2>4, <2>5 DEF n
<1>4. ASSUME Len(s) <= Len(t), \A i \in 1..Len(s) : s[i] = t[i]
      PROVE  s = SubSeq(t, 1, Len(s))
  BY <1>3, <1>4, SeqEqual
<1>5. ASSUME Len(s) <= Len(t), s = SubSeq(t, 1, Len(s))
      PROVE  \A i \in 1..Len(s) : s[i] = t[i]
  BY <1>3, <1>5
<1> QED BY <1>2, <1>4, <1>5 DEF IsPrefix

\* What is in a sequence.
LEMMA InRange ==
    ASSUME NEW S, NEW s \in Seq(S), NEW e
    PROVE  e \in Range(s) <=> \E i \in 1..Len(s) : s[i] = e
BY LenProperties DEF Range

\* Prefixes are ordered, and a prefix holds no more than the whole.
LEMMA PrefixFacts ==
    ASSUME NEW S, NEW s \in Seq(S), NEW t \in Seq(S)
    PROVE  /\ IsPrefix(s, s) /\ IsPrefix(s, s \o t)
           /\ IsPrefix(s, t) => Range(s) \subseteq Range(t)
           /\ IsPrefix(s, t) /\ IsPrefix(t, s) => s = t
           /\ IsPrefix(s \o t, s) => t = <<>>
<1>1. Len(s) \in Nat /\ Len(t) \in Nat
  BY LenProperties
<1>2. IsPrefix(s, s)
  BY <1>1, PrefixIndex
<1>3. s \o t \in Seq(S) /\ Len(s \o t) = Len(s) + Len(t)
      /\ \A i \in 1..Len(s) : (s \o t)[i] = s[i]
  BY <1>1, ConcatProperties
<1>4. IsPrefix(s, s \o t)
  <2> DEFINE u == s \o t
  <2>1. u \in Seq(S) /\ Len(s) <= Len(u) /\ \A i \in 1..Len(s) : s[i] = u[i]
    BY <1>1, <1>3
  <2> HIDE DEF u
  <2>2. IsPrefix(s, u)
    BY <2>1, PrefixIndex
  <2> QED BY <2>2 DEF u
<1>5. ASSUME IsPrefix(s, t)
      PROVE  Range(s) \subseteq Range(t)
  <2>1. Len(s) <= Len(t) /\ \A i \in 1..Len(s) : s[i] = t[i]
    BY <1>5, PrefixIndex
  <2> QED BY <1>1, <2>1, InRange
<1>6. ASSUME IsPrefix(s, t), IsPrefix(t, s)
      PROVE  s = t
  <2>1. Len(s) <= Len(t) /\ Len(t) <= Len(s) /\ \A i \in 1..Len(s) : s[i] = t[i]
    BY <1>6, PrefixIndex
  <2> QED BY <1>1, <2>1, SeqEqual
<1>7. ASSUME IsPrefix(s \o t, s)
      PROVE  t = <<>>
  <2>1. Len(s) + Len(t) <= Len(s)
    BY <1>3, <1>7, PrefixIndex
  <2> QED BY <1>1, <2>1, EmptySeq
<1> QED BY <1>2, <1>4, <1>5, <1>6, <1>7

\* A prefix of a prefix.
LEMMA PrefixChain ==
    ASSUME NEW S, NEW s \in Seq(S), NEW t \in Seq(S), NEW u \in Seq(S),
           IsPrefix(s, t), IsPrefix(t, u)
    PROVE  IsPrefix(s, u)
<1>1. Len(s) \in Nat /\ Len(t) \in Nat /\ Len(u) \in Nat
  BY LenProperties
<1>2. /\ Len(s) <= Len(t) /\ \A i \in 1..Len(s) : s[i] = t[i]
      /\ Len(t) <= Len(u) /\ \A i \in 1..Len(t) : t[i] = u[i]
  BY PrefixIndex
<1> QED BY <1>1, <1>2, PrefixIndex

\* One more transaction.
LEMMA AppendFacts ==
    ASSUME NEW S, NEW c \in Seq(S), NEW p \in Seq(S), NEW e \in S
    PROVE  /\ c \o Append(p, e) = Append(c \o p, e)
           /\ Range(Append(c, e)) = Range(c) \cup {e}
           /\ IsPrefix(c, Append(c, e))
<1>1. Append(p, e) = p \o <<e>> /\ Append(c \o p, e) = (c \o p) \o <<e>>
      /\ Append(c, e) = c \o <<e>>
  BY AppendIsConcat, ConcatProperties
<1> DEFINE u == <<e>>
<1>2. u \in Seq(S) /\ Len(u) = 1 /\ u[1] = e
  OBVIOUS
<1> HIDE DEF u
<1>3. Range(u) = {e}
  <2>1. \A f : f \in Range(u) <=> \E i \in 1..1 : u[i] = f
    BY <1>2, InRange
  <2> QED BY <1>2, <2>1
<1>4. c \o Append(p, e) = Append(c \o p, e)
  BY <1>1, <1>2, ConcatAssociative DEF u
<1>5. Range(Append(c, e)) = Range(c) \cup {e}
  <2>1. Range(c \o u) = Range(c) \cup Range(u)
    BY <1>2, RangeConcatenation
  <2> QED BY <1>1, <1>3, <2>1 DEF u
<1>6. IsPrefix(c, Append(c, e))
  <2>1. IsPrefix(c, c \o u)
    BY <1>2, PrefixFacts
  <2> QED BY <1>1, <2>1 DEF u
<1> QED BY <1>4, <1>5, <1>6

\* A transaction that is committed.
LEMMA CommitFacts ==
    ASSUME NEW S, NEW c \in Seq(S), NEW p \in Seq(S), p # <<>>
    PROVE  /\ Head(p) \in S /\ Tail(p) \in Seq(S) /\ Append(c, Head(p)) \in Seq(S)
           /\ Append(c, Head(p)) \o Tail(p) = c \o p
<1>1. Head(p) \in S /\ Tail(p) \in Seq(S) /\ Append(c, Head(p)) \in Seq(S)
  BY HeadTailProperties, AppendProperties
<1>2. <<Head(p)>> \in Seq(S)
  BY <1>1
<1>3. <<Head(p)>> \o Tail(p) \in Seq(S)
  BY <1>1, <1>2, ConcatProperties
<1>4. Len(p) \in Nat /\ Len(p) > 0 /\ Len(Tail(p)) = Len(p) - 1
      /\ \A i \in 1..Len(Tail(p)) : Tail(p)[i] = p[i + 1]
  BY HeadTailProperties, EmptySeq
<1>5. Head(p) = p[1]
  OBVIOUS
<1>6. p = <<Head(p)>> \o Tail(p)
  <2> DEFINE h == <<Head(p)>>
             u == Tail(p)
  <2>1. Len(h) = 1 /\ h[1] = p[1]
    BY <1>5
  <2>2. h \in Seq(S) /\ u \in Seq(S) /\ Len(u) = Len(p) - 1 /\ h \o u \in Seq(S)
    BY <1>1, <1>2, <1>3, <1>4
  <2>3. \A i \in 1..Len(u) : u[i] = p[i + 1]
    BY <1>4
  <2> HIDE DEF h, u
  <2>4. Len(h \o u) = Len(h) + Len(u)
        /\ \A i \in 1..Len(h) + Len(u) :
             (h \o u)[i] = IF i <= Len(h) THEN h[i] ELSE u[i - Len(h)]
    BY <2>2, ConcatProperties
  <2>5. Len(h \o u) = Len(p)
    BY <1>4, <2>1, <2>2, <2>4
  <2>6. \A i \in 1..Len(p) : (h \o u)[i] = p[i]
    BY <1>4, <2>1, <2>2, <2>3, <2>4
  <2>7. p = h \o u
    BY <2>2, <2>5, <2>6, SeqEqual
  <2> QED BY <2>7 DEF h, u
<1>7. Append(c, Head(p)) = c \o <<Head(p)>>
  BY <1>1, AppendIsConcat
<1>8. (c \o <<Head(p)>>) \o Tail(p) = c \o (<<Head(p)>> \o Tail(p))
  BY <1>1, <1>2, ConcatAssociative
<1> QED BY <1>1, <1>6, <1>7, <1>8

\* What transactions of the wallet consume.
LEMMA ConsumedFacts ==
    ASSUME NEW S, NEW s \in Seq(S), NEW t \in Seq(S)
    PROVE  /\ IsPrefix(s, t) => Consumed(s) \subseteq Consumed(t)
           /\ \A e \in S : Consumed(Append(s, e)) = Consumed(s) \cup e
           /\ Consumed(s) \subseteq Consumed(s \o t)
           /\ Consumed(<<>>) = {}
<1>1. IsPrefix(s, t) => Consumed(s) \subseteq Consumed(t)
  BY PrefixFacts DEF Consumed
<1>2. \A e \in S : Consumed(Append(s, e)) = Consumed(s) \cup e
  BY AppendFacts DEF Consumed
<1>3. Consumed(s) \subseteq Consumed(s \o t)
  BY RangeConcatenation DEF Consumed
<1>4. Consumed(<<>>) = {}
  <2>1. Range(<<>>) = {}
    BY DEF Range
  <2> QED BY <2>1 DEF Consumed
<1> QED BY <1>1, <1>2, <1>3, <1>4

-----------------------------------------------------------------------------
\* The process.

\* The assets and the accounts.
LEMMA AccountsKnown ==
    /\ Len(Assets) \in Nat \ {0}
    /\ \A i \in 1..Len(Assets) : Assets[i] \in Kinds
    /\ \A a \in Kinds : \E i \in 1..Len(Assets) : Assets[i] = a
    /\ Kinds \subseteq Accounts /\ "wallet" \in Accounts /\ "wallet" \notin Kinds
    /\ Accounts = Kinds \cup {"wallet"}
    /\ Kinds # {}
<1>1. Assets \in Seq(Kinds) /\ Assets # <<>>
  BY MidenBootstrapAssumption DEF Kinds
<1>2. Len(Assets) \in Nat \ {0}
  BY <1>1, EmptySeq
<1>3. \A i \in 1..Len(Assets) : Assets[i] \in Kinds
  BY <1>1, LenProperties
<1>4. \A a \in Kinds : \E i \in 1..Len(Assets) : Assets[i] = a
  BY <1>1, InRange DEF Kinds
<1> QED BY <1>2, <1>3, <1>4, MidenBootstrapAssumption DEF Kinds, Accounts

\* A record names a faucet for every asset.
LEMMA RecordNotEmpty ==
    ASSUME NEW r \in [Kinds -> Nat]
    PROVE  r # NoRecord
<1>1. DOMAIN r # {}
  BY AccountsKnown
<1>2. DOMAIN NoRecord = {}
  BY DEF NoRecord
<1> QED BY <1>1, <1>2

\* The ids of the faucets of a run are those it made last.
LEMMA IdsOfRun ==
    ASSUME made \in Nat, Len(Assets) <= made
    PROVE  /\ FaucetIds \in [Kinds -> 1..made]
           /\ \A a \in Kinds : \E i \in 1..Len(Assets) : FaucetIds[a] = made + 1 - i
<1> DEFINE n == Len(Assets)
           pos(a) == CHOOSE i \in 1..n : Assets[i] = a
<1>1. n \in Nat \ {0}
  BY AccountsKnown
<1>2. \A a \in Kinds : pos(a) \in 1..n
  BY AccountsKnown
<1>3. \A a \in Kinds : FaucetIds[a] = made - n + pos(a)
  BY DEF FaucetIds
<1>4. FaucetIds = [a \in Kinds |-> FaucetIds[a]]
  BY DEF FaucetIds
<1>5. ASSUME NEW a \in Kinds
      PROVE  FaucetIds[a] \in 1..made /\ \E i \in 1..n : FaucetIds[a] = made + 1 - i
  <2>1. PICK k \in 1..n : FaucetIds[a] = made - n + k
    BY <1>2, <1>3
  <2>2. FaucetIds[a] \in 1..made
    BY <1>1, <2>1
  <2>3. n + 1 - k \in 1..n /\ FaucetIds[a] = made + 1 - (n + 1 - k)
    BY <1>1, <2>1
  <2> QED BY <2>2, <2>3
<1> QED BY <1>4, <1>5

\* How a step counts.
LEMMA HistoryStep ==
    ASSUME Next
    PROVE  \/ UNCHANGED history
           \/ Fail /\ (UNCHANGED orphaned \/ orphaned' = Orphaned(pool) \/ orphaned' = Orphaned(pool'))
BY DEF Next, Run, Start, AdoptLocal, AdoptDeployed, AdoptFails, DeployWallet, DeployDone,
         DeployFaucet, UpsertRecord, Fund, ConsumeNothing, ConsumeNotes, ConsumeDone,
         SkipAsset, MintFails, Mint, MintDone, Up, CommitTx, DiscardTx, Crash, LoseStore,
         Submit, Wait, history

\* A failure orphans what is in flight.
LEMMA OrphanedFacts ==
    ASSUME Counted, NEW p, orphaned' = Orphaned(p), NEW a \in Kinds
    PROVE  /\ orphaned'[a] \in {orphaned[a], orphaned[a] + 1}
           /\ p[a] # <<>> \/ p["wallet"] # <<>> => orphaned'[a] = orphaned[a] + 1
BY DEF Orphaned, Counted

\* What a step counts.
LEMMA CountedStep ==
    ASSUME Counted, Next
    PROVE  Counted' /\ \A a \in Kinds : orphaned'[a] \in {orphaned[a], orphaned[a] + 1}
<1>1. \/ UNCHANGED history
      \/ Fail /\ (UNCHANGED orphaned \/ orphaned' = Orphaned(pool) \/ orphaned' = Orphaned(pool'))
  BY HistoryStep
<1>2. CASE UNCHANGED history
  BY <1>2 DEF history, Counted
<1>3. CASE Fail /\ UNCHANGED orphaned
  BY <1>3, MidenBootstrapAssumption DEF Fail, Counted
<1>4. ASSUME NEW p, Fail, orphaned' = Orphaned(p)
      PROVE  Counted' /\ \A a \in Kinds : orphaned'[a] \in {orphaned[a], orphaned[a] + 1}
  <2>0. \A a \in Kinds : orphaned'[a] \in {orphaned[a], orphaned[a] + 1}
    BY <1>4, OrphanedFacts
  <2>1. \A a \in Kinds : orphaned'[a] \in Nat /\ orphaned'[a] <= orphaned[a] + 1
    BY <2>0 DEF Counted
  <2>2. orphaned' \in [Kinds -> Nat]
    BY <1>4, <2>1 DEF Orphaned
  <2>3. failures' \in 0..MaxFailures
    BY <1>4, MidenBootstrapAssumption DEF Fail, Counted
  <2>4. \A a \in Kinds : orphaned'[a] <= failures'
    BY <1>4, <2>1 DEF Fail, Counted
  <2> QED BY <2>0, <2>2, <2>3, <2>4 DEF Counted
<1> QED BY <1>1, <1>2, <1>3, <1>4

\* Where a step of the process goes.
LEMMA PositionsStep ==
    ASSUME Positions, Next
    PROVE  Positions'
<1> USE AccountsKnown DEF Positions
<1>1. CASE Start
  BY <1>1 DEF Start, Goto
<1>2. CASE AdoptLocal
  BY <1>2 DEF AdoptLocal, WalletDone, Goto
<1>3. CASE AdoptDeployed
  BY <1>3 DEF AdoptDeployed, WalletDone, Goto
<1>4. CASE AdoptFails
  BY <1>4 DEF AdoptFails, Exit
<1>5. CASE DeployWallet
  BY <1>5 DEF DeployWallet, Submit, Goto, Exit
<1>6. CASE DeployDone
  BY <1>6 DEF DeployDone, Wait, WaitEnds, WalletDone, Goto, Exit
<1>7. CASE DeployFaucet
  BY <1>7 DEF DeployFaucet
<1>8. CASE UpsertRecord
  BY <1>8 DEF UpsertRecord, Goto
<1>9. CASE Fund
  BY <1>9 DEF Fund
<1>10. CASE ConsumeNothing
  BY <1>10 DEF ConsumeNothing, Goto
<1>11. CASE ConsumeNotes
  BY <1>11 DEF ConsumeNotes, Submit, Goto, Exit
<1>12. CASE ConsumeDone
  BY <1>12 DEF ConsumeDone, Wait, WaitEnds, Goto, Exit
<1>13. CASE SkipAsset
  BY <1>13 DEF SkipAsset
<1>14. CASE MintFails
  BY <1>14 DEF MintFails, Exit
<1>15. CASE Mint
  BY <1>15 DEF Mint, Submit, Goto, Exit
<1>16. CASE MintDone
  BY <1>16 DEF MintDone, Wait, WaitEnds, Exit
<1>17. CASE Up
  BY <1>17 DEF Up
<1>18. CASE \E x \in Accounts : CommitTx(x) \/ DiscardTx(x)
  BY <1>18 DEF CommitTx, DiscardTx
<1>19. CASE Crash
  BY <1>19 DEF Crash, Exit
<1>20. CASE LoseStore
  BY <1>20 DEF LoseStore
<1> QED BY <1>1, <1>2, <1>3, <1>4, <1>5, <1>6, <1>7, <1>8, <1>9, <1>10, <1>11, <1>12,
           <1>13, <1>14, <1>15, <1>16, <1>17, <1>18, <1>19, <1>20 DEF Next, Run

\* Where a step of the process leaves what it keeps of its faucets alone.
LEMMA FaucetsKept ==
    ASSUME Faucets, UNCHANGED <<record, held, made>>,
           \/ UNCHANGED <<at, step>>
           \/ at' \in {"off", "wallet", "deployWait"}
           \/ at' = "faucet" /\ record = NoRecord /\ step' = 1
           \/ at' \in {"fund", "consume", "consumeWait", "asset", "mintWait", "up"} /\ record # NoRecord
    PROVE  Faucets'
BY DEF Faucets

\* What a step does with the faucets.
LEMMA FaucetsStep ==
    ASSUME Positions, Faucets, Next
    PROVE  Faucets'
<1> USE AccountsKnown
<1>1. CASE Start
  BY <1>1, FaucetsKept DEF Start, Goto, disk
<1>2. CASE AdoptLocal
  BY <1>2, FaucetsKept DEF AdoptLocal, WalletDone, Goto, disk, Positions
<1>3. CASE AdoptDeployed
  BY <1>3, FaucetsKept DEF AdoptDeployed, WalletDone, Goto, Positions
<1>4. CASE AdoptFails
  BY <1>4, FaucetsKept DEF AdoptFails, Exit, disk
<1>5. CASE DeployWallet
  BY <1>5, FaucetsKept DEF DeployWallet, Submit, Goto, Exit
<1>6. CASE DeployDone
  BY <1>6, FaucetsKept DEF DeployDone, Wait, WaitEnds, WalletDone, Goto, Exit, Positions
<1>7. CASE DeployFaucet
  <2>1. /\ at = "faucet" /\ made' = made + 1 /\ held' = held \cup {made + 1} /\ step' = step + 1
        /\ at' = IF step = Len(Assets) THEN "record" ELSE "faucet"
        /\ UNCHANGED record
    BY <1>7 DEF DeployFaucet
  <2>2. made \in Nat /\ step \in Nat /\ step >= 1 /\ record = NoRecord /\ held \subseteq 1..made
        /\ step - 1 <= made /\ \A i \in 1..(step - 1) : made + 1 - i \in held
    BY <2>1 DEF Faucets, Positions
  <2>3. made' \in Nat /\ held' \subseteq 1..made' /\ step <= made'
    BY <2>1, <2>2
  <2>4. \A i \in 1..step : made' + 1 - i \in held'
    <3> TAKE i \in 1..step
    <3>1. CASE i = 1
      BY <3>1, <2>1, <2>2
    <3>2. CASE i # 1
      <4>1. i - 1 \in 1..(step - 1) /\ made' + 1 - i = made + 1 - (i - 1)
        BY <3>2, <2>1, <2>2
      <4> QED BY <4>1, <2>1, <2>2
    <3> QED BY <3>1, <3>2
  <2>5. step' - 1 = step
    BY <2>1, <2>2
  <2> QED BY <2>1, <2>2, <2>3, <2>4, <2>5 DEF Faucets
<1>8. CASE UpsertRecord
  <2>1. at = "record" /\ record' = FaucetIds /\ at' = "fund" /\ UNCHANGED <<held, made>>
    BY <1>8 DEF UpsertRecord, Goto, disk
  <2>2. made \in Nat /\ Len(Assets) <= made
    BY <2>1 DEF Faucets
  <2>3. record' \in [Kinds -> 1..made]
    BY <2>1, <2>2, IdsOfRun
  <2>4. record' \in [Kinds -> Nat]
    BY <2>2, <2>3
  <2>5. record' # NoRecord
    BY <2>4, RecordNotEmpty
  <2>6. NoRecord' = NoRecord
    BY DEF NoRecord
  <2> QED BY <2>1, <2>3, <2>5, <2>6 DEF Faucets
<1>9. CASE Fund
  BY <1>9, FaucetsKept DEF Fund, disk, Faucets
<1>10. CASE ConsumeNothing
  BY <1>10, FaucetsKept DEF ConsumeNothing, Goto, Faucets
<1>11. CASE ConsumeNotes
  BY <1>11, FaucetsKept DEF ConsumeNotes, Submit, Goto, Exit, Faucets
<1>12. CASE ConsumeDone
  BY <1>12, FaucetsKept DEF ConsumeDone, Wait, WaitEnds, Goto, Exit, Faucets
<1>13. CASE SkipAsset
  BY <1>13, FaucetsKept DEF SkipAsset, disk, Faucets
<1>14. CASE MintFails
  BY <1>14, FaucetsKept DEF MintFails, Exit, disk
<1>15. CASE Mint
  BY <1>15, FaucetsKept DEF Mint, Submit, Goto, Exit, Faucets
<1>16. CASE MintDone
  BY <1>16, FaucetsKept DEF MintDone, Wait, WaitEnds, Exit, Faucets
<1>17. CASE Up
  BY <1>17, FaucetsKept DEF Up, disk, Faucets
<1>18. CASE \E x \in Accounts : CommitTx(x) \/ DiscardTx(x)
  BY <1>18, FaucetsKept DEF CommitTx, DiscardTx, disk
<1>19. CASE Crash
  BY <1>19, FaucetsKept DEF Crash, Exit, disk
<1>20. CASE LoseStore
  BY <1>20 DEF LoseStore, Faucets
<1> QED BY <1>1, <1>2, <1>3, <1>4, <1>5, <1>6, <1>7, <1>8, <1>9, <1>10, <1>11, <1>12,
           <1>13, <1>14, <1>15, <1>16, <1>17, <1>18, <1>19, <1>20 DEF Next, Run

-----------------------------------------------------------------------------
\* The accounts.

\* What the store is after a sync.
LEMMA SyncedFacts ==
    ASSUME Typed
    PROVE  /\ Ledger(Synced)
           /\ \A x \in Accounts :
                /\ Latest(x) \in Seq(TxsOf(x))
                /\ IsPrefix(chain[x], Latest(x))
                /\ IsPrefix(Synced[x], Latest(x))
                /\ Discarded(x) => Synced[x] = chain[x]
                /\ ~Discarded(x) => Synced[x] = store[x] /\ IsPrefix(store[x], Latest(x))
                /\ pool[x] = <<>> => Latest(x) = chain[x]
<1>1. ASSUME NEW x \in Accounts
      PROVE  /\ Latest(x) \in Seq(TxsOf(x))
             /\ IsPrefix(chain[x], Latest(x))
             /\ pool[x] = <<>> => Latest(x) = chain[x]
  <2>1. chain[x] \in Seq(TxsOf(x)) /\ pool[x] \in Seq(TxsOf(x))
    BY DEF Typed, Ledger
  <2>2. chain[x] \o pool[x] \in Seq(TxsOf(x))
    BY <2>1, ConcatProperties
  <2>3. IsPrefix(chain[x], chain[x] \o pool[x])
    BY <2>1, PrefixFacts
  <2>4. pool[x] = <<>> => chain[x] \o pool[x] = chain[x]
    BY <2>1, ConcatEmptySeq
  <2> QED BY <2>2, <2>3, <2>4 DEF Latest
<1>2. \A x \in Accounts : Synced[x] = IF Discarded(x) THEN chain[x] ELSE store[x]
  BY DEF Synced
<1>3. \A x \in Accounts : Discarded(x) <=> ~IsPrefix(store[x], Latest(x))
  BY DEF Discarded
<1>4. \A x \in Accounts : Synced[x] \in Seq(TxsOf(x))
  BY <1>2 DEF Typed, Ledger
<1>5. Synced = [x \in Accounts |-> Synced[x]]
  BY DEF Synced
<1>6. Ledger(Synced)
  BY <1>4, <1>5 DEF Ledger
<1> QED BY <1>1, <1>2, <1>3, <1>6

\* A transaction the network takes follows on the others of its account.
LEMMA Taken ==
    ASSUME Typed, NEW x \in Accounts, NEW tx \in TxsOf(x),
           UNCHANGED chain, pool' = [pool EXCEPT ![x] = Append(@, tx)]
    PROVE  /\ Ledger(pool)'
           /\ Latest(x)' = Append(Latest(x), tx)
           /\ \A y \in Accounts : y # x => Latest(y)' = Latest(y) /\ pool'[y] = pool[y]
           /\ pool'[x] # <<>>
<1>1. pool = [y \in Accounts |-> pool[y]] /\ \A y \in Accounts : pool[y] \in Seq(TxsOf(y))
  BY DEF Typed, Ledger
<1>2. chain[x] \in Seq(TxsOf(x))
  BY DEF Typed, Ledger
<1>3. pool'[x] = Append(pool[x], tx) /\ \A y \in Accounts : y # x => pool'[y] = pool[y]
  BY <1>1
<1>4. Append(pool[x], tx) \in Seq(TxsOf(x)) /\ Append(pool[x], tx) # <<>>
  BY <1>1, AppendProperties
<1>5. Ledger(pool)'
  <2>1. pool' = [y \in Accounts |-> pool'[y]]
    BY <1>1
  <2>2. \A y \in Accounts : pool'[y] \in Seq(TxsOf(y))
    BY <1>1, <1>3, <1>4
  <2> QED BY <2>1, <2>2 DEF Ledger, TxsOf
<1>6. Latest(x)' = Append(Latest(x), tx)
  <2> DEFINE S == TxsOf(x)
             c == chain[x]
             p == pool[x]
  <2>1. c \in Seq(S) /\ p \in Seq(S) /\ tx \in S
    BY <1>1, <1>2
  <2> HIDE DEF S, c, p
  <2>2. c \o Append(p, tx) = Append(c \o p, tx)
    BY <2>1, AppendFacts
  <2> QED BY <2>2, <1>3 DEF Latest, c, p
<1>7. \A y \in Accounts : y # x => Latest(y)' = Latest(y)
  BY <1>3 DEF Latest
<1> QED BY <1>3, <1>4, <1>5, <1>6, <1>7

\* A transaction the network commits.
LEMMA Commits ==
    ASSUME Typed, NEW x \in Accounts, CommitTx(x)
    PROVE  /\ Typed'
           /\ \A y \in Accounts : Latest(y)' = Latest(y) /\ IsPrefix(chain[y], chain'[y])
           /\ \A y \in Accounts : pool[y] = <<>> => pool'[y] = <<>> /\ chain'[y] = chain[y]
<1> DEFINE c == chain[x]
           p == pool[x]
<1>1. /\ c \in Seq(TxsOf(x)) /\ p \in Seq(TxsOf(x)) /\ p # <<>>
      /\ chain = [y \in Accounts |-> chain[y]] /\ pool = [y \in Accounts |-> pool[y]]
      /\ chain' = [chain EXCEPT ![x] = Append(c, Head(p))]
      /\ pool' = [pool EXCEPT ![x] = Tail(p)]
      /\ UNCHANGED store
  BY DEF CommitTx, Typed, Ledger, disk
<1>2. /\ chain'[x] = Append(c, Head(p)) /\ pool'[x] = Tail(p)
      /\ \A y \in Accounts : y # x => chain'[y] = chain[y] /\ pool'[y] = pool[y]
  BY <1>1
<1>3. /\ Head(p) \in TxsOf(x) /\ Tail(p) \in Seq(TxsOf(x)) /\ Append(c, Head(p)) \in Seq(TxsOf(x))
      /\ Append(c, Head(p)) \o Tail(p) = c \o p
      /\ IsPrefix(c, Append(c, Head(p)))
  <2> HIDE DEF c, p
  <2>1. /\ Head(p) \in TxsOf(x) /\ Tail(p) \in Seq(TxsOf(x))
        /\ Append(c, Head(p)) \in Seq(TxsOf(x)) /\ Append(c, Head(p)) \o Tail(p) = c \o p
    BY <1>1, CommitFacts
  <2>2. IsPrefix(c, Append(c, Head(p)))
    BY <1>1, <2>1, AppendFacts
  <2> QED BY <2>1, <2>2
<1>4. Ledger(chain)' /\ Ledger(pool)' /\ Ledger(store)'
  <2>1. \A y \in Accounts : chain'[y] \in Seq(TxsOf(y)) /\ pool'[y] \in Seq(TxsOf(y))
    BY <1>2, <1>3 DEF Typed, Ledger
  <2>2. chain' = [y \in Accounts |-> chain'[y]] /\ pool' = [y \in Accounts |-> pool'[y]]
    BY <1>1
  <2>3. Ledger(chain)' /\ Ledger(pool)'
    BY <2>1, <2>2 DEF Ledger, TxsOf
  <2>4. Ledger(store)'
    BY <1>1 DEF Typed, Ledger, TxsOf
  <2> QED BY <2>3, <2>4
<1>5. \A y \in Accounts : IsPrefix(chain[y], chain[y])
  BY PrefixFacts DEF Typed, Ledger
<1>6. \A y \in Accounts : Latest(y)' = Latest(y) /\ IsPrefix(chain[y], chain'[y])
  BY <1>2, <1>3, <1>5 DEF Latest
<1>7. \A y \in Accounts : pool[y] = <<>> => y # x
  BY <1>1
<1> QED BY <1>2, <1>4, <1>6, <1>7 DEF Typed

\* A transaction the network drops.
LEMMA Drops ==
    ASSUME Typed, NEW x \in Accounts, DiscardTx(x)
    PROVE  /\ Typed' /\ UNCHANGED <<chain, store>>
           /\ Latest(x)' = chain[x] /\ pool'[x] = <<>> /\ pool[x] # <<>>
           /\ \A y \in Accounts : y # x => Latest(y)' = Latest(y) /\ pool'[y] = pool[y]
<1>1. /\ pool' = [pool EXCEPT ![x] = <<>>] /\ UNCHANGED <<chain, store>>
      /\ pool[x] # <<>>
      /\ pool = [y \in Accounts |-> pool[y]] /\ \A y \in Accounts : pool[y] \in Seq(TxsOf(y))
  BY DEF DiscardTx, Typed, Ledger, disk
<1>2. pool'[x] = <<>> /\ \A y \in Accounts : y # x => pool'[y] = pool[y]
  BY <1>1
<1>3. Ledger(pool)'
  <2>1. \A y \in Accounts : pool'[y] \in Seq(TxsOf(y))
    BY <1>1, <1>2, EmptySeq
  <2>2. pool' = [y \in Accounts |-> pool'[y]]
    BY <1>1
  <2> QED BY <2>1, <2>2 DEF Ledger, TxsOf
<1>4. Ledger(chain)' /\ Ledger(store)'
  BY <1>1 DEF Typed, Ledger, TxsOf
<1>5. chain[x] \o <<>> = chain[x]
  BY ConcatEmptySeq DEF Typed, Ledger
<1>6. Latest(x)' = chain[x] /\ \A y \in Accounts : y # x => Latest(y)' = Latest(y)
  BY <1>1, <1>2, <1>5 DEF Latest
<1> QED BY <1>1, <1>2, <1>3, <1>4, <1>6 DEF Typed

\* What a submission does with the accounts.
Takes(x, tx) ==
    /\ UNCHANGED chain
    /\ pool' = [pool EXCEPT ![x] = Append(@, tx)]
    /\ store' = Synced \/ store' = [Synced EXCEPT ![x] = Append(@, tx)]

\* A submission is refused or taken.
LEMMA SubmitTakes ==
    ASSUME NEW x, NEW tx, NEW ACTION next, Submit(x, tx, next), UNCHANGED chain
    PROVE  \/ store' = Synced /\ UNCHANGED <<pool, history>> /\ Exit /\ Synced[x] # Latest(x)
           \/ /\ Takes(x, tx) /\ Synced[x] = Latest(x)
              /\ \/ store' = [Synced EXCEPT ![x] = Append(@, tx)] /\ next /\ UNCHANGED history
                 \/ store' = Synced /\ Exit /\ orphaned' = Orphaned(pool')
BY DEF Submit, Takes

\* A mint of the asset, once the faucets are recorded.
MintOf(a) == Mint /\ Assets[step] = a /\ record # NoRecord

\* What a step does with the accounts.
Moves ==
    \/ UNCHANGED <<store, network>>
    \/ store' = Synced /\ UNCHANGED network
    \/ \E tx \in {Deploy, Consumable} : Takes("wallet", tx)
    \/ \E a \in Kinds : MintOf(a) /\ Takes(a, <<a, Len(Latest(a)) + 1>>)
    \/ \E x \in Accounts : CommitTx(x) \/ DiscardTx(x)
    \/ store' = [store EXCEPT !["wallet"] = Deployed] /\ UNCHANGED network
    \/ LoseStore

\* Every step is one of these.
LEMMA StepMoves ==
    ASSUME Positions, Faucets, Next
    PROVE  Moves
<1> USE DEF Moves, network, disk
<1>1. CASE Start \/ AdoptLocal \/ AdoptFails \/ DeployFaucet \/ UpsertRecord \/ Fund
             \/ SkipAsset \/ MintFails \/ Up \/ Crash
  BY <1>1 DEF Start, AdoptLocal, AdoptFails, DeployFaucet, UpsertRecord, Fund, SkipAsset,
              MintFails, Up, Crash
<1>2. CASE DeployDone \/ ConsumeNothing \/ ConsumeDone \/ MintDone
  BY <1>2 DEF DeployDone, ConsumeNothing, ConsumeDone, MintDone, Wait
<1>3. CASE DeployWallet
  <2>1. Submit("wallet", Deploy, Goto("deployWait")) /\ UNCHANGED chain
    BY <1>3 DEF DeployWallet
  <2> QED BY <2>1, SubmitTakes
<1>4. CASE ConsumeNotes
  <2>1. Submit("wallet", Consumable, Goto("consumeWait")) /\ UNCHANGED chain
    BY <1>4 DEF ConsumeNotes
  <2> QED BY <2>1, SubmitTakes
<1>5. CASE Mint
  <2> DEFINE a == Assets[step]
  <2>1. Submit(a, <<a, Len(Latest(a)) + 1>>, Goto("mintWait")) /\ UNCHANGED chain
        /\ at = "asset" /\ step <= Len(Assets)
    BY <1>5 DEF Mint
  <2>2. a \in Kinds /\ record # NoRecord
    BY <2>1, AccountsKnown DEF Positions, Faucets
  <2>3. MintOf(a)
    BY <1>5, <2>2 DEF MintOf
  <2> HIDE DEF a
  <2> QED BY <2>1, <2>2, <2>3, SubmitTakes
<1>6. CASE AdoptDeployed
  BY <1>6 DEF AdoptDeployed
<1>7. CASE (\E x \in Accounts : CommitTx(x) \/ DiscardTx(x)) \/ LoseStore
  BY <1>7
<1> QED BY <1>1, <1>2, <1>3, <1>4, <1>5, <1>6, <1>7 DEF Next, Run

\* What the store knows may be consumed is notes.
LEMMA ConsumableTyped ==
    ASSUME Typed
    PROVE  /\ Consumable \in TxsOf("wallet")
           /\ \A n \in Consumable : \E a \in Kinds : n \in Range(chain[a])
<1>1. \A n \in Consumable : \E a \in Kinds : n \in Range(chain[a])
  BY DEF Consumable, Arrived
<1>2. \A a \in Kinds : chain[a] \in Seq(Notes)
  BY AccountsKnown DEF Typed, Ledger, TxsOf
<1>3. \A a \in Kinds : Range(chain[a]) \subseteq Notes
  BY <1>2, RangeOfSeq
<1> QED BY <1>1, <1>3 DEF TxsOf

\* What the program submits is a transaction of the account.
LEMMA SubmittedTyped ==
    ASSUME Typed
    PROVE  /\ Deploy \in TxsOf("wallet") /\ Consumable \in TxsOf("wallet")
           /\ \A a \in Kinds : <<a, Len(Latest(a)) + 1>> \in TxsOf(a)
<1>1. \A a \in Kinds : Latest(a) \in Seq(TxsOf(a)) /\ a # "wallet"
  BY SyncedFacts, AccountsKnown
<1>2. \A a \in Kinds : Len(Latest(a)) \in Nat
  BY <1>1, LenProperties
<1> QED BY <1>1, <1>2, ConsumableTyped DEF TxsOf, Notes, Deploy

\* The accounts after a submission are accounts.
LEMMA TakesTyped ==
    ASSUME Typed, NEW x \in Accounts, NEW tx \in TxsOf(x), Takes(x, tx)
    PROVE  Typed'
<1>1. Ledger(pool)'
  BY Taken DEF Takes
<1>2. Ledger(chain)'
  BY DEF Typed, Takes, Ledger, TxsOf
<1>3. Ledger(Synced)
  BY SyncedFacts
<1>4. Append(Synced[x], tx) \in Seq(TxsOf(x))
  BY <1>3, AppendProperties DEF Ledger
<1>5. Ledger([Synced EXCEPT ![x] = Append(@, tx)])
  <2> DEFINE s == [Synced EXCEPT ![x] = Append(@, tx)]
  <2>1. Synced = [y \in Accounts |-> Synced[y]] /\ \A y \in Accounts : Synced[y] \in Seq(TxsOf(y))
    BY <1>3 DEF Ledger
  <2>2. s = [y \in Accounts |-> s[y]]
    BY <2>1
  <2>3. \A y \in Accounts : s[y] \in Seq(TxsOf(y))
    BY <1>4, <2>1
  <2> HIDE DEF s
  <2>4. Ledger(s)
    BY <2>2, <2>3 DEF Ledger
  <2> QED BY <2>4 DEF s
<1>6. \A f : store' = f /\ Ledger(f) => Ledger(store)'
  BY DEF Ledger, TxsOf
<1>7. Ledger(store)'
  BY <1>3, <1>5, <1>6 DEF Takes
<1> QED BY <1>1, <1>2, <1>7 DEF Typed

\* The accounts after a step are accounts.
LEMMA TypedStep ==
    ASSUME Positions, Faucets, Typed, Next
    PROVE  Typed'
<1>1. Moves
  BY StepMoves
<1>2. \A f : store' = f /\ Ledger(f) /\ UNCHANGED network => Typed'
  BY DEF Typed, Ledger, TxsOf, network
<1>3. CASE UNCHANGED <<store, network>>
  BY <1>2, <1>3 DEF Typed
<1>4. CASE store' = Synced /\ UNCHANGED network
  BY <1>2, <1>4, SyncedFacts
<1>5. CASE \E tx \in {Deploy, Consumable} : Takes("wallet", tx)
  BY <1>5, AccountsKnown, SubmittedTyped, TakesTyped
<1>6. CASE \E a \in Kinds : Takes(a, <<a, Len(Latest(a)) + 1>>)
  BY <1>6, AccountsKnown, SubmittedTyped, TakesTyped
<1>7. CASE \E x \in Accounts : CommitTx(x) \/ DiscardTx(x)
  BY <1>7, Commits, Drops
<1>8. CASE store' = [store EXCEPT !["wallet"] = Deployed] /\ UNCHANGED network
  <2> DEFINE s == [store EXCEPT !["wallet"] = Deployed]
  <2>1. Deployed \in Seq(TxsOf("wallet"))
    BY DEF Deployed, Deploy, TxsOf
  <2>2. store = [y \in Accounts |-> store[y]] /\ \A y \in Accounts : store[y] \in Seq(TxsOf(y))
    BY DEF Typed, Ledger
  <2>3. s = [y \in Accounts |-> s[y]] /\ \A y \in Accounts : s[y] \in Seq(TxsOf(y))
    BY <2>1, <2>2
  <2> HIDE DEF s
  <2>4. Ledger(s)
    BY <2>3 DEF Ledger
  <2> QED BY <1>2, <1>8, <2>4 DEF s
<1>9. CASE LoseStore
  <2>1. Ledger(NoTransactions)
    <3>1. \A y \in Accounts : NoTransactions[y] \in Seq(TxsOf(y))
      BY EmptySeq DEF NoTransactions
    <3>2. NoTransactions = [y \in Accounts |-> NoTransactions[y]]
      BY DEF NoTransactions
    <3> QED BY <3>1, <3>2 DEF Ledger
  <2> QED BY <1>2, <1>9, <2>1 DEF LoseStore
<1> QED BY <1>1, <1>3, <1>4, <1>5, <1>6, <1>7, <1>8, <1>9 DEF Moves

\* The notes of a faucet stay numbered.
LEMMA NumberedFacts ==
    ASSUME NEW S, NEW a, NEW l \in Seq(S), Numbered(a, l)
    PROVE  /\ <<a, Len(l) + 1>> \in S => Numbered(a, Append(l, <<a, Len(l) + 1>>))
           /\ \A c \in Seq(S) : IsPrefix(c, l) => Numbered(a, c)
           /\ \A n \in Range(l) : n[1] = a
           /\ <<a, Len(l) + 1>> \notin Range(l)
           /\ l # <<>> => <<a, Len(l)>> \in Range(l)
<1>1. Len(l) \in Nat
  BY LenProperties
<1>2. ASSUME <<a, Len(l) + 1>> \in S
      PROVE  Numbered(a, Append(l, <<a, Len(l) + 1>>))
  <2> DEFINE e == <<a, Len(l) + 1>>
             m == Append(l, e)
  <2>1. Len(m) = Len(l) + 1 /\ (\A k \in 1..Len(l) : m[k] = l[k]) /\ m[Len(l) + 1] = e
    BY <1>2, AppendProperties
  <2> HIDE DEF m
  <2>2. \A k \in 1..Len(m) : m[k] = <<a, k>>
    BY <1>1, <2>1 DEF Numbered
  <2>3. Numbered(a, m)
    BY <2>2 DEF Numbered
  <2> QED BY <2>3 DEF m
<1>3. ASSUME NEW c \in Seq(S), IsPrefix(c, l)
      PROVE  Numbered(a, c)
  <2>1. Len(c) \in Nat /\ Len(c) <= Len(l) /\ \A k \in 1..Len(c) : c[k] = l[k]
    BY <1>3, PrefixIndex, LenProperties
  <2> QED BY <1>1, <2>1 DEF Numbered
<1>4. \A n : n \in Range(l) <=> \E k \in 1..Len(l) : l[k] = n
  BY InRange
<1>5. \A n \in Range(l) : \E k \in 1..Len(l) : n = <<a, k>>
  BY <1>4 DEF Numbered
<1>6. <<a, Len(l) + 1>> \notin Range(l)
  BY <1>1, <1>5
<1>7. ASSUME l # <<>>
      PROVE  <<a, Len(l)>> \in Range(l)
  <2>1. Len(l) \in 1..Len(l)
    BY <1>1, <1>7, EmptySeq
  <2>2. l[Len(l)] = <<a, Len(l)>>
    BY <2>1 DEF Numbered
  <2> QED BY <1>4, <2>1, <2>2
<1>8. \A n \in Range(l) : n[1] = a
  BY <1>5
<1> QED BY <1>2, <1>3, <1>6, <1>7, <1>8

\* A recorded set of faucets stays.
LEMMA RecordStep ==
    ASSUME Positions, Faucets, Next
    PROVE  \/ UNCHANGED record
           \/ record = NoRecord /\ Range(record') \subseteq held /\ UNCHANGED <<disk, network, history>>
<1>1. CASE UpsertRecord
  <2>1. at = "record" /\ record' = FaucetIds
    BY <1>1 DEF UpsertRecord
  <2>2. made \in Nat /\ Len(Assets) <= made /\ record = NoRecord
        /\ \A i \in 1..Len(Assets) : made + 1 - i \in held
    BY <2>1 DEF Faucets
  <2>3. \A a \in Kinds : FaucetIds[a] \in held
    BY <2>2, IdsOfRun
  <2>4. DOMAIN FaucetIds = Kinds
    BY DEF FaucetIds
  <2>5. Range(FaucetIds) \subseteq held
    BY <2>3, <2>4 DEF Range
  <2>6. UNCHANGED <<disk, network, history>>
    BY <1>1 DEF UpsertRecord
  <2> QED BY <2>1, <2>2, <2>5, <2>6
<1>2. CASE ~UpsertRecord
  <2>1. UNCHANGED record
    BY <1>2 DEF Next, Run, Start, AdoptLocal, AdoptDeployed, AdoptFails, DeployWallet,
         DeployDone, DeployFaucet, Fund, ConsumeNothing, ConsumeNotes, ConsumeDone,
         SkipAsset, MintFails, Mint, MintDone, Up, CommitTx, DiscardTx, Crash, LoseStore, Wait
  <2> QED BY <2>1
<1> QED BY <1>1, <1>2

\* What the accounts are after a step.
LatestMoves(y) ==
    \/ Latest(y)' = Latest(y)
    \/ Latest(y)' = chain[y] /\ pool[y] # <<>>
    \/ y = "wallet" /\ \E tx \in {Deploy, Consumable} : Latest(y)' = Append(Latest(y), tx)
    \/ y \in Kinds /\ MintOf(y) /\ Latest(y)' = Append(Latest(y), <<y, Len(Latest(y)) + 1>>)

\* Every step moves every account one of these ways, and the network takes nothing back.
LEMMA LatestStep ==
    ASSUME Typed, Moves
    PROVE  \A y \in Accounts : LatestMoves(y) /\ IsPrefix(chain[y], chain'[y])
<1>1. \A y \in Accounts : chain[y] \in Seq(TxsOf(y))
  BY DEF Typed, Ledger
<1>2. \A y \in Accounts : IsPrefix(chain[y], chain[y])
  BY <1>1, PrefixFacts
<1>3. UNCHANGED network => \A y \in Accounts : Latest(y)' = Latest(y)
  BY DEF Latest, network
<1>4. CASE UNCHANGED network
  BY <1>2, <1>3, <1>4 DEF LatestMoves, network
<1>5. CASE \E tx \in {Deploy, Consumable} : Takes("wallet", tx)
  <2>1. PICK tx \in {Deploy, Consumable} : Takes("wallet", tx)
    BY <1>5
  <2>2. tx \in TxsOf("wallet") /\ "wallet" \in Accounts
    BY SubmittedTyped, AccountsKnown
  <2>3. Latest("wallet")' = Append(Latest("wallet"), tx) /\ UNCHANGED chain
        /\ \A y \in Accounts : y # "wallet" => Latest(y)' = Latest(y)
    BY <2>1, <2>2, Taken DEF Takes
  <2> QED BY <1>2, <2>3 DEF LatestMoves
<1>6. CASE \E a \in Kinds : MintOf(a) /\ Takes(a, <<a, Len(Latest(a)) + 1>>)
  <2>1. PICK a \in Kinds : MintOf(a) /\ Takes(a, <<a, Len(Latest(a)) + 1>>)
    BY <1>6
  <2> DEFINE tx == <<a, Len(Latest(a)) + 1>>
  <2>2. tx \in TxsOf(a) /\ a \in Accounts /\ Takes(a, tx)
    BY <2>1, SubmittedTyped, AccountsKnown
  <2> HIDE DEF tx
  <2>3. Latest(a)' = Append(Latest(a), tx) /\ UNCHANGED chain
        /\ \A y \in Accounts : y # a => Latest(y)' = Latest(y)
    BY <2>2, Taken DEF Takes
  <2> QED BY <1>2, <2>1, <2>3 DEF LatestMoves, tx
<1>7. CASE \E x \in Accounts : CommitTx(x)
  BY <1>7, Commits DEF LatestMoves
<1>8. CASE \E x \in Accounts : DiscardTx(x)
  BY <1>2, <1>8, Drops DEF LatestMoves
<1> QED BY <1>4, <1>5, <1>6, <1>7, <1>8 DEF Moves, LoseStore, network

\* What the network has committed stays.
LEMMA ChainGrows ==
    ASSUME Positions, Faucets, Typed, Next
    PROVE  \A x \in Accounts : IsPrefix(chain[x], chain'[x])
BY StepMoves, LatestStep

\* The numbering, the order and the notes of the wallet are kept.
LEMMA LedgersStep ==
    ASSUME Positions, Faucets, Typed, Ledgers, Next
    PROVE  Ledgers'
<1>1. \A y \in Accounts : LatestMoves(y) /\ IsPrefix(chain[y], chain'[y])
  BY StepMoves, LatestStep
<1>2. \A y \in Accounts : /\ Latest(y) \in Seq(TxsOf(y)) /\ IsPrefix(chain[y], Latest(y))
                          /\ chain[y] \in Seq(TxsOf(y)) /\ pool[y] \in Seq(TxsOf(y))
  BY SyncedFacts DEF Typed, Ledger
<1>3. \A y \in Accounts : chain'[y] \in Seq(TxsOf(y))
  <2>1. Typed'
    BY TypedStep
  <2> QED BY <2>1 DEF Typed, Ledger, TxsOf
<1>4. ASSUME NEW a \in Kinds
      PROVE  Numbered(a, Latest(a))'
  <2>1. Numbered(a, Latest(a)) /\ a \in Accounts /\ a # "wallet"
    BY AccountsKnown DEF Ledgers
  <2>2. \A l : Latest(a)' = l /\ Numbered(a, l) => Numbered(a, Latest(a))'
    BY DEF Numbered
  <2>3. <<a, Len(Latest(a)) + 1>> \in TxsOf(a)
    BY SubmittedTyped
  <2>4. Numbered(a, Append(Latest(a), <<a, Len(Latest(a)) + 1>>)) /\ Numbered(a, chain[a])
    BY <1>2, <2>1, <2>3, NumberedFacts
  <2> QED BY <1>1, <2>1, <2>2, <2>4 DEF LatestMoves
<1>5. ASSUME record' = NoRecord, NEW a \in Kinds
      PROVE  Latest(a)' = <<>>
  <2>1. record = NoRecord
    BY <1>5, RecordStep
  <2>2. Latest(a) = <<>> /\ a \in Accounts /\ a # "wallet"
    BY <2>1, AccountsKnown DEF Ledgers
  <2>3. pool[a] = <<>>
    BY <1>2, <2>2, ConcatEqualIffEmpty DEF Latest
  <2> QED BY <1>1, <2>1, <2>2, <2>3 DEF LatestMoves, MintOf
<1>6. ASSUME NEW n \in Consumed(Latest("wallet")')
      PROVE  \E a \in Kinds : n \in Range(chain'[a])
  <2> DEFINE S == TxsOf("wallet")
             l == Latest("wallet")
             c == chain["wallet"]
  <2>1. l \in Seq(S) /\ c \in Seq(S) /\ IsPrefix(c, l)
    BY <1>2, AccountsKnown
  <2>2. Deploy \in S /\ Consumable \in S /\ Deploy = {}
    BY SubmittedTyped DEF Deploy
  <2>3. \/ Latest("wallet")' = l \/ Latest("wallet")' = c
        \/ \E tx \in {Deploy, Consumable} : Latest("wallet")' = Append(l, tx)
    BY <1>1, AccountsKnown DEF LatestMoves
  <2> HIDE DEF S, l, c
  <2>4. /\ Consumed(c) \subseteq Consumed(l)
        /\ \A tx \in S : Consumed(Append(l, tx)) = Consumed(l) \cup tx
    BY <2>1, <2>2, ConsumedFacts
  <2>5. n \in Consumed(l) \/ n \in Consumable
    BY <1>6, <2>2, <2>3, <2>4
  <2>6. \E a \in Kinds : n \in Range(chain[a])
    BY <2>5, ConsumableTyped DEF Ledgers, l
  <2>7. PICK a \in Kinds : n \in Range(chain[a])
    BY <2>6
  <2>8. Range(chain[a]) \subseteq Range(chain'[a])
    BY <1>1, <1>2, <1>3, PrefixFacts, AccountsKnown
  <2> QED BY <2>7, <2>8
<1>7. NoRecord' = NoRecord
  BY DEF NoRecord
<1>8. Consumed(Latest("wallet"))' = Consumed(Latest("wallet")')
  BY DEF Consumed, Range
<1>9. \A a \in Kinds : Range(chain[a])' = Range(chain'[a])
  BY DEF Range
<1> QED BY <1>4, <1>5, <1>6, <1>7, <1>8, <1>9 DEF Ledgers

-----------------------------------------------------------------------------
\* An asset is minted once.

\* The outcomes of a mint.
LEMMA MintOutcomes ==
    ASSUME NEW a \in Kinds, Typed, MintOf(a)
    PROVE  LET tx == <<a, Len(Latest(a)) + 1>> IN
           \/ store' = Synced /\ UNCHANGED <<network, history>> /\ Exit
           \/ /\ Takes(a, tx) /\ Latest(a)' = Append(Latest(a), tx) /\ Synced[a] = Latest(a)
              /\ store' = [Synced EXCEPT ![a] = Append(@, tx)]
              /\ Goto("mintWait") /\ UNCHANGED history
           \/ /\ Takes(a, tx) /\ Latest(a)' = Append(Latest(a), tx) /\ store' = Synced
              /\ Exit /\ orphaned' = Orphaned(pool') /\ pool'[a] # <<>>
<1> DEFINE tx == <<a, Len(Latest(a)) + 1>>
<1>1. Submit(a, tx, Goto("mintWait")) /\ UNCHANGED chain
  BY DEF MintOf, Mint
<1>2. tx \in TxsOf(a) /\ a \in Accounts
  BY SubmittedTyped, AccountsKnown
<1> HIDE DEF tx
<1>3. Takes(a, tx) => Latest(a)' = Append(Latest(a), tx) /\ pool'[a] # <<>>
  BY <1>2, Taken DEF Takes
<1>4. \/ store' = Synced /\ UNCHANGED <<pool, history>> /\ Exit /\ Synced[a] # Latest(a)
      \/ /\ Takes(a, tx) /\ Synced[a] = Latest(a)
         /\ \/ store' = [Synced EXCEPT ![a] = Append(@, tx)] /\ Goto("mintWait") /\ UNCHANGED history
            \/ store' = Synced /\ Exit /\ orphaned' = Orphaned(pool')
  BY <1>1, SubmitTakes
<1> QED BY <1>1, <1>3, <1>4 DEF tx, network

\* What was minted in full and is found is not minted again.
LEMMA NotMintedAgain ==
    ASSUME NEW a \in Kinds, MintedOnce(a), Minted(a), MintOf(a)
    PROVE  FALSE
<1>1. at = "asset" /\ ~Holds(a, store["wallet"])
  BY DEF MintOf, Mint, EnoughOf
<1>2. <<a, Len(Latest(a))>> \in Consumed(store["wallet"])
  BY <1>1 DEF MintedOnce, Found
<1> QED BY <1>1, <1>2 DEF Holds

\* Lengths of what an account has.
LEMMA Lengths ==
    ASSUME Typed, NEW a \in Kinds
    PROVE  /\ Len(Latest(a)) \in Nat /\ Latest(a) \in Seq(TxsOf(a))
           /\ Len(Append(Latest(a), <<a, Len(Latest(a)) + 1>>)) = Len(Latest(a)) + 1
           /\ pool[a] # <<>> => Len(chain[a]) < Len(Latest(a))
           /\ Len(chain[a]) \in Nat
<1>1. a \in Accounts /\ Latest(a) \in Seq(TxsOf(a)) /\ <<a, Len(Latest(a)) + 1>> \in TxsOf(a)
  BY AccountsKnown, SyncedFacts, SubmittedTyped
<1>2. chain[a] \in Seq(TxsOf(a)) /\ pool[a] \in Seq(TxsOf(a))
  BY <1>1 DEF Typed, Ledger
<1>3. Len(Latest(a)) = Len(chain[a]) + Len(pool[a])
  BY <1>2, ConcatProperties DEF Latest
<1>4. Len(chain[a]) \in Nat /\ Len(pool[a]) \in Nat /\ (pool[a] # <<>> => Len(pool[a]) > 0)
  BY <1>2, LenProperties, EmptySeq
<1>5. Len(Append(Latest(a), <<a, Len(Latest(a)) + 1>>)) = Len(Latest(a)) + 1
  BY <1>1, AppendProperties
<1>6. pool[a] # <<>> => Len(chain[a]) < Len(Latest(a))
  <2> DEFINE c == Len(chain[a])
             p == Len(pool[a])
             l == Len(Latest(a))
  <2>1. c \in Nat /\ p \in Nat /\ l = c + p /\ (pool[a] # <<>> => p > 0)
    BY <1>3, <1>4
  <2> HIDE DEF c, p, l
  <2>2. pool[a] # <<>> => c < l
    BY <2>1
  <2> QED BY <2>2 DEF c, l
<1>7. Len(Latest(a)) \in Nat
  BY <1>1, LenProperties
<1> QED BY <1>1, <1>4, <1>5, <1>6, <1>7

\* The bound holds after a step, and an asset minted in full was so before or is minted now.
LEMMA MintedStep ==
    ASSUME Positions, Faucets, Counted, Typed, Ledgers, Next, NEW a \in Kinds, MintedOnce(a)
    PROVE  /\ Len(Latest(a)') <= 1 + orphaned'[a]
           /\ Minted(a)' =>
                /\ orphaned'[a] = orphaned[a] /\ UNCHANGED record
                /\ \/ Minted(a) /\ Latest(a)' = Latest(a) /\ ~MintOf(a)
                   \/ MintOf(a) /\ Latest(a)' = Append(Latest(a), <<a, Len(Latest(a)) + 1>>)
                      /\ ~Minted(a)
<1> DEFINE n == Len(Latest(a))
           m == Len(Latest(a)')
           o == orphaned[a]
           p == orphaned'[a]
<1>1. o \in Nat /\ p \in {o, o + 1}
  BY CountedStep DEF Counted
<1>2. n \in Nat /\ n <= 1 + o
  BY Lengths DEF MintedOnce
<1>3. LatestMoves(a)
  BY StepMoves, LatestStep, AccountsKnown
<1>4. \/ Latest(a)' = Latest(a)
      \/ m < n
      \/ MintOf(a) /\ Latest(a)' = Append(Latest(a), <<a, Len(Latest(a)) + 1>>)
  BY <1>3, Lengths, AccountsKnown DEF LatestMoves
<1>5. m \in Nat /\ (MintOf(a) => m = n \/ m = n + 1)
  <2>1. UNCHANGED network => Latest(a)' = Latest(a)
    BY DEF Latest, network
  <2>2. MintOf(a) => Latest(a)' = Latest(a) \/ m = n + 1
    BY <2>1, MintOutcomes, Lengths
  <2>3. Typed'
    BY TypedStep
  <2>4. chain'[a] \in Seq(TxsOf(a)) /\ pool'[a] \in Seq(TxsOf(a))
    BY <2>3, AccountsKnown DEF Typed, Ledger, TxsOf
  <2>5. m \in Nat
    BY <2>4, ConcatProperties, LenProperties DEF Latest
  <2> QED BY <2>2, <2>5
<1>6. ASSUME MintOf(a), m = n + 1, p = o
      PROVE  n <= o /\ ~Minted(a)
  <2>1. ~Minted(a)
    BY <1>6, NotMintedAgain
  <2>2. record # NoRecord /\ record[a] \in held
    BY <1>6 DEF MintOf, Mint
  <2>3. n # 1 + o
    BY <2>1, <2>2 DEF Minted
  <2> QED BY <1>1, <1>2, <2>1, <2>3
<1>7. MintOf(a) /\ m = n + 1 => ~Minted(a)
  BY NotMintedAgain
<1>8. Latest(a)' = Append(Latest(a), <<a, n + 1>>) => m = n + 1
  BY Lengths
<1>9. m <= 1 + p
  <2>1. Latest(a)' = Latest(a) => m = n
    OBVIOUS
  <2> HIDE DEF m, n, o, p
  <2> QED BY <1>1, <1>2, <1>4, <1>5, <1>6, <1>8, <2>1
<1>10. ASSUME Minted(a)'
       PROVE  /\ p = o /\ UNCHANGED record
              /\ \/ Minted(a) /\ Latest(a)' = Latest(a) /\ ~MintOf(a)
                 \/ MintOf(a) /\ Latest(a)' = Append(Latest(a), <<a, n + 1>>) /\ ~Minted(a)
  <2>1. m = 1 + p /\ record' # NoRecord /\ record'[a] \in held'
    BY <1>10 DEF Minted, NoRecord
  <2>2. UNCHANGED record
    <3>1. CASE record = NoRecord /\ UNCHANGED <<disk, network, history>>
      <4>1. Latest(a) = <<>> /\ Latest(a)' = Latest(a)
        BY <3>1 DEF Ledgers, Latest, network
      <4>2. m = 0
        BY <4>1
      <4> QED BY <1>1, <2>1, <4>2
    <3> QED BY <3>1, RecordStep
  <2>3. record[a] \in held
    <3>1. record[a] \in 1..made
      BY <2>1, <2>2 DEF Faucets
    <3>2. held' \subseteq held \cup {made + 1}
      <4>1. CASE DeployFaucet
        BY <4>1 DEF DeployFaucet
      <4>2. CASE LoseStore
        BY <4>2 DEF LoseStore
      <4>3. CASE ~DeployFaucet /\ ~LoseStore
        <5>1. UNCHANGED held
          BY <4>3 DEF Next, Run, Start, AdoptLocal, AdoptDeployed, AdoptFails, DeployWallet,
             DeployDone, UpsertRecord, Fund, ConsumeNothing, ConsumeNotes, ConsumeDone,
             SkipAsset, MintFails, Mint, MintDone, Up, CommitTx, DiscardTx, Crash, Wait, disk
        <5> QED BY <5>1
      <4> QED BY <4>1, <4>2, <4>3
    <3> QED BY <2>1, <2>2, <3>1, <3>2 DEF Faucets
  <2>4. CASE Latest(a)' = Latest(a)
    <3>1. n = 1 + p
      BY <2>1, <2>4
    <3>2. p = o
      BY <1>1, <1>2, <3>1
    <3>3. Minted(a)
      BY <2>1, <2>2, <2>3, <3>1, <3>2 DEF Minted
    <3>4. ~MintOf(a)
      BY <3>3, NotMintedAgain
    <3> QED BY <2>2, <2>4, <3>2, <3>3, <3>4
  <2>5. CASE m < n
    BY <1>1, <1>2, <1>5, <2>1, <2>5
  <2>6. CASE MintOf(a) /\ Latest(a)' = Append(Latest(a), <<a, n + 1>>)
    <3>1. m = n + 1
      BY <1>8, <2>6
    <3>2. n = p
      BY <1>1, <1>2, <2>1, <3>1
    <3>3. ~Minted(a)
      BY <1>7, <2>6, <3>1
    <3>4. n # 1 + o
      BY <2>1, <2>2, <2>3, <3>3 DEF Minted
    <3>5. p = o
      BY <1>1, <1>2, <3>2, <3>4
    <3> QED BY <2>2, <2>6, <3>3, <3>5
  <2> QED BY <1>4, <2>4, <2>5, <2>6
<1> QED BY <1>9, <1>10

\* The transaction that deploys the wallet consumes nothing.
LEMMA DeployedFacts ==
    /\ Deployed \in Seq(TxsOf("wallet"))
    /\ Len(Deployed) = 1
    /\ Range(Deployed) = {{}}
<1> DEFINE S == TxsOf("wallet")
<1>1. Deployed \in Seq(S)
  BY DEF Deployed, Deploy, TxsOf
<1>2. Len(Deployed) = 1
  BY DEF Deployed
<1>3. Deployed[1] = {}
  BY DEF Deployed, Deploy
<1> HIDE DEF S
<1>4. \A e : e \in Range(Deployed) <=> \E i \in 1..1 : Deployed[i] = e
  BY <1>1, <1>2, InRange
<1>5. Range(Deployed) = {{}}
  BY <1>3, <1>4
<1> QED BY <1>1, <1>2, <1>5 DEF S

\* The store's wallet goes through a sync when it has all the network may keep.
LEMMA WalletSynced ==
    ASSUME Typed, WalletKept
    PROVE  /\ \/ Synced["wallet"] = Latest("wallet")
              \/ pool["wallet"] = <<>> /\ IsPrefix(chain["wallet"], Synced["wallet"])
           /\ Consumed(Latest("wallet")) \subseteq Consumed(Synced["wallet"])
<1> DEFINE S == TxsOf("wallet")
           l == Latest("wallet")
           c == chain["wallet"]
           s == store["wallet"]
           y == Synced["wallet"]
           d == Discarded("wallet")
<1>1. /\ l \in Seq(S) /\ c \in Seq(S) /\ s \in Seq(S) /\ y \in Seq(S)
      /\ y = (IF d THEN c ELSE s) /\ (~d => IsPrefix(s, l))
      /\ (pool["wallet"] = <<>> => l = c)
      /\ (d <=> ~IsPrefix(s, l))
      /\ (s = l \/ (pool["wallet"] = <<>> /\ IsPrefix(c, s)))
  BY AccountsKnown, SyncedFacts DEF Typed, Ledger, WalletKept, Discarded
<1> HIDE DEF S, l, c, s, y, d
<1>2. IsPrefix(l, l) /\ IsPrefix(c, c)
  BY <1>1, PrefixFacts
<1>3. y = l \/ (pool["wallet"] = <<>> /\ IsPrefix(c, y) /\ IsPrefix(l, y))
  BY <1>1, <1>2
<1>4. Consumed(l) \subseteq Consumed(y)
  BY <1>1, <1>3, ConsumedFacts
<1> QED BY <1>3, <1>4 DEF l, c, y

\* A store that has the wallet's transactions, one with this note among them, keeps them.
LEMMA KeptStep ==
    ASSUME Positions, Faucets, Typed, Next, NEW a \in Kinds, Counted,
           orphaned'[a] = orphaned[a], ~LoseStore,
           NEW n, n \in Consumed(Latest("wallet")) => WalletKept,
           n \in Consumed(Latest("wallet"))'
    PROVE  WalletKept'
<1> DEFINE S == TxsOf("wallet")
           l == Latest("wallet")
           c == chain["wallet"]
<1>0. "wallet" \in Accounts /\ l \in Seq(S) /\ c \in Seq(S) /\ IsPrefix(c, l)
      /\ Synced = [x \in Accounts |-> Synced[x]]
      /\ store = [x \in Accounts |-> store[x]] /\ store["wallet"] \in Seq(S)
  BY AccountsKnown, SyncedFacts DEF Typed, Ledger
<1>a. Consumed(Latest("wallet"))' = Consumed(Latest("wallet")')
  BY DEF Consumed, Range
<1>b. UNCHANGED network => Latest("wallet")' = l
  BY DEF Latest, network
<1>1. CASE UNCHANGED <<store, network>>
  BY <1>1, <1>a, <1>b DEF WalletKept, network
<1>2. ASSUME store'["wallet"] = Synced["wallet"], Latest("wallet")' = l,
             pool'["wallet"] = pool["wallet"], chain'["wallet"] = chain["wallet"]
      PROVE  WalletKept'
  <2>1. WalletKept
    BY <1>2, <1>a
  <2> QED BY <1>2, <2>1, WalletSynced DEF WalletKept
<1>3. CASE store' = Synced /\ UNCHANGED network
  BY <1>2, <1>3, <1>b DEF network
<1>4. ASSUME NEW tx \in S, NEW ACTION next, Submit("wallet", tx, next), UNCHANGED chain
      PROVE  WalletKept'
  <2>1. CASE store' = Synced /\ UNCHANGED <<pool, history>>
    BY <1>3, <1>4, <2>1 DEF network
  <2>2. CASE Takes("wallet", tx) /\ orphaned' = Orphaned(pool')
    <3>1. pool'["wallet"] # <<>>
      BY <1>0, <2>2, Taken DEF Takes
    <3>2. orphaned'[a] = orphaned[a] + 1
      BY <2>2, <3>1, OrphanedFacts
    <3> QED BY <3>2 DEF Counted
  <2>3. CASE /\ Takes("wallet", tx) /\ Synced["wallet"] = l
             /\ store' = [Synced EXCEPT !["wallet"] = Append(@, tx)]
    <3>1. Latest("wallet")' = Append(l, tx)
      BY <1>0, <2>3, Taken DEF Takes
    <3>2. store'["wallet"] = Append(l, tx)
      BY <1>0, <2>3
    <3> QED BY <3>1, <3>2 DEF WalletKept
  <2> QED BY <1>4, <2>1, <2>2, <2>3, SubmitTakes
<1>5. CASE DeployWallet
  <2>1. Submit("wallet", Deploy, Goto("deployWait")) /\ UNCHANGED chain
    BY <1>5 DEF DeployWallet
  <2> QED BY <1>4, <2>1, SubmittedTyped
<1>6. CASE ConsumeNotes
  <2>1. Submit("wallet", Consumable, Goto("consumeWait")) /\ UNCHANGED chain
    BY <1>6 DEF ConsumeNotes
  <2> QED BY <1>4, <2>1, SubmittedTyped
<1>7. CASE Mint
  <2> DEFINE b == Assets[step]
             tx == <<b, Len(Latest(b)) + 1>>
  <2>1. Submit(b, tx, Goto("mintWait")) /\ UNCHANGED chain /\ at = "asset" /\ step <= Len(Assets)
    BY <1>7 DEF Mint
  <2>2. b \in Kinds /\ b \in Accounts /\ b # "wallet"
    BY <2>1, AccountsKnown DEF Positions
  <2>3. tx \in TxsOf(b)
    BY <2>2, SubmittedTyped
  <2> HIDE DEF b, tx
  <2>4. CASE store' = Synced /\ UNCHANGED <<pool, history>>
    BY <1>3, <2>1, <2>4 DEF network
  <2>5. CASE Takes(b, tx)
    <3>1. Latest("wallet")' = l /\ pool'["wallet"] = pool["wallet"]
      BY <1>0, <2>2, <2>3, <2>5, Taken DEF Takes
    <3>2. store'["wallet"] = Synced["wallet"]
      BY <1>0, <2>2, <2>5 DEF Takes
    <3> QED BY <1>2, <2>1, <3>1, <3>2
  <2> QED BY <2>1, <2>4, <2>5, SubmitTakes
<1>8. CASE \E x \in Accounts : CommitTx(x)
  <2>1. PICK x \in Accounts : CommitTx(x)
    BY <1>8
  <2>2. /\ Latest("wallet")' = l /\ UNCHANGED store
        /\ pool["wallet"] = <<>> => pool'["wallet"] = <<>> /\ chain'["wallet"] = chain["wallet"]
    BY <1>0, <2>1, Commits DEF CommitTx, disk
  <2>3. WalletKept
    BY <1>a, <2>2
  <2> QED BY <2>2, <2>3 DEF WalletKept
<1>9. CASE \E x \in Accounts : DiscardTx(x)
  <2>1. PICK x \in Accounts : DiscardTx(x)
    BY <1>9
  <2>2. CASE x # "wallet"
    <3>1. Latest("wallet")' = l /\ pool'["wallet"] = pool["wallet"] /\ UNCHANGED <<chain, store>>
      BY <1>0, <2>1, <2>2, Drops
    <3> QED BY <1>a, <3>1 DEF WalletKept
  <2>3. CASE x = "wallet"
    <3>1. Latest("wallet")' = c /\ pool'["wallet"] = <<>> /\ pool["wallet"] # <<>>
          /\ UNCHANGED <<chain, store>>
      BY <1>0, <2>1, <2>3, Drops
    <3>2. n \in Consumed(l)
      <4> HIDE DEF S, l, c
      <4>1. Consumed(c) \subseteq Consumed(l)
        BY <1>0, ConsumedFacts
      <4> QED BY <1>a, <3>1, <4>1
    <3>3. store["wallet"] = l
      BY <3>1, <3>2 DEF WalletKept
    <3> QED BY <1>0, <3>1, <3>3 DEF WalletKept
  <2> QED BY <2>2, <2>3
<1>10. CASE AdoptDeployed
  <2>1. /\ c = Deployed /\ Len(store["wallet"]) <= Len(Deployed) /\ UNCHANGED network
    BY <1>10 DEF AdoptDeployed, Reconstructs
  <2>2. Deployed \in Seq(S) /\ Len(Deployed) = 1 /\ Range(Deployed) = {{}}
    BY DeployedFacts
  <2>3. Consumed(c) = {}
    BY <2>1, <2>2 DEF Consumed
  <2>4. n \in Consumed(l) /\ WalletKept
    BY <1>a, <1>b, <2>1
  <2>5. l # c
    BY <2>3, <2>4
  <2>6. pool["wallet"] # <<>>
    BY <1>0, <2>5, SyncedFacts
  <2>7. store["wallet"] = l
    BY <2>4, <2>6 DEF WalletKept
  <2>8. Len(l) = 1 + Len(pool["wallet"])
    BY <1>0, <2>1, <2>2, ConcatProperties DEF Latest, Typed, Ledger
  <2>9. Len(pool["wallet"]) \in Nat /\ Len(pool["wallet"]) > 0
    BY <1>0, <2>6, EmptySeq DEF Typed, Ledger
  <2> QED BY <2>1, <2>2, <2>7, <2>8, <2>9
<1>11. CASE Start \/ AdoptLocal \/ AdoptFails \/ DeployFaucet \/ UpsertRecord \/ Fund
             \/ SkipAsset \/ MintFails \/ Up \/ Crash
  BY <1>1, <1>11 DEF Start, AdoptLocal, AdoptFails, DeployFaucet, UpsertRecord, Fund, SkipAsset,
              MintFails, Up, Crash, disk
<1>12. CASE DeployDone \/ ConsumeNothing \/ ConsumeDone \/ MintDone
  BY <1>3, <1>12 DEF DeployDone, ConsumeNothing, ConsumeDone, MintDone, Wait
<1> QED BY <1>5, <1>6, <1>7, <1>8, <1>9, <1>10, <1>11, <1>12 DEF Next, Run

\* The account of a faucet, where it is not minted and the store not lost.
LEMMA AccountStep ==
    ASSUME Positions, Faucets, Typed, Next, NEW a \in Kinds, ~MintOf(a), ~LoseStore
    PROVE  /\ store'[a] \in {store[a], Synced[a]}
           /\ pool'[a] # <<>> => pool[a] # <<>>
<1>1. /\ a \in Accounts /\ a # "wallet" /\ "wallet" \in Accounts
      /\ Synced = [x \in Accounts |-> Synced[x]]
      /\ store = [x \in Accounts |-> store[x]]
  BY AccountsKnown, SyncedFacts DEF Typed, Ledger
<1>2. Moves
  BY StepMoves
<1>3. ASSUME NEW x \in Accounts, NEW tx \in TxsOf(x), Takes(x, tx), x # a
      PROVE  store'[a] = Synced[a] /\ pool'[a] = pool[a]
  <2>1. pool'[a] = pool[a]
    BY <1>1, <1>3, Taken DEF Takes
  <2>2. store'[a] = Synced[a]
    BY <1>1, <1>3 DEF Takes
  <2> QED BY <2>1, <2>2
<1>4. CASE \E tx \in {Deploy, Consumable} : Takes("wallet", tx)
  BY <1>1, <1>3, <1>4, SubmittedTyped
<1>5. CASE \E b \in Kinds : MintOf(b) /\ Takes(b, <<b, Len(Latest(b)) + 1>>)
  <2>1. PICK b \in Kinds : MintOf(b) /\ Takes(b, <<b, Len(Latest(b)) + 1>>)
    BY <1>5
  <2>2. b # a /\ b \in Accounts /\ <<b, Len(Latest(b)) + 1>> \in TxsOf(b)
    BY <2>1, AccountsKnown, SubmittedTyped
  <2> QED BY <1>3, <2>1, <2>2
<1>6. CASE \E x \in Accounts : CommitTx(x)
  BY <1>1, <1>6, Commits DEF CommitTx, disk
<1>7. CASE \E x \in Accounts : DiscardTx(x)
  BY <1>1, <1>7, Drops
<1>8. CASE store' = [store EXCEPT !["wallet"] = Deployed] /\ UNCHANGED network
  BY <1>1, <1>8 DEF network
<1>9. CASE UNCHANGED network /\ (UNCHANGED store \/ store' = Synced)
  BY <1>9 DEF network
<1> QED BY <1>2, <1>4, <1>5, <1>6, <1>7, <1>8, <1>9 DEF Moves, network

\* A committed note the store knows is consumed, or is consumed next.
LEMMA NoteConsumed ==
    ASSUME Typed, NEW a \in Kinds, NEW n, n \in Range(Synced[a]), n \in Range(chain[a])
    PROVE  /\ n \in Consumable \cup Consumed(Synced["wallet"]) \cup Consumed(chain["wallet"])
           /\ Synced["wallet"] = Latest("wallet") =>
                n \in Consumed(Append(Synced["wallet"], Consumable))
<1> DEFINE S == TxsOf("wallet")
           c == chain["wallet"]
           s == Synced["wallet"]
           l == Latest("wallet")
<1>1. n \in Consumable \cup Consumed(s) \cup Consumed(c)
  <2>1. n \in Arrived(a)
    BY DEF Arrived
  <2>2. n \in UNION {Arrived(b) : b \in Kinds}
    BY <2>1
  <2> QED BY <2>2 DEF Consumable
<1>2. s \in Seq(S) /\ c \in Seq(S) /\ l \in Seq(S) /\ IsPrefix(c, l) /\ Consumable \in S
  BY AccountsKnown, SyncedFacts, SubmittedTyped DEF Typed, Ledger
<1> HIDE DEF S, c, s, l
<1>3. Consumed(c) \subseteq Consumed(l) /\ Consumed(Append(s, Consumable)) = Consumed(s) \cup Consumable
  BY <1>2, ConsumedFacts
<1>4. s = l => n \in Consumed(Append(s, Consumable))
  BY <1>1, <1>3
<1> QED BY <1>1, <1>4 DEF s, c, l

\* What was minted and found stays found.
LEMMA FoundKept ==
    ASSUME Positions, Faucets, Counted, Typed, Ledgers, Next, NEW a \in Kinds,
           Minted(a), Found(a), Minted(a)', Latest(a)' = Latest(a),
           orphaned'[a] = orphaned[a], ~MintOf(a)
    PROVE  Found(a)'
<1> DEFINE n == <<a, Len(Latest(a))>>
<1>1. ~LoseStore
  BY DEF LoseStore, Minted
<1>2. /\ store[a] = Latest(a)
      /\ pool[a] # <<>> => at = "mintWait" /\ Assets[step] = a
      /\ n \in Consumed(Latest("wallet")) => WalletKept
      /\ at \in {"consumeWait", "asset"} => n \in Consumed(store["wallet"])
  BY DEF Found
<1>3. /\ a \in Accounts /\ "wallet" \in Accounts
      /\ Latest(a) \in Seq(TxsOf(a)) /\ chain[a] \in Seq(TxsOf(a)) /\ pool[a] \in Seq(TxsOf(a))
  BY AccountsKnown, SyncedFacts DEF Typed, Ledger
<1>4. Synced[a] = store[a] /\ ~Discarded(a)
  BY <1>2, <1>3, SyncedFacts, PrefixFacts DEF Discarded
<1>5. store'[a] = Latest(a)'
  BY <1>1, <1>2, <1>4, AccountStep
<1>6. n' = n
  OBVIOUS
<1>7. n \in Range(Latest(a))
  <2>1. Len(Latest(a)) = 1 + orphaned[a] /\ orphaned[a] \in Nat
    BY DEF Minted, Counted
  <2>2. Latest(a) # <<>>
    BY <2>1
  <2> QED BY <1>3, <2>2, NumberedFacts DEF Ledgers
<1>8. n \in Consumed(Latest("wallet"))' => WalletKept'
  <2> HIDE DEF n
  <2> QED BY <1>1, <1>2, KeptStep
<1>9. ASSUME pool'[a] # <<>>
      PROVE  at' = "mintWait" /\ Assets[step'] = a
  <2>1. pool[a] # <<>> /\ at = "mintWait" /\ Assets[step] = a
    BY <1>1, <1>2, <1>9, AccountStep
  <2>2. ~Crash
    BY <2>1, OrphanedFacts DEF Crash, Counted
  <2>3. ~MintDone
    <3>1. ~Committed(a)
      BY <1>2, <1>3, <2>1, PrefixFacts DEF Committed, Latest
    <3> QED BY <1>4, <2>1, <3>1 DEF MintDone, Wait, WaitEnds
  <2>4. UNCHANGED <<at, step>>
    BY <1>1, <2>1, <2>2, <2>3 DEF Next, Run, Start, AdoptLocal, AdoptDeployed, AdoptFails,
       DeployWallet, DeployDone, DeployFaucet, UpsertRecord, Fund, ConsumeNothing, ConsumeNotes,
       ConsumeDone, SkipAsset, MintFails, Mint, Up, CommitTx, DiscardTx
  <2> QED BY <2>1, <2>4
<1>10. ASSUME at' \in {"consumeWait", "asset"}
       PROVE  n \in Consumed(store'["wallet"])
  <2> HIDE DEF n
  <2>1. CASE ConsumeNothing \/ ConsumeNotes
    <3>1. at = "consume"
      BY <2>1 DEF ConsumeNothing, ConsumeNotes
    <3>2. pool[a] = <<>>
      BY <1>2, <3>1
    <3>3. n \in Range(Synced[a]) /\ n \in Range(chain[a])
      BY <1>2, <1>3, <1>4, <1>7, <3>2, SyncedFacts
    <3>4. CASE ConsumeNothing
      <4>1. Consumable = {} /\ store' = Synced
        BY <3>4 DEF ConsumeNothing
      <4>2. n \in Consumed(Synced["wallet"]) \/ n \in Consumed(chain["wallet"])
        BY <3>3, <4>1, NoteConsumed
      <4>3. Consumed(chain["wallet"]) \subseteq Consumed(Latest("wallet"))
        <5> DEFINE S == TxsOf("wallet")
                   l == Latest("wallet")
                   c == chain["wallet"]
        <5>1. l \in Seq(S) /\ c \in Seq(S) /\ IsPrefix(c, l)
          BY <1>3, SyncedFacts DEF Typed, Ledger
        <5> HIDE DEF S, l, c
        <5>2. Consumed(c) \subseteq Consumed(l)
          BY <5>1, ConsumedFacts
        <5> QED BY <5>2 DEF c, l
      <4>4. n \in Consumed(Synced["wallet"])
        BY <1>2, <4>2, <4>3, WalletSynced DEF n
      <4> QED BY <4>1, <4>4
    <3>5. CASE ConsumeNotes
      <4>1. Submit("wallet", Consumable, Goto("consumeWait")) /\ UNCHANGED chain
        BY <3>5 DEF ConsumeNotes
      <4>2. /\ Synced["wallet"] = Latest("wallet")
            /\ store' = [Synced EXCEPT !["wallet"] = Append(@, Consumable)]
        BY <1>10, <4>1, SubmitTakes DEF Exit
      <4>3. store'["wallet"] = Append(Synced["wallet"], Consumable)
        BY <1>3, <4>2, SyncedFacts DEF Ledger
      <4> QED BY <3>3, <4>2, <4>3, NoteConsumed
    <3> QED BY <2>1, <3>4, <3>5
  <2>2. CASE ConsumeDone
    <3>1. at = "consumeWait" /\ store' = Synced /\ ~Discarded("wallet")
      BY <1>10, <2>2 DEF ConsumeDone, Wait, WaitEnds, Exit
    <3>2. Synced["wallet"] = store["wallet"]
      BY <1>3, <3>1, SyncedFacts
    <3> QED BY <1>2, <3>1, <3>2 DEF n
  <2>3. CASE ~ConsumeNothing /\ ~ConsumeNotes /\ ~ConsumeDone
    <3>1. at \in {"consumeWait", "asset"} /\ UNCHANGED store
      <4>1. ~Mint /\ ~MintDone /\ ~DeployWallet /\ ~DeployDone
        BY <1>10 DEF Mint, MintDone, DeployWallet, DeployDone, Submit, Wait, WaitEnds, WalletDone,
                     Exit, Goto
      <4> QED BY <1>1, <1>10, <2>3, <4>1 DEF Next, Run, Start, AdoptLocal, AdoptDeployed,
               AdoptFails, DeployFaucet, UpsertRecord, Fund, SkipAsset, MintFails, Up, CommitTx,
               DiscardTx, Crash, WalletDone, Exit, Goto, disk
    <3> QED BY <1>2, <3>1 DEF n
  <2> QED BY <2>1, <2>2, <2>3
<1>11. Consumed(store["wallet"])' = Consumed(store'["wallet"])
  BY DEF Consumed, Range
<1> QED BY <1>5, <1>6, <1>8, <1>9, <1>10, <1>11 DEF Found

\* A step keeps MintedOnce.
LEMMA MintedOnceStep ==
    ASSUME Positions, Faucets, Counted, Typed, Ledgers, Next, NEW a \in Kinds, MintedOnce(a)
    PROVE  MintedOnce(a)'
<1> DEFINE tx == <<a, Len(Latest(a)) + 1>>
<1>1. Len(Latest(a)') <= 1 + orphaned'[a]
  BY MintedStep
<1>2. ASSUME Minted(a)', Minted(a), Latest(a)' = Latest(a), orphaned'[a] = orphaned[a], ~MintOf(a)
      PROVE  Found(a)'
  BY <1>2, FoundKept DEF MintedOnce
<1>3. ASSUME MintOf(a), Latest(a)' = Append(Latest(a), tx), orphaned'[a] = orphaned[a]
      PROVE  Found(a)'
  <2>1. /\ a \in Accounts /\ a # "wallet" /\ "wallet" \in Accounts /\ tx \in TxsOf(a)
        /\ Latest(a) \in Seq(TxsOf(a))
    BY AccountsKnown, SyncedFacts, SubmittedTyped
  <2>2. Latest(a)' # Latest(a) /\ Len(Latest(a)') = Len(Latest(a)) + 1 /\ Len(Latest(a)) \in Nat
    BY <1>3, Lengths
  <2>3. ~UNCHANGED network
    BY <2>2 DEF Latest, network
  <2>4. ~(orphaned' = Orphaned(pool') /\ pool'[a] # <<>>)
    BY <1>3, OrphanedFacts DEF Counted
  <2>5. /\ Takes(a, tx) /\ Synced[a] = Latest(a)
        /\ store' = [Synced EXCEPT ![a] = Append(@, tx)]
        /\ Goto("mintWait")
    BY <1>3, <2>3, <2>4, MintOutcomes
  <2>6. store'[a] = Latest(a)'
    BY <1>3, <2>1, <2>5, SyncedFacts DEF Ledger
  <2>7. at' = "mintWait" /\ Assets[step'] = a
    BY <1>3, <2>5 DEF Goto, MintOf
  <2>8. <<a, Len(Latest(a)')>> = tx
    BY <2>2
  <2>9. tx \notin Consumed(Latest("wallet"))'
    <3>1. Latest("wallet")' = Latest("wallet")
      <4> HIDE DEF tx
      <4> QED BY <2>1, <2>5, Taken DEF Takes
    <3>2. Consumed(Latest("wallet"))' = Consumed(Latest("wallet")')
      BY DEF Consumed, Range
    <3>3. ASSUME NEW b \in Kinds, tx \in Range(chain[b])
          PROVE  FALSE
      <4>1. chain[b] \in Seq(TxsOf(b)) /\ Latest(b) \in Seq(TxsOf(b)) /\ IsPrefix(chain[b], Latest(b))
            /\ Numbered(b, Latest(b))
        BY AccountsKnown, SyncedFacts DEF Typed, Ledger, Ledgers
      <4>2. tx \in Range(Latest(b))
        BY <3>3, <4>1, PrefixFacts
      <4>3. tx[1] = b
        BY <4>1, <4>2, NumberedFacts
      <4>4. b = a
        BY <4>3
      <4>5. tx \notin Range(Latest(a))
        BY <2>1, <4>1, <4>4, NumberedFacts
      <4> QED BY <4>2, <4>4, <4>5
    <3> QED BY <3>1, <3>2, <3>3 DEF Ledgers
  <2> HIDE DEF tx
  <2> QED BY <2>6, <2>7, <2>8, <2>9 DEF Found
<1>4. Minted(a)' => Found(a)'
  BY <1>2, <1>3, MintedStep
<1> QED BY <1>1, <1>4 DEF MintedOnce

-----------------------------------------------------------------------------
\* What a run has passed is on the network.

\* Who takes the process where.
Env == UNCHANGED <<at, step, store>> /\ \E x \in Accounts : CommitTx(x) \/ DiscardTx(x)

\* Each place of the process is reached by the steps that lead there, or stayed at.
LEMMA WhoMoves ==
    ASSUME Next
    PROVE  /\ at' = "deployWait" => Env \/ DeployWallet
           /\ at' = "consume" => Env \/ Fund \/ MintDone
           /\ at' = "consumeWait" => Env \/ ConsumeNotes
           /\ at' = "asset" => Env \/ ConsumeNothing \/ ConsumeDone \/ SkipAsset
           /\ at' = "mintWait" => Env \/ Mint
           /\ at' = "up" => Env \/ Up
<1>1. CASE \E x \in Accounts : CommitTx(x) \/ DiscardTx(x)
  BY <1>1 DEF Env, CommitTx, DiscardTx, disk
<1>2. CASE Run \/ Crash \/ LoseStore
  BY <1>2 DEF Run, Start, AdoptLocal, AdoptDeployed, AdoptFails, DeployWallet, DeployDone,
         DeployFaucet, UpsertRecord, Fund, ConsumeNothing, ConsumeNotes, ConsumeDone,
         SkipAsset, MintFails, Mint, MintDone, Up, Crash, LoseStore,
         Submit, Wait, WaitEnds, Exit, Goto, WalletDone
<1> QED BY <1>1, <1>2 DEF Next

\* What the network holds of an asset it keeps.
LEMMA HoldsGrows ==
    ASSUME Positions, Faucets, Typed, Next, NEW a, Holds(a, chain["wallet"])
    PROVE  Holds(a, chain["wallet"])'
<1> DEFINE S == TxsOf("wallet")
           c == chain["wallet"]
           d == chain'["wallet"]
<1>1. Typed'
  BY TypedStep
<1>2. c \in Seq(S) /\ d \in Seq(S) /\ IsPrefix(c, d)
  BY <1>1, AccountsKnown, StepMoves, LatestStep DEF Typed, Ledger, TxsOf
<1> HIDE DEF S, c, d
<1>3. Consumed(c) \subseteq Consumed(d)
  BY <1>2, ConsumedFacts
<1>4. \E n \in Consumed(d) : n[1] = a
  BY <1>3 DEF Holds, c
<1> QED BY <1>4 DEF Holds, Consumed, Range, d

\* A wallet that is behind another holds no more.
LEMMA HoldsPrefix ==
    ASSUME NEW s \in Seq(TxsOf("wallet")), NEW t \in Seq(TxsOf("wallet")), IsPrefix(s, t),
           NEW a, Holds(a, s)
    PROVE  Holds(a, t)
<1> DEFINE S == TxsOf("wallet")
<1>1. s \in Seq(S) /\ t \in Seq(S)
  OBVIOUS
<1> HIDE DEF S
<1>2. Consumed(s) \subseteq Consumed(t)
  BY <1>1, ConsumedFacts
<1> QED BY <1>2 DEF Holds

\* Where the wallet is in flight, after a step.
LEMMA InFlightStep ==
    ASSUME Positions, Faucets, Counted, Typed, Next, NEW a \in Kinds, FundedOn(a),
           orphaned'[a] = orphaned[a], pool'["wallet"] # <<>>
    PROVE  at' \in {"deployWait", "consumeWait"} /\ store'["wallet"] = Latest("wallet")'
<1> DEFINE W == "wallet"
<1>0. /\ W \in Accounts /\ chain[W] \in Seq(TxsOf(W)) /\ pool[W] \in Seq(TxsOf(W))
      /\ Latest(W) \in Seq(TxsOf(W)) /\ store[W] \in Seq(TxsOf(W))
      /\ Synced = [x \in Accounts |-> Synced[x]]
  BY AccountsKnown, SyncedFacts DEF Typed, Ledger
<1>1. ASSUME NEW tx \in TxsOf(W), NEW l \in {"deployWait", "consumeWait"},
             Submit(W, tx, Goto(l)), UNCHANGED chain, pool[W] = <<>>
      PROVE  at' \in {"deployWait", "consumeWait"} /\ store'[W] = Latest(W)'
  <2>1. ~UNCHANGED pool
    BY <1>1
  <2>2. ~(Takes(W, tx) /\ orphaned' = Orphaned(pool'))
    BY OrphanedFacts DEF Counted
  <2>3. /\ Takes(W, tx) /\ Synced[W] = Latest(W) /\ Goto(l)
        /\ store' = [Synced EXCEPT ![W] = Append(@, tx)]
    BY <1>1, <2>1, <2>2, SubmitTakes
  <2>4. Latest(W)' = Append(Latest(W), tx)
    BY <1>0, <2>3, Taken DEF Takes
  <2> QED BY <1>0, <2>3, <2>4 DEF Goto
<1>2. CASE pool[W] # <<>>
  <2>1. at \in {"deployWait", "consumeWait"} /\ store[W] = Latest(W)
    BY <1>2 DEF FundedOn
  <2>2. ~Crash
    BY <1>2, OrphanedFacts DEF Crash, Counted
  <2>3. ~Committed(W) /\ ~Discarded(W)
    <3>1. ~IsPrefix(chain[W] \o pool[W], chain[W])
      BY <1>0, <1>2, PrefixFacts
    <3>2. IsPrefix(Latest(W), Latest(W))
      BY <1>0, PrefixFacts
    <3> QED BY <2>1, <3>1, <3>2 DEF Committed, Discarded, Latest
  <2>4. ~DeployDone /\ ~ConsumeDone
    BY <2>3 DEF DeployDone, ConsumeDone, Wait, WaitEnds
  <2>5. \E x \in Accounts : CommitTx(x) \/ DiscardTx(x)
    BY <2>1, <2>2, <2>4 DEF Next, Run, Start, AdoptLocal, AdoptDeployed, AdoptFails,
       DeployWallet, DeployFaucet, UpsertRecord, Fund, ConsumeNothing, ConsumeNotes,
       SkipAsset, MintFails, Mint, MintDone, Up, LoseStore
  <2>6. PICK x \in Accounts : CommitTx(x) \/ DiscardTx(x)
    BY <2>5
  <2>7. Latest(W)' = Latest(W)
    BY <1>0, <2>6, Commits, Drops
  <2>8. UNCHANGED <<at, store>>
    BY <2>6 DEF CommitTx, DiscardTx, disk
  <2> QED BY <2>1, <2>7, <2>8
<1>3. CASE pool[W] = <<>>
  <2>1. CASE DeployWallet
    BY <1>1, <1>3, <2>1, SubmittedTyped DEF DeployWallet
  <2>2. CASE ConsumeNotes
    BY <1>1, <1>3, <2>2, SubmittedTyped DEF ConsumeNotes
  <2>3. CASE ~DeployWallet /\ ~ConsumeNotes
    <3>1. pool'[W] = pool[W]
      <4>1. CASE \E x \in Accounts : CommitTx(x) \/ DiscardTx(x)
        BY <1>0, <1>3, <4>1, Commits, Drops
      <4>2. CASE Mint
        <5> DEFINE b == Assets[step]
                   tx == <<b, Len(Latest(b)) + 1>>
        <5>1. Submit(b, tx, Goto("mintWait")) /\ UNCHANGED chain /\ b \in Kinds
          BY <4>2, AccountsKnown DEF Mint, Positions
        <5>2. b \in Accounts /\ b # W /\ tx \in TxsOf(b)
          BY <5>1, AccountsKnown, SubmittedTyped
        <5> HIDE DEF b, tx
        <5>3. Takes(b, tx) => pool'[W] = pool[W]
          BY <1>0, <5>2, Taken DEF Takes
        <5> QED BY <5>1, <5>3, SubmitTakes
      <4>3. CASE ~Mint /\ ~\E x \in Accounts : CommitTx(x) \/ DiscardTx(x)
        <5>1. UNCHANGED pool
          BY <2>3, <4>3 DEF Next, Run, Start, AdoptLocal, AdoptDeployed, AdoptFails, DeployDone,
             DeployFaucet, UpsertRecord, Fund, ConsumeNothing, ConsumeDone, SkipAsset, MintFails,
             MintDone, Up, LoseStore, Crash, Wait, network
        <5> QED BY <5>1
      <4> QED BY <4>1, <4>2, <4>3
    <3> QED BY <1>3, <3>1
  <2> QED BY <2>1, <2>2, <2>3
<1> QED BY <1>2, <1>3

\* The store's wallet is on the network where balances are read.
LEMMA AssetStep ==
    ASSUME Positions, Faucets, Typed, Next, NEW a \in Kinds, FundedOn(a), at' = "asset"
    PROVE  IsPrefix(store["wallet"], chain["wallet"])'
<1> DEFINE W == "wallet"
<1>0. /\ W \in Accounts /\ chain[W] \in Seq(TxsOf(W)) /\ store[W] \in Seq(TxsOf(W))
      /\ pool[W] = <<>> => Latest(W) = chain[W]
      /\ IsPrefix(Synced[W], Latest(W))
      /\ ~Discarded(W) => Synced[W] = store[W]
  BY AccountsKnown, SyncedFacts DEF Typed, Ledger
<1>1. \A s, c : store'[W] = s /\ chain'[W] = c /\ IsPrefix(s, c)
                  => IsPrefix(store[W], chain[W])'
  BY DEF IsPrefix
<1>2. CASE Env
  <2>1. UNCHANGED <<at, store>> /\ at = "asset" /\ pool[W] = <<>>
    BY <1>2 DEF Env, FundedOn
  <2>2. chain'[W] = chain[W]
    BY <1>0, <1>2, <2>1, Commits, Drops DEF Env
  <2>3. IsPrefix(store[W], chain[W])
    BY <2>1 DEF FundedOn
  <2> QED BY <1>1, <2>1, <2>2, <2>3
<1>3. CASE ConsumeNothing
  <2>1. at = "consume" /\ store' = Synced /\ UNCHANGED chain
    BY <1>3 DEF ConsumeNothing, network
  <2>2. IsPrefix(Synced[W], chain[W])
    BY <1>0, <2>1 DEF FundedOn
  <2> QED BY <1>1, <2>1, <2>2
<1>4. CASE ConsumeDone
  <2>1. ~Discarded(W) /\ Committed(W) /\ store' = Synced /\ UNCHANGED chain
    BY <1>4 DEF ConsumeDone, Wait, WaitEnds, Exit, network
  <2>2. IsPrefix(Synced[W], chain[W])
    BY <1>0, <2>1 DEF Committed
  <2> QED BY <1>1, <2>1, <2>2
<1>5. CASE SkipAsset
  <2>1. UNCHANGED <<store, chain>> /\ IsPrefix(store[W], chain[W])
    BY <1>5 DEF SkipAsset, FundedOn, disk, network
  <2> QED BY <1>1, <2>1
<1> QED BY <1>2, <1>3, <1>4, <1>5, WhoMoves

\* A mint that is waited for is in the store.
LEMMA MintWaitStep ==
    ASSUME Positions, Faucets, Typed, Next, NEW a \in Kinds, FundedOn(a), at' = "mintWait"
    PROVE  store'[Assets[step']] # <<>>
<1>1. CASE Env
  BY <1>1 DEF Env, FundedOn
<1>2. CASE Mint
  <2> DEFINE b == Assets[step]
             tx == <<b, Len(Latest(b)) + 1>>
  <2>1. Submit(b, tx, Goto("mintWait")) /\ UNCHANGED chain /\ b \in Kinds
    BY <1>2, AccountsKnown DEF Mint, Positions
  <2>2. b \in Accounts /\ tx \in TxsOf(b)
    BY <2>1, AccountsKnown, SubmittedTyped
  <2>3. Synced[b] \in Seq(TxsOf(b)) /\ Synced = [x \in Accounts |-> Synced[x]]
    BY <2>2, SyncedFacts DEF Ledger
  <2>4. step' = step /\ store' = [Synced EXCEPT ![b] = Append(@, tx)]
    BY <2>1, SubmitTakes DEF Goto, Exit
  <2> HIDE DEF tx
  <2>5. store'[b] # <<>>
    BY <2>2, <2>3, <2>4, AppendProperties
  <2> QED BY <2>4, <2>5
<1> QED BY <1>1, <1>2, WhoMoves

\* Before the notes are consumed.
LEMMA ConsumeStep ==
    ASSUME Positions, Faucets, Typed, Next, NEW a \in Kinds, FundedOn(a),
           at' = "consume", Passed(a)'
    PROVE  \/ Holds(a, chain["wallet"])'
           \/ store'[a] # <<>> /\ IsPrefix(store[a], chain[a])'
<1> DEFINE S == TxsOf(a)
<1>0. /\ a \in Accounts /\ chain[a] \in Seq(S) /\ store[a] \in Seq(S) /\ chain'[a] \in Seq(S)
      /\ ~Discarded(a) => Synced[a] = store[a]
  <2>1. Typed'
    BY TypedStep
  <2> QED BY <2>1, AccountsKnown, SyncedFacts DEF Typed, Ledger, TxsOf
<1>1. \A s, c : store'[a] = s /\ chain'[a] = c /\ IsPrefix(s, c)
                  => IsPrefix(store[a], chain[a])'
  BY DEF IsPrefix
<1>2. CASE Env
  <2>1. at = "consume" /\ Passed(a) /\ UNCHANGED store
    BY <1>2 DEF Env, Passed
  <2>2. CASE Holds(a, chain["wallet"])
    BY <2>2, HoldsGrows
  <2>3. CASE store[a] # <<>> /\ IsPrefix(store[a], chain[a])
    <3>1. IsPrefix(chain[a], chain'[a])
      BY <1>0, ChainGrows
    <3> DEFINE s == store[a]
               c == chain[a]
               d == chain'[a]
    <3> HIDE DEF S, s, c, d
    <3>2. IsPrefix(s, d)
      BY <1>0, <2>3, <3>1, PrefixChain DEF s, c, d
    <3>3. IsPrefix(store[a], chain'[a])
      BY <3>2 DEF s, d
    <3> QED BY <1>1, <2>1, <2>3, <3>3
  <2> QED BY <2>1, <2>2, <2>3 DEF FundedOn
<1>3. CASE Fund
  <2>1. step' = 1
    BY <1>3 DEF Fund
  <2>2. ~Passed(a)'
    BY <2>1 DEF Passed
  <2> QED BY <2>2
<1>4. CASE MintDone
  <2>1. /\ at = "mintWait" /\ step' = step + 1 /\ store' = Synced /\ UNCHANGED chain
        /\ ~Discarded(Assets[step]) /\ Committed(Assets[step])
    BY <1>4 DEF MintDone, Wait, WaitEnds, Exit, network
  <2>2. step \in 1..Len(Assets) /\ Len(Assets) \in Nat
    BY <2>1, AccountsKnown DEF Positions
  <2>3. PICK j \in 1..(step' - 1) : Assets[j] = a
    BY DEF Passed
  <2>4. CASE j = step
    <3>1. Assets[step] = a
      BY <2>3, <2>4
    <3>2. store[a] # <<>>
      BY <2>1, <3>1 DEF FundedOn
    <3>3. Committed(a) /\ ~Discarded(a)
      BY <2>1, <3>1
    <3>4. IsPrefix(store[a], chain[a]) /\ Synced[a] = store[a]
      BY <1>0, <3>3 DEF Committed
    <3> QED BY <1>1, <2>1, <3>2, <3>4
  <2>5. CASE j # step
    <3>1. j \in 1..(step - 1)
      BY <2>1, <2>2, <2>3, <2>5
    <3>2. Holds(a, chain["wallet"])
      BY <2>1, <2>3, <3>1 DEF FundedOn, Passed
    <3> QED BY <3>2, HoldsGrows
  <2> QED BY <2>4, <2>5
<1> QED BY <1>2, <1>3, <1>4, WhoMoves

\* A note of an asset that the store has and the network has committed.
LEMMA FirstNote ==
    ASSUME Typed, Ledgers, NEW a \in Kinds, store[a] # <<>>, IsPrefix(store[a], chain[a])
    PROVE  \E n \in Range(Synced[a]) \cap Range(chain[a]) : n[1] = a
<1> DEFINE S == TxsOf(a)
           s == store[a]
           c == chain[a]
           l == Latest(a)
<1>1. /\ s \in Seq(S) /\ c \in Seq(S) /\ l \in Seq(S) /\ IsPrefix(c, l) /\ IsPrefix(s, c)
      /\ Numbered(a, l) /\ s # <<>>
      /\ (IsPrefix(s, l) => Synced[a] = s)
  BY AccountsKnown, SyncedFacts DEF Typed, Ledger, Ledgers, Discarded
<1> HIDE DEF S, s, c, l
<1>2. IsPrefix(s, l)
  BY <1>1, PrefixChain
<1>3. Numbered(a, s) /\ Range(s) \subseteq Range(c)
  BY <1>1, <1>2, NumberedFacts, PrefixFacts
<1>4. <<a, Len(s)>> \in Range(s)
  BY <1>1, <1>3, NumberedFacts
<1> QED BY <1>1, <1>2, <1>3, <1>4 DEF c

\* While the notes are consumed.
LEMMA ConsumeWaitStep ==
    ASSUME Positions, Faucets, Typed, Ledgers, Next, NEW a \in Kinds, FundedOn(a),
           at' = "consumeWait", Passed(a)'
    PROVE  Holds(a, chain["wallet"])' \/ Holds(a, store["wallet"])'
<1>0. "wallet" \in Accounts /\ Synced = [x \in Accounts |-> Synced[x]]
  BY AccountsKnown, SyncedFacts DEF Ledger
<1>1. CASE Env
  <2>1. at = "consumeWait" /\ Passed(a) /\ UNCHANGED store
    BY <1>1 DEF Env, Passed
  <2>2. Holds(a, store["wallet"]) => Holds(a, store["wallet"])'
    BY <2>1 DEF Holds, Consumed, Range
  <2> QED BY <2>1, <2>2, HoldsGrows DEF FundedOn
<1>2. CASE ConsumeNotes
  <2>1. at = "consume" /\ Submit("wallet", Consumable, Goto("consumeWait")) /\ UNCHANGED chain
    BY <1>2 DEF ConsumeNotes
  <2>2. /\ step' = step /\ Synced["wallet"] = Latest("wallet")
        /\ store' = [Synced EXCEPT !["wallet"] = Append(@, Consumable)]
    BY <2>1, SubmitTakes DEF Goto, Exit
  <2>3. store'["wallet"] = Append(Synced["wallet"], Consumable)
    BY <1>0, <2>2
  <2>4. Passed(a)
    BY <2>2 DEF Passed
  <2>5. CASE Holds(a, chain["wallet"])
    BY <2>5, HoldsGrows
  <2>6. CASE store[a] # <<>> /\ IsPrefix(store[a], chain[a])
    <3>1. PICK n \in Range(Synced[a]) \cap Range(chain[a]) : n[1] = a
      BY <2>6, FirstNote
    <3>2. n \in Consumed(Append(Synced["wallet"], Consumable))
      BY <2>2, <3>1, NoteConsumed
    <3>3. n \in Consumed(store'["wallet"])
      BY <2>3, <3>2
    <3>4. Holds(a, store'["wallet"])
      BY <3>1, <3>3 DEF Holds
    <3> QED BY <3>4 DEF Holds, Consumed, Range
  <2> QED BY <2>1, <2>4, <2>5, <2>6 DEF FundedOn
<1> QED BY <1>1, <1>2, WhoMoves

\* Where balances are read, what the run has passed is held.
LEMMA PassedStep ==
    ASSUME Positions, Faucets, Typed, Ledgers, Next, NEW a \in Kinds, FundedOn(a),
           at' \in {"asset", "mintWait"}, Passed(a)'
    PROVE  Holds(a, chain["wallet"])'
<1> DEFINE W == "wallet"
<1>0. /\ W \in Accounts /\ chain[W] \in Seq(TxsOf(W)) /\ store[W] \in Seq(TxsOf(W))
      /\ pool[W] = <<>> => Latest(W) = chain[W]
      /\ Synced[W] \in Seq(TxsOf(W)) /\ IsPrefix(Synced[W], Latest(W))
  BY AccountsKnown, SyncedFacts DEF Typed, Ledger
<1>1. CASE Env
  <2>1. at \in {"asset", "mintWait"} /\ Passed(a)
    BY <1>1 DEF Env, Passed
  <2> QED BY <2>1, HoldsGrows DEF FundedOn
<1>2. CASE ConsumeNothing
  <2>1. at = "consume" /\ step' = step /\ Consumable = {}
    BY <1>2 DEF ConsumeNothing, Goto
  <2>2. Passed(a) /\ pool[W] = <<>>
    BY <2>1 DEF Passed, FundedOn
  <2>3. CASE store[a] # <<>> /\ IsPrefix(store[a], chain[a])
    <3>1. PICK n \in Range(Synced[a]) \cap Range(chain[a]) : n[1] = a
      BY <2>3, FirstNote
    <3>2. n \in Consumed(Synced[W]) \/ n \in Consumed(chain[W])
      BY <2>1, <3>1, NoteConsumed
    <3>3. Holds(a, Synced[W]) \/ Holds(a, chain[W])
      BY <3>1, <3>2 DEF Holds
    <3>4. Holds(a, chain[W])
      BY <1>0, <2>2, <3>3, HoldsPrefix
    <3> QED BY <3>4, HoldsGrows
  <2> QED BY <2>1, <2>2, <2>3, HoldsGrows DEF FundedOn
<1>3. CASE ConsumeDone
  <2>1. at = "consumeWait" /\ step' = step /\ Committed(W)
    BY <1>3 DEF ConsumeDone, Wait, WaitEnds, Goto, Exit
  <2>2. Holds(a, chain[W]) \/ Holds(a, store[W])
    BY <2>1 DEF Passed, FundedOn
  <2>3. Holds(a, chain[W])
    BY <1>0, <2>1, <2>2, HoldsPrefix DEF Committed
  <2> QED BY <2>3, HoldsGrows
<1>4. CASE SkipAsset
  <2>1. /\ at = "asset" /\ step' = step + 1 /\ step <= Len(Assets) /\ EnoughOf(Assets[step])
    BY <1>4 DEF SkipAsset
  <2>2. step \in Nat /\ Len(Assets) \in Nat
    BY AccountsKnown DEF Positions
  <2>3. PICK j \in 1..(step' - 1) : Assets[j] = a
    BY DEF Passed
  <2>4. CASE j = step
    <3>1. Holds(a, store[W]) /\ IsPrefix(store[W], chain[W])
      BY <2>1, <2>3, <2>4 DEF EnoughOf, FundedOn
    <3>2. Holds(a, chain[W])
      BY <1>0, <3>1, HoldsPrefix
    <3> QED BY <3>2, HoldsGrows
  <2>5. CASE j # step
    <3>1. j \in 1..(step - 1)
      BY <2>1, <2>2, <2>3, <2>5
    <3>2. Holds(a, chain[W])
      BY <2>1, <2>3, <3>1 DEF FundedOn, Passed
    <3> QED BY <3>2, HoldsGrows
  <2> QED BY <2>4, <2>5
<1>5. CASE Mint
  <2>1. at = "asset" /\ (step' = step \/ at' = "off")
    BY <1>5 DEF Mint, Submit, Goto, Exit
  <2>2. Passed(a)
    BY <2>1 DEF Passed
  <2> QED BY <2>1, <2>2, HoldsGrows DEF FundedOn
<1> QED BY <1>1, <1>2, <1>3, <1>4, <1>5, WhoMoves

\* A service that is up has passed every asset.
LEMMA UpStep ==
    ASSUME Positions, Faucets, Typed, Next, NEW a \in Kinds, FundedOn(a), at' = "up"
    PROVE  Holds(a, chain["wallet"])'
<1>1. CASE Env
  <2>1. at = "up"
    BY <1>1 DEF Env
  <2> QED BY <2>1, HoldsGrows DEF FundedOn
<1>2. CASE Up
  <2>1. at = "asset" /\ step > Len(Assets) /\ step \in Nat /\ Len(Assets) \in Nat
    BY <1>2, AccountsKnown DEF Up, Positions
  <2>2. PICK j \in 1..Len(Assets) : Assets[j] = a
    BY AccountsKnown
  <2>3. j \in 1..(step - 1)
    BY <2>1, <2>2
  <2>4. Holds(a, chain["wallet"])
    BY <2>1, <2>2, <2>3 DEF Passed, FundedOn
  <2> QED BY <2>4, HoldsGrows
<1> QED BY <1>1, <1>2, WhoMoves

\* A step keeps FundedOn, as long as nothing of the asset is orphaned.
LEMMA FundedStep ==
    ASSUME Positions, Faucets, Counted, Typed, Ledgers, Next, NEW a \in Kinds,
           orphaned[a] = 0 => FundedOn(a), orphaned'[a] = 0
    PROVE  FundedOn(a)'
<1>1. orphaned'[a] = orphaned[a] /\ FundedOn(a)
  <2>1. orphaned[a] \in Nat /\ orphaned'[a] \in {orphaned[a], orphaned[a] + 1}
    BY CountedStep DEF Counted
  <2> QED BY <2>1
<1>2. pool'["wallet"] # <<>> =>
         at' \in {"deployWait", "consumeWait"} /\ store'["wallet"] = Latest("wallet")'
  BY <1>1, InFlightStep
<1>3. at' = "asset" => IsPrefix(store["wallet"], chain["wallet"])'
  BY <1>1, AssetStep
<1>4. at' = "mintWait" => store'[Assets[step']] # <<>>
  BY <1>1, MintWaitStep
<1>5. at' = "consume" /\ Passed(a)' =>
         Holds(a, chain["wallet"])' \/ (store'[a] # <<>> /\ IsPrefix(store[a], chain[a])')
  BY <1>1, ConsumeStep
<1>6. at' = "consumeWait" /\ Passed(a)' =>
         Holds(a, chain["wallet"])' \/ Holds(a, store["wallet"])'
  BY <1>1, ConsumeWaitStep
<1>7. at' \in {"asset", "mintWait"} /\ Passed(a)' => Holds(a, chain["wallet"])'
  BY <1>1, PassedStep
<1>8. at' = "up" => Holds(a, chain["wallet"])'
  BY <1>1, UpStep
<1> QED BY <1>2, <1>3, <1>4, <1>5, <1>6, <1>7, <1>8 DEF FundedOn

-----------------------------------------------------------------------------
\* The theorems.

BootstrapInv ==
    /\ Positions /\ Faucets /\ Counted /\ Typed /\ Ledgers
    /\ AllMintedOnce /\ AllFundedOn

\* The start.
LEMMA InitBootstrap == Init => BootstrapInv
<1> SUFFICES ASSUME Init
             PROVE  BootstrapInv
  OBVIOUS
<1>1. /\ record = NoRecord /\ store = NoTransactions /\ held = {}
      /\ chain = NoTransactions /\ pool = NoTransactions
      /\ at = "off" /\ step = 1 /\ made = 0
      /\ orphaned = [a \in Kinds |-> 0] /\ failures = 0
  BY DEF Init
<1>2. \A x \in Accounts : /\ store[x] = <<>> /\ chain[x] = <<>> /\ pool[x] = <<>>
                          /\ <<>> \in Seq(TxsOf(x))
  BY <1>1 DEF NoTransactions
<1>3. Positions
  BY <1>1, AccountsKnown DEF Positions
<1>4. Faucets
  BY <1>1 DEF Faucets
<1>5. Counted
  BY <1>1, MidenBootstrapAssumption DEF Counted
<1>6. Typed
  BY <1>1, <1>2 DEF Typed, Ledger, NoTransactions
<1>7. \A x \in Accounts : Latest(x) = <<>>
  <2> TAKE x \in Accounts
  <2>1. <<>> \o <<>> = <<>>
    BY EmptySeq, ConcatEmptySeq
  <2> QED BY <1>2, <2>1 DEF Latest
<1>8. Consumed(<<>>) = {} /\ Len(<<>>) = 0
  BY DEF Consumed, Range
<1>9. Ledgers
  BY <1>7, <1>8, AccountsKnown DEF Ledgers, Numbered
<1>10. AllMintedOnce
  <2>1. \A a \in Kinds : Len(Latest(a)) = 0 /\ orphaned[a] = 0
    BY <1>1, <1>7, <1>8, AccountsKnown
  <2> QED BY <1>1, <2>1 DEF AllMintedOnce, MintedOnce, Minted
<1>11. AllFundedOn
  BY <1>1, <1>2, AccountsKnown DEF AllFundedOn, FundedOn
<1> QED BY <1>3, <1>4, <1>5, <1>6, <1>9, <1>10, <1>11 DEF BootstrapInv

\* A step.
LEMMA NextBootstrap == BootstrapInv /\ [Next]_vars => BootstrapInv'
<1> SUFFICES ASSUME BootstrapInv, [Next]_vars
             PROVE  BootstrapInv'
  OBVIOUS
<1>1. Positions /\ Faucets /\ Counted /\ Typed /\ Ledgers /\ AllMintedOnce /\ AllFundedOn
  BY DEF BootstrapInv
<1>2. CASE Next
  <2>1. Positions' /\ Faucets' /\ Counted' /\ Typed' /\ Ledgers'
    BY <1>1, <1>2, PositionsStep, FaucetsStep, CountedStep, TypedStep, LedgersStep
  <2>2. \A a \in Kinds : MintedOnce(a)'
    BY <1>1, <1>2, MintedOnceStep DEF AllMintedOnce
  <2>3. \A a \in Kinds : orphaned'[a] = 0 => FundedOn(a)'
    BY <1>1, <1>2, FundedStep DEF AllFundedOn
  <2> QED BY <2>1, <2>2, <2>3 DEF BootstrapInv, AllMintedOnce, AllFundedOn
<1>3. CASE UNCHANGED vars
  <2>1. UNCHANGED <<record, store, held, chain, pool, at, step, made, orphaned, failures>>
    BY <1>3 DEF vars, disk, network, history
  <2>2. Positions' /\ Faucets' /\ Counted' /\ Typed'
    BY <1>1, <2>1 DEF Positions, Faucets, Counted, Typed, Ledger, TxsOf, NoRecord
  <2>3. \A x : Latest(x)' = Latest(x)
    BY <2>1 DEF Latest
  <2>4. Ledgers'
    BY <1>1, <2>1, <2>3 DEF Ledgers, Numbered, Consumed, Range, NoRecord
  <2>5. AllMintedOnce'
    BY <1>1, <2>1, <2>3 DEF AllMintedOnce, MintedOnce, Minted, Found, WalletKept, Consumed, Range,
                            IsPrefix, NoRecord
  <2>6. AllFundedOn'
    BY <1>1, <2>1, <2>3 DEF AllFundedOn, FundedOn, Passed, Holds, Consumed, Range, IsPrefix
  <2> QED BY <2>2, <2>4, <2>5, <2>6 DEF BootstrapInv
<1> QED BY <1>2, <1>3

\* The invariant holds at every start of the service and between its steps.
THEOREM Bootstrap == Spec => []BootstrapInv
<1>1. Init => BootstrapInv
  BY InitBootstrap
<1>2. BootstrapInv /\ [Next]_vars => BootstrapInv'
  BY NextBootstrap
<1> QED BY <1>1, <1>2, PTL DEF Spec

\* Every variable of the bootstrap has its type.
THEOREM TypeCorrect == Spec => []TypeOK
<1>1. BootstrapInv => TypeOK
  <2> SUFFICES ASSUME BootstrapInv
               PROVE  TypeOK
    OBVIOUS
  <2>1. Positions /\ Faucets /\ Counted /\ Typed
    BY DEF BootstrapInv
  <2>2. DOMAIN store = Accounts /\ DOMAIN chain = Accounts /\ DOMAIN pool = Accounts
    BY <2>1 DEF Typed, Ledger
  <2>3. orphaned \in [Kinds -> 0..MaxFailures]
    BY <2>1, MidenBootstrapAssumption DEF Counted
  <2> QED BY <2>1, <2>2, <2>3 DEF TypeOK, Positions, Faucets, Counted
<1> QED BY <1>1, Bootstrap, PTL

\* However often the service is restarted, an asset is minted once, and once more only for
\* every time the process died with a mint of it, or a transaction of the wallet, in flight.
THEOREM SupplyIsBounded == Spec => []SupplyBounded
<1>1. BootstrapInv => SupplyBounded
  BY DEF BootstrapInv, AllMintedOnce, MintedOnce, SupplyBounded
<1> QED BY <1>1, Bootstrap, PTL

\* A service that is up holds on the network every asset of which nothing was orphaned.
THEOREM FundedWhenUp == Spec => []FundedOnceUp
<1>1. BootstrapInv => FundedOnceUp
  BY DEF BootstrapInv, AllFundedOn, FundedOn, FundedOnceUp
<1> QED BY <1>1, Bootstrap, PTL

\* The faucets are written down once and for all, when the store has the keys of all.
THEOREM FaucetsRecordedOnce == Spec => RecordedOnce
<1>1. BootstrapInv /\ [Next]_vars =>
         [record' # record => record = NoRecord /\ Range(record') \subseteq held]_vars
  BY RecordStep DEF BootstrapInv
<1> QED BY <1>1, Bootstrap, PTL DEF Spec, RecordedOnce
===============================================================================
