---------------------------- MODULE MidenBootstrap ----------------------------
(***************************************************************************)
(* bootstrap_miden (src/chains/miden_bootstrap.rs): what main() does with     *)
(* Miden at every start, before it resumes any quote.  It makes or adopts the *)
(* solver's wallet, makes the faucets once, writes them to Postgres and tops  *)
(* up the solver's balance with mints it consumes.                            *)
(*                                                                           *)
(* The accounts are private: the network keeps a commitment, the store on     *)
(* disk the state.  An account is therefore the sequence of its transactions, *)
(* and two commitments are equal when the sequences are.  A transaction of    *)
(* the wallet is the set of notes it consumes, one of a faucet the note it    *)
(* mints.  One mint fills the target of its asset.                            *)
(***************************************************************************)
EXTENDS Naturals, SequencesExt

CONSTANTS
    Assets,        \* SUPPORTED_ASSETS, in the order of the code
    MaxFailures    \* bound: crashes, discarded transactions and lost stores

ASSUME MidenBootstrapAssumption ==
    /\ Assets \in Seq(Range(Assets)) /\ Assets # <<>>
    /\ "wallet" \notin Range(Assets)
    /\ MaxFailures \in Nat

Kinds    == Range(Assets)
Accounts == Kinds \cup {"wallet"}

VARIABLES
    record,    \* Postgres: asset -> its faucet, or NoRecord
    store,     \* the store: account -> the transactions it has applied
    held,      \* the store: the faucets whose key and account it has
    chain,     \* the network: account -> committed transactions
    pool,      \* the network: account -> transactions it has taken and not committed
    at, step,  \* the process: its next step, its position in Assets
    made,      \* how many faucets were ever made
    orphaned,  \* asset -> how often the process died with a mint of it, or a transaction
               \* of the wallet, in flight
    failures   \* how many there were: it only bounds the model

network == <<chain, pool>>
disk    == <<store, held>>
history == <<orphaned, failures>>
vars    == <<record, disk, network, at, step, made, history>>

NoRecord == <<>>
NoTransactions == [x \in Accounts |-> <<>>]

\* build_solver_wallet, deployed_account_from_new: the wallet follows from the seed as long
\* as it is new, and after the empty transaction that deploys it.
New == <<>>
Deploy == {}
Deployed == <<Deploy>>

Consumed(txs) == UNION Range(txs)

\* A note of an asset is worth its target, so a balance reaches the target or is nothing.
Holds(a, txs) == \E n \in Consumed(txs) : n[1] = a

Init ==
    /\ record = NoRecord
    /\ store = NoTransactions /\ held = {}
    /\ chain = NoTransactions /\ pool = NoTransactions
    /\ at = "off" /\ step = 1 /\ made = 0
    /\ orphaned = [a \in Kinds |-> 0] /\ failures = 0

-----------------------------------------------------------------------------
\* The Miden client.

\* What the node takes a transaction of an account to follow on.
Latest(x) == chain[x] \o pool[x]

\* A transaction the store has applied and the network has dropped.
Discarded(x) == ~IsPrefix(store[x], Latest(x))
Committed(x) == IsPrefix(store[x], chain[x])

\* Mutation: wait_for_tx goes on waiting for a transaction that was discarded.
WaitEndsOnCommit(x, next) ==
    ~Discarded(x) /\ Committed(x) /\ next

\* Mutation: it answers Ok while the transaction is pending.
WaitEndsAtOnce(x, next) ==
    \/ Discarded(x) /\ at' = "off" /\ step' = 1
    \/ ~Discarded(x) /\ next

\* sync_with_retry: the store drops what the network has discarded.
Synced == [x \in Accounts |-> IF Discarded(x) THEN chain[x] ELSE store[x]]

\* A process that dies, or whose call answers an Err that reaches main().
Exit == at' = "off" /\ step' = 1
Orphaned(p) ==
    [a \in Kinds |-> orphaned[a] + (IF p[a] = <<>> /\ p["wallet"] = <<>> THEN 0 ELSE 1)]
Fail == failures < MaxFailures /\ failures' = failures + 1

Goto(l) == at' = l /\ UNCHANGED step

\* submit_new_transaction: the node refuses a transaction that does not follow on what it
\* knows of the account.  The store applies it afterwards; a process may die in between.
Submit(x, tx, next) ==
    IF Synced[x] # Latest(x)
      THEN Exit /\ store' = Synced /\ UNCHANGED <<pool, history>>
      ELSE /\ pool' = [pool EXCEPT ![x] = Append(@, tx)]
           /\ \/ store' = [Synced EXCEPT ![x] = Append(@, tx)] /\ next /\ UNCHANGED history
              \/ store' = Synced /\ Exit /\ Fail /\ orphaned' = Orphaned(pool')

\* wait_for_tx: the loop syncs and looks at the status of the transaction.
WaitEnds(x, next) ==
    \/ Discarded(x) /\ Exit
    \/ ~Discarded(x) /\ Committed(x) /\ next

Wait(x, next) ==
    /\ WaitEnds(x, next)
    /\ store' = Synced
    /\ UNCHANGED <<record, held, network, made, history>>

-----------------------------------------------------------------------------
\* create_solver_wallet: the commitment on the network is compared with the account in the
\* store before the store has synced.

\* Mutation: the record of an earlier run is not looked at.
WalletDoneAgain == Goto("faucet")

WalletDone == Goto(IF record = NoRecord THEN "faucet" ELSE "fund")

Start ==
    /\ at = "off"
    /\ Goto("wallet")
    /\ UNCHANGED <<record, disk, network, made, history>>

Known == chain["wallet"] # New
LocalServes == store["wallet"] # New /\ (Known => store["wallet"] = chain["wallet"])

AdoptLocal ==
    /\ at = "wallet" /\ LocalServes
    /\ WalletDone
    /\ UNCHANGED <<record, disk, network, made, history>>

\* The store does not overwrite an account by one of a lower nonce.
Reconstructs == chain["wallet"] = Deployed /\ Len(store["wallet"]) <= Len(Deployed)

AdoptDeployed ==
    /\ at = "wallet" /\ ~LocalServes /\ Known /\ Reconstructs
    /\ store' = [store EXCEPT !["wallet"] = Deployed]
    /\ WalletDone
    /\ UNCHANGED <<record, held, network, made, history>>

\* "use a fresh MIDEN_MASTER_SEED_HEX or restore the matching Miden store"
AdoptFails ==
    /\ at = "wallet" /\ ~LocalServes /\ Known /\ ~Reconstructs
    /\ Exit
    /\ UNCHANGED <<record, disk, network, made, history>>

\* ensure_account_deployed, for a wallet neither side knows.
DeployWallet ==
    /\ at = "wallet" /\ ~LocalServes /\ ~Known
    /\ Submit("wallet", Deploy, Goto("deployWait"))
    /\ UNCHANGED <<record, held, chain, made>>

DeployDone == at = "deployWait" /\ Wait("wallet", WalletDone)

-----------------------------------------------------------------------------
\* deploy_faucet, upsert_miden_bootstrap: the key and the account of each faucet go to the
\* store, and all of them to Postgres afterwards.

DeployFaucet ==
    /\ at = "faucet"
    /\ made' = made + 1
    /\ held' = held \cup {made + 1}
    /\ at' = IF step = Len(Assets) THEN "record" ELSE "faucet"
    /\ step' = step + 1
    /\ UNCHANGED <<record, store, network, history>>

\* Mutation: the ids are counted from one too many.
FaucetIdsLate == [a \in Kinds |->
                     made + 1 - Len(Assets) + CHOOSE i \in 1..Len(Assets) : Assets[i] = a]

\* The faucets of this run, in the order they were made.
FaucetIds == [a \in Kinds |->
                 made - Len(Assets) + CHOOSE i \in 1..Len(Assets) : Assets[i] = a]

UpsertRecord ==
    /\ at = "record"
    /\ record' = FaucetIds
    /\ Goto("fund")
    /\ UNCHANGED <<disk, network, made, history>>

-----------------------------------------------------------------------------
\* ensure_solver_liquidity

\* Mutation: the notes an earlier run left are not consumed first.
FundDirectly ==
    /\ at = "fund"
    /\ at' = "asset" /\ step' = 1
    /\ UNCHANGED <<record, disk, network, made, history>>

\* The notes an earlier run left are consumed first.
Fund ==
    /\ at = "fund"
    /\ at' = "consume" /\ step' = 1
    /\ UNCHANGED <<record, disk, network, made, history>>

\* The notes the store knows: minted by a transaction it has applied, committed, and not
\* consumed by one of the wallet that it or the network has.
Arrived(a) == Range(Synced[a]) \cap Range(chain[a])
Consumable ==
    (UNION {Arrived(a) : a \in Kinds})
        \ (Consumed(Synced["wallet"]) \cup Consumed(chain["wallet"]))

\* consume_all_notes
ConsumeNothing ==
    /\ at = "consume" /\ Consumable = {}
    /\ store' = Synced
    /\ Goto("asset")
    /\ UNCHANGED <<record, held, network, made, history>>

ConsumeNotes ==
    /\ at = "consume" /\ Consumable # {}
    /\ Submit("wallet", Consumable, Goto("consumeWait"))
    /\ UNCHANGED <<record, held, chain, made>>

ConsumeDone == at = "consumeWait" /\ Wait("wallet", Goto("asset"))

\* The balance is read from the store.
EnoughOf(a) == Holds(a, store["wallet"])

SkipAsset ==
    /\ at = "asset" /\ step <= Len(Assets) /\ EnoughOf(Assets[step])
    /\ step' = step + 1 /\ UNCHANGED at
    /\ UNCHANGED <<record, disk, network, made, history>>

MintFails ==
    /\ at = "asset" /\ step <= Len(Assets) /\ ~EnoughOf(Assets[step])
    /\ record[Assets[step]] \notin held
    /\ Exit
    /\ UNCHANGED <<record, disk, network, made, history>>

Mint ==
    /\ at = "asset" /\ step <= Len(Assets) /\ ~EnoughOf(Assets[step])
    /\ LET a == Assets[step] IN
         /\ record[a] \in held
         /\ Submit(a, <<a, Len(Latest(a)) + 1>>, Goto("mintWait"))
    /\ UNCHANGED <<record, held, chain, made>>

MintDone == at = "mintWait" /\ Wait(Assets[step], at' = "consume" /\ step' = step + 1)

Up ==
    /\ at = "asset" /\ step > Len(Assets)
    /\ at' = "up" /\ step' = 1
    /\ UNCHANGED <<record, disk, network, made, history>>

-----------------------------------------------------------------------------
\* The environment.

CommitTx(x) ==
    /\ pool[x] # <<>>
    /\ chain' = [chain EXCEPT ![x] = Append(@, Head(pool[x]))]
    /\ pool' = [pool EXCEPT ![x] = Tail(@)]
    /\ UNCHANGED <<record, disk, at, step, made, history>>

\* What follows on a discarded transaction is discarded with it.
DiscardTx(x) ==
    /\ pool[x] # <<>>
    /\ pool' = [pool EXCEPT ![x] = <<>>]
    /\ Fail
    /\ UNCHANGED <<record, disk, chain, at, step, made, orphaned>>

Crash ==
    /\ at # "off"
    /\ Exit /\ Fail
    /\ orphaned' = Orphaned(pool)
    /\ UNCHANGED <<record, disk, network, made>>

LoseStore ==
    /\ at = "off" /\ (store # NoTransactions \/ held # {})
    /\ store' = NoTransactions /\ held' = {}
    /\ Fail
    /\ UNCHANGED <<record, network, at, step, made, orphaned>>

Run ==
    \/ Start \/ AdoptLocal \/ AdoptDeployed \/ AdoptFails \/ DeployWallet \/ DeployDone
    \/ DeployFaucet \/ UpsertRecord \/ Fund
    \/ ConsumeNothing \/ ConsumeNotes \/ ConsumeDone
    \/ SkipAsset \/ MintFails \/ Mint \/ MintDone \/ Up

Next ==
    \/ Run
    \/ \E x \in Accounts : CommitTx(x) \/ DiscardTx(x)
    \/ Crash
    \/ LoseStore

\* Somebody restarts the service when it has exited, as the runbook says, and the network
\* commits a transaction that it keeps.
Spec == Init /\ [][Next]_vars /\ WF_vars(Run) /\ \A x \in Accounts : WF_vars(CommitTx(x))

-----------------------------------------------------------------------------
TypeOK ==
    /\ record = NoRecord \/ record \in [Kinds -> 1..made]
    /\ DOMAIN store = Accounts /\ DOMAIN chain = Accounts /\ DOMAIN pool = Accounts
    /\ held \subseteq 1..made
    /\ at \in {"off", "wallet", "deployWait", "faucet", "record", "fund", "consume",
               "consumeWait", "asset", "mintWait", "up"}
    /\ step \in 1..(Len(Assets) + 1)
    /\ orphaned \in [Kinds -> 0..MaxFailures] /\ failures \in 0..MaxFailures

\* The faucets users hold tokens of are written down once and for all, after the store has
\* the keys of every one of them, however often the service is restarted.
RecordedOnce ==
    [][record' # record => /\ record = NoRecord
                           /\ Range(record') \subseteq held]_vars

\* A service that is up has its liquidity on the network, not in a transaction that may
\* still be discarded, unless it took over one that an earlier run left in flight.
FundedOnceUp ==
    at = "up" => \A a \in Kinds : orphaned[a] = 0 => Holds(a, chain["wallet"])

\* An asset is minted once, and once more only after the process died with a mint of it, or
\* a transaction of the wallet, in flight: liquidity an earlier run minted is found and
\* consumed before it is minted again.
SupplyBounded == \A a \in Kinds : Len(Latest(a)) <= 1 + orphaned[a]

\* The store cannot go on from what the network has: it is behind the wallet or a faucet, or
\* ahead of a deployed wallet by a transaction that was discarded, or the faucets are lost.
Stranded ==
    \/ Known /\ ~LocalServes /\ ~Reconstructs /\ store["wallet"] # Latest("wallet")
    \/ \E a \in Kinds : /\ ~Holds(a, chain["wallet"])
                        /\ \/ ~IsPrefix(chain[a], store[a])
                           \/ record # NoRecord /\ record[a] \notin held

\* A service that is restarted whenever it exits comes up, unless it is stranded.
ComesUpUnlessStranded == (at = "off") ~> (at = "up" \/ Stranded)
=============================================================================
