---------------------------- MODULE InboundQuotes ----------------------------
(***************************************************************************)
(* What only EVM-origin quotes need: the deposit watcher, the mint on Miden,  *)
(* and the refund on the EVM chain.                                           *)
(***************************************************************************)
EXTENDS BridgeTasks

-----------------------------------------------------------------------------
\* refund_record, on the EVM chain.

\* send_transaction: the node has the transaction, Postgres knows nothing of it yet.
RefundSend(t) ==
    LET q == job[t].q IN
    /\ RefundsNow(t, q)
    /\ Origin[q] = "evm"
    /\ SendRefund(t, RefundAmount(q))
    /\ job' = [job EXCEPT ![t].id = Len(refunds[q]) + 1]
    /\ pc' = [pc EXCEPT ![t] = "refundAppend"]
    /\ UNCHANGED <<store, landed, consumes, payouts, expired, phase, todo, failures>>

\* Mutation: the refund is sent again until it is confirmed.
RefundAppendResend(t) ==
    LET q == job[t].q  id == job[t].id IN
    /\ pc[t] = "refundAppend"
    /\ BurnKey(q, RefundKey(id))
    /\ refundIds' = [refundIds EXCEPT ![q] = Append(@, id)]
    /\ Goto(t, "refundSend")
    /\ UNCHANGED <<status, log, depositTxs, consumeIds, payoutIds, chains, phase, failures>>

\* The key of a send is made from the hash the send returned, so it is always new: the
\* hash follows it into the row.
RefundAppend(t) ==
    LET q == job[t].q  id == job[t].id IN
    /\ pc[t] = "refundAppend"
    /\ BurnKey(q, RefundKey(id))
    /\ refundIds' = [refundIds EXCEPT ![q] = Append(@, id)]
    /\ Goto(t, "refundConfirm")
    /\ UNCHANGED <<status, log, depositTxs, consumeIds, payoutIds, chains, phase, failures>>

\* One confirmation later refund_record appends the hash itself.
RefundConfirm(t) ==
    /\ pc[t] = "refundConfirm"
    /\ refundIds' = [refundIds EXCEPT ![job[t].q] = Append(@, job[t].id)]
    /\ Return(t)
    /\ UNCHANGED <<status, log, keys, depositTxs, consumeIds, payoutIds, chains, phase, failures>>

-----------------------------------------------------------------------------
\* mint_quote_to_user for the payout.

Mints(t) == pc[t] = "payout" /\ Origin[job[t].q] = "evm"

MintKeyed(t) ==
    LET q == job[t].q IN
    /\ Mints(t)
    /\ MintKey \notin keys[q]
    /\ BurnKey(q, MintKey)
    /\ Goto(t, "mintSubmit")
    /\ UNCHANGED <<rows, chains, phase, failures>>

\* The key is there already.  wait_for_existing_miden_tx_id: use the id when there is
\* one, submit again when twenty looks found none.
MintPoll(t) ==
    LET q == job[t].q IN
    /\ Mints(t)
    /\ MintKey \in keys[q]
    /\ IF payoutIds[q] = <<>>
         THEN Goto(t, "mintSubmit")
         ELSE /\ job' = [job EXCEPT ![t].id = Last(payoutIds[q])]
              /\ pc' = [pc EXCEPT ![t] = "mintWait"]
              /\ UNCHANGED todo
    /\ UNCHANGED <<store, chains, phase, failures>>

\* The proven transaction reaches the Miden node.
MintSubmit(t) ==
    /\ pc[t] = "mintSubmit"
    /\ SendPayout(t)
    /\ pc' = [pc EXCEPT ![t] = "mintAppend"]
    /\ UNCHANGED <<store, landed, consumes, refunds, expired, phase, todo, failures>>

\* Mutation: the mint is submitted again before it is waited for.
MintAppendResubmit(t) ==
    /\ pc[t] = "mintAppend"
    /\ payoutIds' = [payoutIds EXCEPT ![job[t].q] = Append(@, job[t].id)]
    /\ Goto(t, "mintSubmit")
    /\ UNCHANGED <<status, log, keys, depositTxs, consumeIds, refundIds, chains, phase, failures>>

\* Mutation: a submitted mint counts as done.
MintAppendNoWait(t) ==
    LET q == job[t].q IN
    /\ pc[t] = "mintAppend"
    /\ payoutIds' = [payoutIds EXCEPT ![q] = Append(@, job[t].id)]
    /\ CallApply(t, q, Succeeded(job[t].id), "idle")
    /\ UNCHANGED <<status, log, depositTxs, consumeIds, refundIds, chains, phase, todo, failures>>

\* append_tx_hash makes the id durable before the transaction is waited for.
MintAppend(t) ==
    /\ pc[t] = "mintAppend"
    /\ payoutIds' = [payoutIds EXCEPT ![job[t].q] = Append(@, job[t].id)]
    /\ Goto(t, "mintWait")
    /\ UNCHANGED <<status, log, keys, depositTxs, consumeIds, refundIds, chains, phase, failures>>

\* wait_for_tx: committed lets settle record SETTLEMENT_SUCCEEDED.
MintCommitted(t) ==
    LET q == job[t].q  id == job[t].id IN
    /\ pc[t] = "mintWait"
    /\ payouts[q][id] = "committed"
    /\ CallApply(t, q, Succeeded(id), "idle")
    /\ UNCHANGED <<rows, chains, phase, todo, failures>>

\* wait_for_tx: discarded is an Err.
MintDiscarded(t) ==
    /\ pc[t] = "mintWait"
    /\ payouts[job[t].q][job[t].id] = "discarded"
    /\ Abort(t)
    /\ UNCHANGED <<store, chains, failures>>

-----------------------------------------------------------------------------
\* The deposit watcher.

\* poll_once lists the tracked quotes and passes over those of Miden origin at once.
WatcherList == TakeList("watcher", Tracked \cap From("evm"))

\* detect_deposit for a native asset: where the chain is scanned and the address has a
\* balance, the first transaction of the scanned window that names the address, even
\* one that reverted.  The window moves, so any of them may come first.  The scan looks
\* back a fixed number of blocks only; here a payment is found before it leaves them, which
\* the liveness of BridgePromise relies on and no safety property does.
Detectable(q) ==
    LET payments == {tx \in landed \cap Txs : PaysTo[tx] = q /\ Amount[tx] > 0} IN
    IF ScansChain /\ payments \ Reverted # {} THEN payments ELSE {}

\* handle_confirmed_deposit looks at the first submitted hash only.  It answers Err when
\* that is no hash, reverted, pays another address or pays nothing, and waits when the
\* transaction has no receipt or too few confirmations.
HasHash(q) == depositTxs[q] # <<>>
FirstTx(q) == depositTxs[q][1]
PaidBy(q, tx) == tx \in landed \ Reverted /\ PaysTo[tx] = q /\ Amount[tx] > 0
Awaited(q) == ~HasHash(q) \/ FirstTx(q) \notin landed \cup Malformed

\* A listed quote the watcher has nothing to do for in this tick.
WatcherSkip(r) ==
    /\ AtEntry("watcher", r)
    /\ \/ r.status = "PENDING_DEPOSIT" /\ Detectable(r.q) = {}
       \/ r.status = "KNOWN_DEPOSIT_TX" /\ Awaited(r.q)
       \/ r.status = "PROCESSING"
    /\ CrossOff("watcher", r)
    /\ UNCHANGED <<store, chains, phase, pc, job, failures>>

WatcherDetect(r, tx) ==
    /\ AtEntry("watcher", r)
    /\ r.status = "PENDING_DEPOSIT"
    /\ tx \in Detectable(r.q)
    /\ CallApply("watcher", r.q, Detected(tx), "idle")
    /\ CrossOff("watcher", r)
    /\ UNCHANGED <<rows, chains, phase, failures>>

\* The first hash is examined, and it is a receipt or no hash at all.
Examines(r) ==
    AtEntry("watcher", r) /\ r.status = "KNOWN_DEPOSIT_TX" /\ ~Awaited(r.q)

\* The first hash is no payment to this quote: Err, and again in every tick.
WatcherReject(r) ==
    /\ Examines(r)
    /\ ~PaidBy(r.q, FirstTx(r.q))
    /\ Abort("watcher")
    /\ UNCHANGED <<store, chains, failures>>

\* apply the confirmation of a hash, then go on at ret.
Confirm(r, tx, ret) ==
    /\ CallApply("watcher", r.q, Confirmed(tx), ret)
    /\ CrossOff("watcher", r)
    /\ UNCHANGED <<rows, chains, phase, failures>>

\* Mutation: the hash that was submitted last is confirmed.
WatcherConfirmLast(r) ==
    /\ AtEntry("watcher", r) /\ r.status = "KNOWN_DEPOSIT_TX"
    /\ HasHash(r.q) /\ PaidBy(r.q, Last(depositTxs[r.q]))
    /\ Confirm(r, Last(depositTxs[r.q]), "settle")

\* Mutation: the receipt is not examined.
WatcherConfirmUnchecked(r) == Examines(r) /\ Confirm(r, FirstTx(r.q), "settle")


\* The first hash is a confirmed payment: apply the confirmation, then settle.
WatcherConfirm(r) ==
    /\ Examines(r)
    /\ PaidBy(r.q, FirstTx(r.q))
    /\ Confirm(r, FirstTx(r.q), "settle")

-----------------------------------------------------------------------------
Refund(t) == RefundSend(t) \/ RefundAppend(t) \/ RefundConfirm(t)

Mint(t) ==
    \/ MintKeyed(t) \/ MintPoll(t) \/ MintSubmit(t) \/ MintAppend(t)
    \/ MintCommitted(t) \/ MintDiscarded(t)

Watcher ==
    \/ WatcherList
    \/ \E r \in todo["watcher"] :
         \/ WatcherSkip(r) \/ WatcherReject(r) \/ WatcherConfirm(r)
         \/ \E tx \in Txs : WatcherDetect(r, tx)

=============================================================================
