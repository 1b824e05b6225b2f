---------------------------- MODULE OutboundQuotes ----------------------------
(***************************************************************************)
(* What only Miden-origin quotes need: the poller that finds and consumes     *)
(* deposit notes, the release on the EVM chain, and the refund on Miden.      *)
(*                                                                            *)
(* A quote is paid by a public bridge note that carries its storage, or, when *)
(* its row has a deposit account of its own (OwnAccount), by any note that    *)
(* account can consume.  The poller is one task and nobody else consumes.     *)
(***************************************************************************)
EXTENDS BridgeTasks

-----------------------------------------------------------------------------
\* The notes the poller can choose from.

\* A synced client lists a note until a transaction that consumes it is under way.
Consumable(n) == n \in landed /\ consumes[n] \in {"none", "discarded"}

Candidates(q) == {n \in Notes : PaysTo[n] = q /\ Consumable(n)}

\* Mutation: the amount of a bridge note is not compared.
TakesAnyAmount(q, n) ==
    /\ n \notin NonFungible
    /\ q \notin OwnAccount => n \notin Foreign

\* A deposit account takes its first note whatever is in it; a bridge note has to be of
\* the quote's faucet and of exactly the quoted amount.
Takes(q, n) ==
    /\ n \notin NonFungible
    /\ q \notin OwnAccount => n \notin Foreign /\ Amount[n] = Terms[q].amountIn

-----------------------------------------------------------------------------
\* poll_outbound_deposits_once.

PollerList == TakeList("poller", Tracked \cap From("miden"))

\* A quote listed as PROCESSING is settled without a look at its notes.
PollerSettle(r) ==
    /\ AtEntry("poller", r)
    /\ r.status = "PROCESSING"
    /\ Continue("poller", r.q, "settle")
    /\ CrossOff("poller", r)
    /\ UNCHANGED <<store, chains, phase, failures>>

Searches(r) == AtEntry("poller", r) /\ r.status # "PROCESSING"

PollerSkip(r) ==
    /\ Searches(r)
    /\ \A n \in Candidates(r.q) : n \notin NonFungible /\ ~Takes(r.q, n)
    /\ CrossOff("poller", r)
    /\ UNCHANGED <<store, chains, phase, pc, job, failures>>

\* A note without a fungible asset comes first: Err, and again in every tick.
PollerReject(r) ==
    /\ Searches(r)
    /\ Candidates(r.q) \cap NonFungible # {}
    /\ Abort("poller")
    /\ UNCHANGED <<store, chains, failures>>

\* The notes are listed in any order.
PollerFind(r, n) ==
    /\ Searches(r)
    /\ n \in Candidates(r.q) /\ Takes(r.q, n)
    /\ pc' = [pc EXCEPT !["poller"] = "detect"]
    /\ job' = [job EXCEPT !["poller"] = [NoJob EXCEPT !.q = r.q, !.note = n]]
    /\ CrossOff("poller", r)
    /\ UNCHANGED <<store, chains, phase, failures>>

NoteFound(t) ==
    /\ pc[t] = "detect"
    /\ CallApply(t, job[t].q, NoteDetected(job[t].note), "confirm")
    /\ UNCHANGED <<rows, chains, phase, todo, failures>>

NoteCounted(t) ==
    /\ pc[t] = "confirm"
    /\ CallApply(t, job[t].q, NoteConfirmed(job[t].note), "consume")
    /\ UNCHANGED <<rows, chains, phase, todo, failures>>

-----------------------------------------------------------------------------
\* The note is consumed once, and the quote settled.

\* The faucet of a deposit account's note is compared only now.
Onward(t) ==
    LET q == job[t].q IN
    Continue(t, q, IF q \in OwnAccount THEN "verify" ELSE "settle") /\ UNCHANGED todo

\* Mutation: the answer of record_idempotency_key is not looked at.
ConsumeKeyedBlind(t) ==
    /\ pc[t] = "consume"
    /\ BurnKey(job[t].q, ConsumeKey(job[t].note))
    /\ Goto(t, "consumeSubmit")
    /\ UNCHANGED <<rows, chains, phase, failures>>

\* A new key opens the way to the transaction, an old one skips it.
ConsumeKeyed(t) ==
    LET key == ConsumeKey(job[t].note) IN
    /\ pc[t] = "consume"
    /\ IF key \in keys[job[t].q]
         THEN Onward(t) /\ UNCHANGED keys
         ELSE BurnKey(job[t].q, key) /\ Goto(t, "consumeSubmit")
    /\ UNCHANGED <<rows, chains, phase, failures>>

ConsumeSubmit(t) ==
    /\ pc[t] = "consumeSubmit"
    /\ consumes' = [consumes EXCEPT ![job[t].note] = "pending"]
    /\ Goto(t, "consumeAppend")
    /\ UNCHANGED <<store, landed, payouts, refunds, expired, phase, failures>>

\* Mutation: the consume transaction is not waited for.
ConsumeAppendNoWait(t) ==
    /\ pc[t] = "consumeAppend"
    /\ consumeIds' = [consumeIds EXCEPT ![job[t].q] = Append(@, job[t].note)]
    /\ Onward(t)
    /\ UNCHANGED <<status, log, keys, depositTxs, payoutIds, refundIds, chains, phase, failures>>

ConsumeAppend(t) ==
    /\ pc[t] = "consumeAppend"
    /\ consumeIds' = [consumeIds EXCEPT ![job[t].q] = Append(@, job[t].note)]
    /\ Goto(t, "consumeWait")
    /\ UNCHANGED <<status, log, keys, depositTxs, payoutIds, refundIds, chains, phase, failures>>

ConsumeCommitted(t) ==
    /\ pc[t] = "consumeWait"
    /\ consumes[job[t].note] = "committed"
    /\ Onward(t)
    /\ UNCHANGED <<store, chains, phase, failures>>

ConsumeDiscarded(t) ==
    /\ pc[t] = "consumeWait"
    /\ consumes[job[t].note] = "discarded"
    /\ Abort(t)
    /\ UNCHANGED <<store, chains, failures>>

NoteVerified(t) ==
    /\ pc[t] = "verify"
    /\ job[t].note \notin Foreign
    /\ Continue(t, job[t].q, "settle")
    /\ UNCHANGED <<store, chains, phase, todo, failures>>

NoteForeign(t) ==
    /\ pc[t] = "verify"
    /\ job[t].note \in Foreign
    /\ Abort(t)
    /\ UNCHANGED <<store, chains, failures>>

\* The Miden network decides about the transaction that consumes a note.
ConsumeCommits(n) ==
    /\ consumes[n] = "pending"
    /\ consumes' = [consumes EXCEPT ![n] = "committed"]
    /\ UNCHANGED <<store, landed, payouts, refunds, expired, phase, process, failures>>

ConsumeDiscards(n) ==
    /\ failures < MaxFailures
    /\ consumes[n] = "pending"
    /\ consumes' = [consumes EXCEPT ![n] = "discarded"]
    /\ failures' = failures + 1
    /\ UNCHANGED <<store, landed, payouts, refunds, expired, phase, process>>

-----------------------------------------------------------------------------
\* release, on the EVM chain.

\* send_transaction: the node has the transaction, Postgres knows nothing of it yet.
ReleaseSend(t) ==
    /\ pc[t] = "payout"
    /\ Origin[job[t].q] = "miden"
    /\ SendPayout(t)
    /\ pc' = [pc EXCEPT ![t] = "releaseAppend"]
    /\ UNCHANGED <<store, landed, consumes, refunds, expired, phase, todo, failures>>

\* Mutation: the hash of a release is not stored.
ReleaseAppendLost(t) ==
    /\ pc[t] = "releaseAppend"
    /\ BurnKey(job[t].q, ReleaseKey(job[t].id))
    /\ Goto(t, "releaseWait")
    /\ UNCHANGED <<rows, chains, phase, failures>>

\* Mutation: the release is sent again until it is confirmed.
ReleaseAppendResend(t) ==
    /\ pc[t] = "releaseAppend"
    /\ payoutIds' = [payoutIds EXCEPT ![job[t].q] = Append(@, job[t].id)]
    /\ Goto(t, "payout")
    /\ UNCHANGED <<status, log, keys, depositTxs, consumeIds, refundIds, chains, phase, failures>>

\* The key made from the hash is always new, and the hash follows it into the row.
ReleaseAppend(t) ==
    LET q == job[t].q  id == job[t].id IN
    /\ pc[t] = "releaseAppend"
    /\ BurnKey(q, ReleaseKey(id))
    /\ payoutIds' = [payoutIds EXCEPT ![q] = Append(@, id)]
    /\ Goto(t, "releaseWait")
    /\ UNCHANGED <<status, log, depositTxs, consumeIds, refundIds, chains, phase, failures>>

\* watch answers with the first confirmation, also when the transaction reverted.
ReleaseConfirmed(t) ==
    LET q == job[t].q  id == job[t].id IN
    /\ pc[t] = "releaseWait"
    /\ payouts[q][id] # "pending"
    /\ CallApply(t, q, Succeeded(id), "idle")
    /\ UNCHANGED <<rows, chains, phase, todo, failures>>

-----------------------------------------------------------------------------
\* refund_record, on Miden: mint_quote_to_user with a key of its own.  Until the mint is
\* submitted job.id holds its amount, then its id.

NoteRefundKeyed(t) ==
    LET q == job[t].q IN
    /\ RefundsNow(t, q)
    /\ Origin[q] = "miden"
    /\ NoteRefundKey \notin keys[q]
    /\ BurnKey(q, NoteRefundKey)
    /\ job' = [job EXCEPT ![t].id = RefundAmount(q)]
    /\ pc' = [pc EXCEPT ![t] = "refundSubmit"]
    /\ UNCHANGED <<rows, chains, phase, todo, failures>>

\* The key is there: wait for the refund the quote already has, or submit another when
\* twenty looks found no id.
NoteRefundPoll(t) ==
    LET q == job[t].q  ids == refundIds[q] IN
    /\ RefundsNow(t, q)
    /\ Origin[q] = "miden"
    /\ NoteRefundKey \in keys[q]
    /\ job' = [job EXCEPT ![t].id = IF ids = <<>> THEN RefundAmount(q) ELSE Last(ids)]
    /\ pc' = [pc EXCEPT ![t] = IF ids = <<>> THEN "refundSubmit" ELSE "refundWait"]
    /\ UNCHANGED <<store, chains, phase, todo, failures>>

NoteRefundSubmit(t) ==
    /\ pc[t] = "refundSubmit"
    /\ SendRefund(t, job[t].id)
    /\ job' = [job EXCEPT ![t].id = Len(refunds[job[t].q]) + 1]
    /\ pc' = [pc EXCEPT ![t] = "refundStore"]
    /\ UNCHANGED <<store, landed, consumes, payouts, expired, phase, todo, failures>>

NoteRefundAppend(t) ==
    /\ pc[t] = "refundStore"
    /\ refundIds' = [refundIds EXCEPT ![job[t].q] = Append(@, job[t].id)]
    /\ Goto(t, "refundWait")
    /\ UNCHANGED <<status, log, keys, depositTxs, consumeIds, payoutIds, chains, phase, failures>>

\* The refund is committed; that it is not is a Fault here.
NoteRefundCommitted(t) ==
    /\ pc[t] = "refundWait"
    /\ Return(t)
    /\ UNCHANGED <<store, chains, phase, failures>>

-----------------------------------------------------------------------------
TakeNote(t) ==
    \/ NoteFound(t) \/ NoteCounted(t)
    \/ ConsumeKeyed(t) \/ ConsumeSubmit(t) \/ ConsumeAppend(t)
    \/ ConsumeCommitted(t) \/ ConsumeDiscarded(t)
    \/ NoteVerified(t) \/ NoteForeign(t)

Release(t) == ReleaseSend(t) \/ ReleaseAppend(t) \/ ReleaseConfirmed(t)

NoteRefund(t) ==
    \/ NoteRefundKeyed(t) \/ NoteRefundPoll(t) \/ NoteRefundSubmit(t)
    \/ NoteRefundAppend(t) \/ NoteRefundCommitted(t)

Poller ==
    \/ PollerList
    \/ \E r \in todo["poller"] :
         \/ PollerSettle(r) \/ PollerSkip(r) \/ PollerReject(r)
         \/ \E n \in Notes : PollerFind(r, n)

NoteFates == \E n \in Notes : ConsumeCommits(n) \/ ConsumeDiscards(n)

=============================================================================
