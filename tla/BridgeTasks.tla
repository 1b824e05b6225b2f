----------------------------- MODULE BridgeTasks -----------------------------
(***************************************************************************)
(* What the tasks of the bridge process share: the Postgres rows, the two     *)
(* chains, the control flow of a task, Lifecycle::apply, the common part of   *)
(* Lifecycle::settle, the deadline scanner, the resume pass and the failures. *)
(* InboundQuotes adds what only EVM-origin quotes need, OutboundQuotes what   *)
(* only Miden-origin quotes need, and Bridge puts the process together.       *)
(*                                                                           *)
(* One action is what the code does between two await points: one database   *)
(* transaction, or one chain call.  A task is a handler of                   *)
(* POST /v0/deposit/submit, the EVM deposit watcher, the Miden outbound       *)
(* poller, the deadline scanner, or the resume pass that main() runs to       *)
(* completion before it starts the loops.  apply and settle are procedures    *)
(* the tasks run: a task's pc says which step is next, job holds what it has  *)
(* read, and job.ret where apply returns to.  Nothing in the code locks a     *)
(* quote across steps.                                                        *)
(***************************************************************************)
EXTENDS LifecycleRules, SequencesExt

CONSTANTS
    NumQuotes,     \* quotes are numbered in creation order
    Origin,        \* quote -> "evm" or "miden", the chain of the deposit
    OwnAccount,    \* Miden-origin quotes with a deposit account of their own
    Terms,         \* quote -> [swapType, amountIn, minAmountIn, minAmountOut]
    Txs,           \* EVM transaction hashes users submit or pay with
    Notes,         \* notes users send on Miden
    PaysTo,        \* deposit -> the quote whose deposit address it pays, or None
    Amount,        \* deposit -> value paid to that address
    Reverted,      \* the transactions that revert on the EVM chain
    Malformed,     \* submitted strings that are no transaction hash
    Foreign,       \* notes whose asset is not the quote's
    NonFungible,   \* notes whose asset is not fungible
    Outputs,       \* outputs the pricer may answer when settlement asks again
    ScansChain,    \* EVM_DEPOSIT_SCAN_LOOKBACK_BLOCKS is set
    Handlers,      \* concurrent requests to POST /v0/deposit/submit
    Submissions,   \* the <<quote, tx>> pairs users submit
    Expiring,      \* the quotes whose deadline may pass
    MaxFailures    \* bound: crashes, failed awaits, discarded and reverted payouts

Quotes == 1..NumQuotes
Deposits == Txs \cup Notes

Loops == {"watcher", "poller", "scanner", "resume"}
Tasks == Handlers \cup Loops

ASSUME ConstantsAssumption ==
    /\ NumQuotes \in Nat \ {0}
    /\ Origin \in [Quotes -> {"evm", "miden"}]
    /\ OwnAccount \subseteq {q \in Quotes : Origin[q] = "miden"}
    /\ Terms \in [Quotes -> [swapType : {"EXACT_INPUT", "FLEX_INPUT",
                                         "EXACT_OUTPUT", "ANY_INPUT"},
                             amountIn : Nat, minAmountIn : Nat, minAmountOut : Nat]]
    /\ PaysTo \in [Deposits -> Quotes \cup {None}]
    /\ Amount \in [Deposits -> Nat]
    /\ Reverted \subseteq Txs
    /\ Malformed \subseteq Txs
    /\ Foreign \subseteq Notes
    /\ NonFungible \subseteq Notes
    /\ Outputs \subseteq Nat
    /\ ScansChain \in BOOLEAN
    /\ Handlers \cap Loops = {}
    /\ Submissions \subseteq Quotes \X Txs
    /\ Expiring \subseteq Quotes
    /\ MaxFailures \in Nat

VARIABLES
    \* Postgres: the rows of a quote and its chain artifacts
    status,      \* quotes.status; "NONE" until the quote is inserted
    log,         \* lifecycle_events, in id order
    keys,        \* chain_artifacts.idempotency_keys
    depositTxs,  \* chain_artifacts.evm_deposit_tx_hashes
    consumeIds,  \* chain_artifacts.miden_consume_tx_ids, by the note consumed
    payoutIds,   \* miden_mint_tx_ids or evm_release_tx_hashes, by origin
    refundIds,   \* evm_refund_tx_hashes or miden_refund_tx_ids, by origin
    \* the chains and the clock
    landed,      \* deposits with the required confirmations, or committed on Miden
    consumes,    \* note -> the fate of the transaction that consumes it
    payouts,     \* mints submitted to Miden, releases sent on the EVM chain, and their fate
    refunds,     \* refunds sent on the EVM chain or submitted to Miden
    expired,     \* quotes whose deadline has passed
    \* the process
    phase,       \* "down", "resuming" or "up"
    pc, job,     \* per task: next step and local state
    todo,        \* per loop: what is left of the list it took this tick
    failures     \* how many there were: it only bounds the model

rows    == <<status, log, depositTxs, consumeIds, payoutIds, refundIds>>  \* all but the keys
store   == <<rows, keys>>
chains  == <<landed, consumes, payouts, refunds, expired>>
process == <<pc, job, todo>>
vars    == <<store, chains, phase, process, failures>>

-----------------------------------------------------------------------------
\* Control flow of a task.

\* note is the poller's note, id what a step of a payout or refund hands to the next.
NoJob == [q |-> 1, ev |-> Initiated, ret |-> "idle", from |-> "PENDING_DEPOSIT",
          to |-> "PENDING_DEPOSIT", reason |-> "default", id |-> None, note |-> None]

\* What a task keeps while it goes on with quote q.
Fresh(t, q) == [NoJob EXCEPT !.q = q, !.note = job[t].note]

Goto(t, l) == pc' = [pc EXCEPT ![t] = l] /\ UNCHANGED <<job, todo>>

\* Go on with quote q at label l, or with the loop when the procedure is over.
Continue(t, q, l) ==
    /\ pc' = [pc EXCEPT ![t] = l]
    /\ job' = [job EXCEPT ![t] = IF l = "idle" THEN NoJob ELSE Fresh(t, q)]

\* apply answers Ok.
Return(t) == Continue(t, job[t].q, job[t].ret) /\ UNCHANGED todo

\* An Err reaches the loop: the rest of this tick's list is dropped, and main()
\* exits when it is the resume pass that failed.
Abort(t) ==
    /\ pc' = [pc EXCEPT ![t] = "idle"]
    /\ job' = [job EXCEPT ![t] = NoJob]
    /\ todo' = [todo EXCEPT ![t] = {}]
    /\ phase' = IF t = "resume" THEN "down" ELSE phase

\* record_idempotency_key: the key of a step that goes on whether it was there or not.
BurnKey(q, key) == keys' = [keys EXCEPT ![q] = @ \cup {key}]

\* Mutation: the answer of record_idempotency_key is not looked at.
CallApplyBlind(t, q, ev, ret) ==
    /\ BurnKey(q, ev)
    /\ pc' = [pc EXCEPT ![t] = "decide"]
    /\ job' = [job EXCEPT ![t] = [Fresh(t, q) EXCEPT !.ev = ev, !.ret = ret]]

\* Mutation: a caller that goes on after apply is not stopped by a key that is there.
CallApplyAgain(t, q, ev, ret) ==
    IF ev \in keys[q] /\ ret = "idle"
      THEN Continue(t, q, ret) /\ UNCHANGED keys
      ELSE CallApplyBlind(t, q, ev, ret)

\* Call apply(ev) for q and go on at ret after its Ok.  record_idempotency_key comes
\* first: a key that is already there makes the call a no-op.
CallApply(t, q, ev, ret) ==
    IF ev \in keys[q]
      THEN Continue(t, q, ret) /\ UNCHANGED keys
      ELSE /\ BurnKey(q, ev)
           /\ pc' = [pc EXCEPT ![t] = "decide"]
           /\ job' = [job EXCEPT ![t] = [Fresh(t, q) EXCEPT !.ev = ev, !.ret = ret]]

Entry(ev, from, to, reason) == [ev |-> ev, from |-> from, to |-> to, reason |-> reason]

\* record_event: the event row and the status in one transaction, whatever the
\* status has become since it was read.
RecordEvent(q, entry) ==
    /\ log' = [log EXCEPT ![q] = Append(@, entry)]
    /\ status' = [status EXCEPT ![q] = entry.to]

ConfirmedEntries(q) == {i \in 1..Len(log[q]) : log[q][i].ev.kind \in Confirmations}

HasConfirmed(q) == ConfirmedEntries(q) # {}

-----------------------------------------------------------------------------
\* The quote API and the users.

\* POST /v0/quote: the quote row, its artifacts and QUOTE_CREATED in one transaction.
CreateQuote(q) ==
    /\ phase = "up"
    /\ status[q] = "NONE"
    /\ \A p \in Quotes : p < q => status[p] # "NONE"
    /\ RecordEvent(q, Entry(QuoteCreated, "NONE", "PENDING_DEPOSIT", "default"))
    /\ UNCHANGED <<keys, depositTxs, consumeIds, payoutIds, refundIds,
                   chains, phase, process, failures>>

\* POST /v0/deposit/submit: any hash for any quote, as often as users like.
SubmitDeposit(h, q, tx) ==
    /\ phase = "up"
    /\ pc[h] = "idle"
    /\ status[q] # "NONE"
    /\ CallApply(h, q, Detected(tx), "idle")
    /\ UNCHANGED <<rows, chains, phase, todo, failures>>

\* A user's payment is mined and gets the required confirmations, or a user's note is
\* committed on Miden.
DepositLands(d) ==
    /\ d \notin landed \cup Malformed
    /\ PaysTo[d] # None => status[PaysTo[d]] # "NONE"
    /\ landed' = landed \cup {d}
    /\ UNCHANGED <<store, consumes, payouts, refunds, expired, phase, process, failures>>

DeadlinePasses(q) ==
    /\ q \in Expiring \ expired
    /\ status[q] # "NONE"
    /\ expired' = expired \cup {q}
    /\ UNCHANGED <<store, landed, consumes, payouts, refunds, phase, process, failures>>

-----------------------------------------------------------------------------
\* Lifecycle::apply after its key is recorded, one step per await.

Target(t) ==
    LET q == job[t].q  ev == job[t].ev IN
    TargetStatus(ev.kind, status[q],
                 ev.kind \in Confirmations /\ FallsShort(Terms[q], Amount[ev.datum]))

\* The quote is loaded and the event asks for no status.
ApplyIgnored(t) ==
    /\ pc[t] = "decide"
    /\ Target(t) = NoTarget
    /\ Return(t)
    /\ UNCHANGED <<store, chains, phase, failures>>

\* The quote is loaded and the edge is illegal: apply answers Err, the key stays.
ApplyRejected(t) ==
    /\ pc[t] = "decide"
    /\ Target(t) # NoTarget
    /\ ~MayRecord(status[job[t].q], Target(t))
    /\ Abort(t)
    /\ UNCHANGED <<store, chains, failures>>

\* The hash the event adds to the artifacts, if the loaded quote lacks it.
AddsDepositHash(q, ev) ==
    ev.kind = "EVM_DEPOSIT_DETECTED" /\ ~Contains(depositTxs[q], ev.datum)
AddsPayoutId(q, ev) ==
    ev.kind = "SETTLEMENT_SUCCEEDED" /\ ~Contains(payoutIds[q], ev.datum)

\* What apply read of the quote is what it goes on with.
Decide(t) ==
    LET q == job[t].q  ev == job[t].ev IN
    /\ pc[t] = "decide"
    /\ job' = [job EXCEPT ![t].from = status[q], ![t].to = Target(t)]
    /\ pc' = [pc EXCEPT ![t] =
                CASE ev.kind = "DEADLINE_EXPIRED" -> "reason"
                  [] AddsDepositHash(q, ev) \/ AddsPayoutId(q, ev) -> "append"
                  [] OTHER -> "record"]
    /\ UNCHANGED <<store, chains, phase, todo, failures>>

\* Mutation: an event that asks for no status is recorded all the same.
ApplyAcceptedNoTarget(t) == Decide(t)

\* Mutation: the transition table is not asked.
ApplyAcceptedUnchecked(t) == Decide(t) /\ Target(t) # NoTarget

\* The quote is loaded and the edge is legal.
ApplyAccepted(t) ==
    /\ Decide(t)
    /\ Target(t) # NoTarget
    /\ MayRecord(status[job[t].q], Target(t))

\* deadline_expired_reason: was a deposit confirmed by now?
ApplyReason(t) ==
    LET q == job[t].q IN
    /\ pc[t] = "reason"
    /\ job' = [job EXCEPT ![t].reason =
                 IF job[t].to = "REFUNDED" /\ ~HasConfirmed(q) THEN "no_deposit" ELSE "default"]
    /\ pc' = [pc EXCEPT ![t] = "record"]
    /\ UNCHANGED <<store, chains, phase, todo, failures>>

\* append_tx_hash for the event.
ApplyAppend(t) ==
    LET q == job[t].q  ev == job[t].ev IN
    /\ pc[t] = "append"
    /\ IF ev.kind = "EVM_DEPOSIT_DETECTED"
         THEN /\ depositTxs' = [depositTxs EXCEPT ![q] = Append(@, ev.datum)]
              /\ UNCHANGED payoutIds
         ELSE /\ payoutIds' = [payoutIds EXCEPT ![q] = Append(@, ev.datum)]
              /\ UNCHANGED depositTxs
    /\ Goto(t, "record")
    /\ UNCHANGED <<status, log, keys, consumeIds, refundIds, chains, phase, failures>>

\* record_event, then the refund the event may owe.
ApplyRecord(t) ==
    LET j == job[t] IN
    /\ pc[t] = "record"
    /\ RecordEvent(j.q, Entry(j.ev, j.from, j.to, j.reason))
    /\ CASE OwesRefund(j.ev.kind, j.to) -> Goto(t, "refundSend")
         [] j.ev.kind = "DEADLINE_EXPIRED" /\ j.to = "REFUNDED" -> Goto(t, "refundCheck")
         [] OTHER -> Return(t)
    /\ UNCHANGED <<keys, depositTxs, consumeIds, payoutIds, refundIds, chains, phase, failures>>

\* should_submit_refund_for_deadline_expiry: the question is asked a second time.
RefundNotOwed(t) ==
    /\ pc[t] = "refundCheck"
    /\ ~HasConfirmed(job[t].q)
    /\ Return(t)
    /\ UNCHANGED <<store, chains, phase, failures>>

\* A task that is to refund the deposit of quote q now.
RefundsNow(t, q) ==
    /\ q = job[t].q
    /\ \/ pc[t] = "refundSend"
       \/ pc[t] = "refundCheck" /\ HasConfirmed(q)

\* refund_amount: the last confirmed deposit, else the quoted input.
RefundAmount(q) ==
    IF HasConfirmed(q) THEN Amount[log[q][Max(ConfirmedEntries(q))].ev.datum]
                       ELSE Terms[q].amountIn

\* The refund is out for the event the task carries.
SendRefund(t, amount) ==
    refunds' = [refunds EXCEPT ![job[t].q] = Append(@, [cause |-> job[t].ev, amount |-> amount])]

-----------------------------------------------------------------------------
\* Lifecycle::settle up to the payout.

\* load_quote: a terminal quote needs nothing.
SettleDone(t) ==
    /\ pc[t] = "settle"
    /\ status[job[t].q] \in TerminalStatuses
    /\ Continue(t, job[t].q, "idle")
    /\ UNCHANGED <<store, chains, phase, todo, failures>>

\* load_quote: any other but PROCESSING is claimed with SETTLEMENT_INITIATED.
SettleClaim(t) ==
    LET q == job[t].q IN
    /\ pc[t] = "settle"
    /\ status[q] \notin TerminalStatuses \cup {"PROCESSING"}
    /\ CallApply(t, q, Initiated, "reload")
    /\ UNCHANGED <<rows, chains, phase, todo, failures>>

\* The quote is loaded as PROCESSING, or loaded again after the claim, when the status
\* is not looked at any more.
Claimed(t) ==
    \/ pc[t] = "reload"
    \/ pc[t] = "settle" /\ status[job[t].q] = "PROCESSING"

\* Mutation: no durable payout id is taken for one.
SettleRequoteNoId(t, out) ==
    LET q == job[t].q  ids == payoutIds[q] IN
    /\ Claimed(t)
    /\ CallApply(t, q, Succeeded(IF ids = <<>> THEN None ELSE Last(ids)), "idle")
    /\ UNCHANGED <<rows, chains, phase, todo, failures>>

\* The pricer answers out: below the quoted minimum comes first, then a payout the
\* quote already has, then a new payout.
SettleRequote(t, out) ==
    LET q == job[t].q  ids == payoutIds[q] IN
    /\ Claimed(t)
    /\ CASE out < Terms[q].minAmountOut -> CallApply(t, q, Slippage(out), "idle")
         [] out >= Terms[q].minAmountOut /\ ids # <<>> ->
              CallApply(t, q, Succeeded(Last(ids)), "idle")
         [] OTHER -> Continue(t, q, "payout") /\ UNCHANGED keys
    /\ UNCHANGED <<rows, chains, phase, todo, failures>>

\* A payout leaves the solver; its hash or id is known to the task alone.
SendPayout(t) ==
    LET q == job[t].q IN
    /\ payouts' = [payouts EXCEPT ![q] = Append(@, "pending")]
    /\ job' = [job EXCEPT ![t].id = Len(payouts[q]) + 1]

\* The chain decides about a payout: on Miden a mint is committed or discarded, on the
\* EVM chain a release is mined and succeeds or reverts.
PayoutCommits(q, i) ==
    /\ payouts[q][i] = "pending"
    /\ payouts' = [payouts EXCEPT ![q][i] = "committed"]
    /\ UNCHANGED <<store, landed, consumes, refunds, expired, phase, process, failures>>

PayoutDiscarded(q, i) ==
    /\ failures < MaxFailures
    /\ payouts[q][i] = "pending"
    /\ payouts' = [payouts EXCEPT ![q][i] = "discarded"]
    /\ failures' = failures + 1
    /\ UNCHANGED <<store, landed, consumes, refunds, expired, phase, process>>

-----------------------------------------------------------------------------
\* The loops that serve both directions.

\* The rows of the quotes a loop asks for, as they are now.
Snapshot(Q) == {[q |-> q, status |-> status[q]] : q \in Q}
Tracked == {q \in Quotes : status[q] \in TrackedStatuses}
From(chain) == {q \in Quotes : Origin[q] = chain}

\* The list is in creation order.
IsNext(t, r) == r \in todo[t] /\ \A o \in todo[t] : r.q <= o.q

\* A loop is at an entry of its list, in creation order.
AtEntry(t, r) == pc[t] = "idle" /\ IsNext(t, r)

CrossOff(t, r) == todo' = [todo EXCEPT ![t] = @ \ {r}]

\* A loop ticks and takes a list of quotes.
TakeList(t, Q) ==
    /\ phase = "up"
    /\ pc[t] = "idle" /\ todo[t] = {}
    /\ todo' = [todo EXCEPT ![t] = Snapshot(Q)]
    /\ UNCHANGED <<store, chains, phase, pc, job, failures>>

\* run_deadline_expiry_tick lists the quotes past their deadline.
ScannerList == TakeList("scanner", expired \cap Tracked)

\* The list is in deadline order, which is any order of the quotes.
ScannerExpire(r) ==
    /\ pc["scanner"] = "idle" /\ r \in todo["scanner"]
    /\ CallApply("scanner", r.q, Expired, "idle")
    /\ CrossOff("scanner", r)
    /\ UNCHANGED <<rows, chains, phase, failures>>

\* main() starts: resume_in_flight_quotes lists the tracked quotes first.  Its first
\* list is of every origin; what the second adds is only monitored.
Boot ==
    /\ phase = "down"
    /\ phase' = "resuming"
    /\ todo' = [todo EXCEPT !["resume"] = Snapshot(Tracked)]
    /\ UNCHANGED <<store, chains, pc, job, failures>>

ResumeQuote(r) ==
    /\ AtEntry("resume", r)
    /\ IF r.status = "PROCESSING"
         THEN Continue("resume", r.q, "settle")
         ELSE UNCHANGED <<pc, job>>
    /\ CrossOff("resume", r)
    /\ UNCHANGED <<store, chains, phase, failures>>

\* The resume pass is through: the loops and the HTTP server start.
ResumeDone ==
    /\ phase = "resuming"
    /\ pc["resume"] = "idle" /\ todo["resume"] = {}
    /\ phase' = "up"
    /\ UNCHANGED <<store, chains, process, failures>>

-----------------------------------------------------------------------------
\* Failures.

\* A database, RPC or pricing call fails, a wait times out, or a client hangs up and
\* its handler is dropped.
Fault(t) ==
    /\ failures < MaxFailures
    /\ pc[t] # "idle" \/ todo[t] # {}
    /\ Abort(t)
    /\ failures' = failures + 1
    /\ UNCHANGED <<store, chains>>

\* The process dies: Postgres and the chains keep what they have.
Crash ==
    /\ failures < MaxFailures
    /\ phase # "down"
    /\ phase' = "down"
    /\ pc' = [t \in Tasks |-> "idle"]
    /\ job' = [t \in Tasks |-> NoJob]
    /\ todo' = [t \in Tasks |-> {}]
    /\ failures' = failures + 1
    /\ UNCHANGED <<store, chains>>

-----------------------------------------------------------------------------
Init ==
    /\ status = [q \in Quotes |-> "NONE"]
    /\ log = [q \in Quotes |-> <<>>]
    /\ keys = [q \in Quotes |-> {}]
    /\ depositTxs = [q \in Quotes |-> <<>>]
    /\ consumeIds = [q \in Quotes |-> <<>>]
    /\ payoutIds = [q \in Quotes |-> <<>>]
    /\ refundIds = [q \in Quotes |-> <<>>]
    /\ landed = {}
    /\ consumes = [n \in Notes |-> "none"]
    /\ payouts = [q \in Quotes |-> <<>>]
    /\ refunds = [q \in Quotes |-> <<>>]
    /\ expired = {}
    /\ phase = "up"
    /\ pc = [t \in Tasks |-> "idle"]
    /\ job = [t \in Tasks |-> NoJob]
    /\ todo = [t \in Tasks |-> {}]
    /\ failures = 0

Apply(t) ==
    \/ ApplyIgnored(t) \/ ApplyRejected(t) \/ ApplyAccepted(t)
    \/ ApplyReason(t) \/ ApplyAppend(t) \/ ApplyRecord(t) \/ RefundNotOwed(t)

Settle(t) ==
    \/ SettleDone(t) \/ SettleClaim(t)
    \/ \E out \in Outputs : SettleRequote(t, out)

Scanner == ScannerList \/ \E r \in todo["scanner"] : ScannerExpire(r)

Resume == Boot \/ ResumeDone \/ \E r \in todo["resume"] : ResumeQuote(r)

Users ==
    \/ \E q \in Quotes : CreateQuote(q) \/ DeadlinePasses(q)
    \/ \E h \in Handlers, s \in Submissions : SubmitDeposit(h, s[1], s[2])
    \/ \E d \in Deposits : DepositLands(d)

PayoutFates ==
    \E q \in Quotes : \E i \in 1..Len(payouts[q]) : PayoutCommits(q, i) \/ PayoutDiscarded(q, i)

Failures == Crash \/ \E t \in Tasks : Fault(t)

=============================================================================
