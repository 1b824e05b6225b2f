----------------------------- MODULE BridgeGrounds -----------------------------
(***************************************************************************)
(* The inductive invariants behind what Bridge says of payouts, refunds,      *)
(* hashes and notes: on what grounds a task stands at its step, what a key    *)
(* of the idempotency list stands for, and which step only one task can be    *)
(* at.  A ground is a fact that no later step takes back.                     *)
(***************************************************************************)
EXTENDS Bridge

-----------------------------------------------------------------------------
\* The steps of settle, and of these the ones that know the payout they are about.
Settling  == {"settle", "reload", "payout", "mintSubmit"} \cup
             {"mintAppend", "mintWait", "releaseAppend", "releaseWait"}
PayoutOut == {"mintAppend", "mintWait", "releaseAppend", "releaseWait"}

\* The steps of a refund that is decided.
Refunding == {"refundSend", "refundAppend", "refundConfirm",
              "refundSubmit", "refundStore", "refundWait"}

\* The events that only a deposit leads to, and of these the ones settle raises.
SettleKinds == {"SETTLEMENT_INITIATED", "SETTLEMENT_SUCCEEDED", "SLIPPAGE_EXCEEDED"}
FundedKinds == Confirmations \cup SettleKinds

\* The quote's deposit is there: for an EVM-origin quote its first hash pays it, for a
\* Miden-origin quote a note it takes has landed.
Funded(q) ==
    IF Origin[q] = "evm"
      THEN HasHash(q) /\ PaidBy(q, FirstTx(q))
      ELSE \E n \in landed \cap Notes : PaysTo[n] = q /\ Takes(q, n)

\* The tasks that settle a quote: the loop of its origin, and the resume pass before the
\* loops run.
Serves(t, q) ==
    \/ t = "resume"
    \/ Origin[q] = "evm" /\ t = "watcher"
    \/ Origin[q] = "miden" /\ t = "poller"

\* On what grounds task t is at label l with job j.
Grounded(t, l, j) ==
    /\ l \in Settling \cup Refunding \cup NoteLabels \/ j.ret # "idle" => Funded(j.q)
    /\ l \in Settling \/ j.ret # "idle" \/ (l \in Applying /\ j.ev.kind \in SettleKinds)
         => Serves(t, j.q)
    /\ l \in Settling \ {"settle"} \/ j.ret = "reload" => Initiated \in keys[j.q]
    /\ l \in PayoutOut => j.id \in 1..Len(payouts[j.q])
    /\ l = "reason" => j.ev.kind = "DEADLINE_EXPIRED"
    /\ l = "record" /\ j.ev.kind = "SETTLEMENT_SUCCEEDED"
         => j.ev.datum \in Range(payoutIds[j.q])
    /\ l \in NoteLabels \/ j.ret \in NoteLabels
         => t = "poller" /\ Origin[j.q] = "miden" /\ PaysTo[j.note] = j.q
    /\ l \in {"consumeSubmit", "consumeAppend"} => ConsumeKey(j.note) \in keys[j.q]
    /\ l = "consumeAppend" => consumes[j.note] # "none"

\* What a key of quote q stands for.
Stands(q, key) ==
    /\ key.kind \in FundedKinds => Funded(q)
    /\ key.kind \in Confirmations /\ Origin[q] = "evm" => key = Confirmed(FirstTx(q))
    /\ key.kind = "SETTLEMENT_INITIATED" => key = Initiated
    /\ key.kind \in SettleKinds => Initiated \in keys[q]
    /\ key.kind = "SETTLEMENT_SUCCEEDED" => key.datum \in 1..Len(payouts[q])

\* What the rows of quote q and the chains show together.
Accounted(q) ==
    /\ status[q] = "PROCESSING" => Initiated \in keys[q]
    /\ PaidFor(q) => Funded(q)
    /\ Range(payoutIds[q]) \subseteq 1..Len(payouts[q])
    /\ \A i \in 1..Len(log[q]) : log[q][i].to = "SUCCESS" =>
         /\ log[q][i].ev.kind = "SETTLEMENT_SUCCEEDED"
         /\ log[q][i].ev.datum \in Range(payoutIds[q])
    /\ \A n \in Range(consumeIds[q]) :
         PaysTo[n] = q /\ consumes[n] # "none" /\ ConsumeKey(n) \in keys[q]

\* What the entries of a loop's list stand for.
Listed(t) ==
    \A r \in todo[t] :
        /\ r.status = "PROCESSING" => Initiated \in keys[r.q]
        /\ t \in {"watcher", "poller"} => Serves(t, r.q)

\* Every task, key, row and list entry has its grounds.
WellGrounded ==
    /\ \A t \in Tasks : Grounded(t, pc[t], job[t]) /\ Listed(t)
    /\ \A q \in Quotes : Accounted(q) /\ \A key \in keys[q] : Stands(q, key)

-----------------------------------------------------------------------------
\* The resume pass runs alone, and the loops and handlers only when it is through.
Busy(t) == pc[t] # "idle" \/ todo[t] # {}

OnDuty ==
    \A t \in Tasks : Busy(t) => phase = IF t = "resume" THEN "resuming" ELSE "up"

\* One task at a time is settling a quote or about to record what settle raised on it.
Occupied(t) ==
    \/ pc[t] \in Settling
    \/ pc[t] \in Applying /\ job[t].ev.kind \in SettleKinds

OneSettler ==
    \A t, u \in Tasks : Occupied(t) /\ Occupied(u) /\ job[t].q = job[u].q => t = u

\* A hash about to be appended is not there yet.
HashesOnce ==
    /\ \A q \in Quotes : IsInjective(depositTxs[q])
    /\ \A t \in Tasks : pc[t] = "append" /\ job[t].ev.kind = "EVM_DEPOSIT_DETECTED" =>
         job[t].ev.datum \notin Range(depositTxs[job[t].q])

\* Nor is a note about to be consumed.
NotesOnce ==
    /\ \A q \in Quotes : IsInjective(consumeIds[q])
    /\ pc["poller"] \in {"consumeSubmit", "consumeAppend"} =>
         job["poller"].note \notin Range(consumeIds[job["poller"].q])

\* A payout is due while the quote has none on record.  As long as it has none and no task
\* is about to store one, every payout that was sent is a failure's.
Paying(q) == \E t \in Tasks : pc[t] \in {"payout", "mintSubmit"} /\ job[t].q = q

PaysOnce ==
    \A q \in Quotes :
        /\ Len(payouts[q]) <= 1 + failures
        /\ Paying(q) => payoutIds[q] = <<>>
        /\ payoutIds[q] = <<>> /\ Storing(q) = {} => Len(payouts[q]) <= failures

\* After SUCCESS the quote is not PROCESSING and no task is about to make it so.
Succeeds(q) == \E i \in 1..Len(log[q]) : log[q][i].to = "SUCCESS"

StaysSettled ==
    \A q \in Quotes : Succeeds(q) =>
        /\ status[q] # "PROCESSING"
        /\ \A t \in Tasks : pc[t] \in Applying /\ job[t].q = q => job[t].ev # Initiated

\* Each payout, refund, hash and note is on record for one reason, and once.
PaymentsGrounded ==
    /\ OneOwnerPerEvent /\ WellGrounded
    /\ OnDuty /\ OneSettler
    /\ HashesOnce /\ NotesOnce /\ PaysOnce /\ StaysSettled

=============================================================================
