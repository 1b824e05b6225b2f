-------------------------------- MODULE Bridge --------------------------------
(***************************************************************************)
(* The bridge process with all its tasks, the Postgres rows they share and    *)
(* the two chains, and what must hold of them whatever the interleaving, the  *)
(* crashes and the failed calls.                                              *)
(***************************************************************************)
EXTENDS InboundQuotes, OutboundQuotes

Step(t) ==
    \/ Apply(t) \/ Settle(t)
    \/ Refund(t) \/ Mint(t)
    \/ TakeNote(t) \/ Release(t) \/ NoteRefund(t)

Next ==
    \/ \E t \in Tasks : Step(t)
    \/ Watcher \/ Poller \/ Scanner \/ Resume
    \/ Users \/ PayoutFates \/ NoteFates \/ Failures

Spec == Init /\ [][Next]_vars

-----------------------------------------------------------------------------
\* The events tasks raise on a quote, and the keys of its idempotency list.
SettlementKinds == {"SETTLEMENT_INITIATED", "SETTLEMENT_SUCCEEDED", "SLIPPAGE_EXCEEDED",
                    "DEADLINE_EXPIRED"}
PayoutKinds == {"miden_mint", "miden_refund", "evm_refund", "evm_release"}

Events ==
    [kind : {"EVM_DEPOSIT_DETECTED", "EVM_DEPOSIT_CONFIRMED"}, datum : Txs]
    \cup [kind : {"MIDEN_DEPOSIT_DETECTED", "MIDEN_DEPOSIT_CONFIRMED"}, datum : Notes]
    \cup [kind : SettlementKinds, datum : Nat]
Keys ==
    Events \cup [kind : PayoutKinds, datum : Nat] \cup [kind : {"miden_consume"}, datum : Notes]

Reasons == {"default", "no_deposit"}
Entries == [ev : Events \cup {QuoteCreated}, from : Statuses \cup {"NONE"}, to : Statuses,
            reason : Reasons]

\* The steps of the poller that know which note they are about.
NoteLabels == {"detect", "confirm", "consume", "consumeSubmit", "consumeAppend",
               "consumeWait", "verify"}
Labels ==
    {"idle", "decide", "reason", "append", "record", "settle", "reload", "payout",
     "refundCheck", "refundSend", "refundAppend", "refundConfirm",
     "refundSubmit", "refundStore", "refundWait",
     "mintSubmit", "mintAppend", "mintWait", "releaseAppend", "releaseWait"} \cup NoteLabels

Returns == {"idle", "settle", "reload", "confirm", "consume"}

Jobs == [q : Quotes, ev : Events, ret : Returns, from : Statuses \cup {"NONE"},
         to : Statuses, reason : Reasons, id : Nat, note : Notes \cup {None}]

Fates == {"pending", "committed", "discarded"}

StoreOK ==
    /\ status \in [Quotes -> Statuses \cup {"NONE"}]
    /\ log \in [Quotes -> Seq(Entries)]
    /\ keys \in [Quotes -> SUBSET Keys]
    /\ depositTxs \in [Quotes -> Seq(Txs)]
    /\ consumeIds \in [Quotes -> Seq(Notes)]
    /\ payoutIds \in [Quotes -> Seq(Nat)]
    /\ refundIds \in [Quotes -> Seq(Nat)]

ChainsOK ==
    /\ landed \subseteq Deposits
    /\ consumes \in [Notes -> Fates \cup {"none"}]
    /\ payouts \in [Quotes -> Seq(Fates)]
    /\ refunds \in [Quotes -> Seq([cause : Events, amount : Nat])]
    /\ expired \subseteq Quotes

\* A task holds a note wherever it needs one, and keeps it while it applies an event.
HoldsNote(t) ==
    pc[t] \in NoteLabels \/ job[t].ret \in NoteLabels => job[t].note \in Notes

TasksOK ==
    /\ pc \in [Tasks -> Labels]
    /\ job \in [Tasks -> Jobs]
    /\ \A t \in Tasks : HoldsNote(t)

ProcessOK ==
    /\ phase \in {"down", "resuming", "up"}
    /\ TasksOK
    /\ todo \in [Tasks -> SUBSET [q : Quotes, status : TrackedStatuses]]
    /\ failures \in 0..MaxFailures

\* The rows, the chains and the tasks hold what the code can put there.
TypeOK == StoreOK /\ ChainsOK /\ ProcessOK

-----------------------------------------------------------------------------
\* The idempotency key of apply works: whatever is resubmitted, polled again or
\* replayed after a crash, no event of a quote is recorded a second time.
NoEventAppliedTwice ==
    \A q \in Quotes : \A i, k \in 1..Len(log[q]) :
        log[q][i].ev = log[q][k].ev => i = k

\* A refund leaves the solver's wallet only after its cause is in the lifecycle log,
\* and no cause pays twice, crashes and failed calls included.
OneRefundPerRecordedCause ==
    \A q \in Quotes : \A i, k \in 1..Len(refunds[q]) :
        /\ refunds[q][i].cause = refunds[q][k].cause => i = k
        /\ \E n \in 1..Len(log[q]) : log[q][n].ev = refunds[q][i].cause

PaidFor(q) == Len(payouts[q]) + Len(refunds[q]) > 0

\* The solver pays for an EVM-origin quote (a mint, a refund) only if its first submitted
\* hash is a confirmed, successful, nonzero payment to its own address.
PaysOnlyForDeposits ==
    \A q \in From("evm") : PaidFor(q) => HasHash(q) /\ PaidBy(q, FirstTx(q))

\* The solver pays for a Miden-origin quote (a release, a refund) only if somebody sent
\* it a fungible note, which for a bridge note is one of the quoted faucet and amount.
PaysOnlyForNotes ==
    \A q \in From("miden") : PaidFor(q) =>
        \E n \in landed \cap Notes :
            /\ PaysTo[n] = q /\ n \notin NonFungible
            /\ q \notin OwnAccount => n \notin Foreign /\ Amount[n] = Terms[q].amountIn

\* SUCCESS is recorded only for a payout that was sent and whose id is durable.
SuccessIsBacked ==
    \A q \in Quotes : \A i \in 1..Len(log[q]) :
        LET e == log[q][i] IN
        e.to = "SUCCESS" => /\ e.ev.datum \in 1..Len(payouts[q])
                            /\ Contains(payoutIds[q], e.ev.datum)

\* A retry pays out again only after a crash or a failed call hid the earlier payout:
\* each costs at most one extra mint or release.
PayoutsBoundedByFailures ==
    \A q \in Quotes : Len(payouts[q]) <= 1 + failures

\* The tasks that have sent a payout and not stored its id.
Storing(q) ==
    {t \in Tasks : pc[t] \in {"mintAppend", "releaseAppend"} /\ job[t].q = q}

\* The payouts of a chain's quotes that are neither in the rows nor in the hands of the
\* task that sent them.
InSight(q) == Range(payoutIds[q]) \cup {job[t].id : t \in Storing(q)}
Hidden(chain) == UNION {{q} \X ((1..Len(payouts[q])) \ InSight(q)) : q \in From(chain)}

\* An operator can find a payout in the rows, or in the hands of the task that sent it,
\* unless a crash or a failed call came between.  Each hides one payout of a direction at
\* most, over all its quotes: a crash may cut short a mint and a release.
PayoutsAreRecorded ==
    \A chain \in {"evm", "miden"} : Cardinality(Hidden(chain)) <= failures

\* Whatever the poller repeats, a note is recorded as consumed once, for the quote it pays,
\* and not before a transaction that consumes it was submitted.
ConsumesOnce ==
    \A q \in Quotes :
        /\ IsInjective(consumeIds[q])
        /\ \A i \in 1..Len(consumeIds[q]) :
             /\ PaysTo[consumeIds[q][i]] = q
             /\ consumes[consumeIds[q][i]] # "none"

\* A hash is stored once, and every confirmation of an EVM deposit names the first one.
ConfirmsFirstHash ==
    \A q \in Quotes :
        /\ IsInjective(depositTxs[q])
        /\ \A i \in ConfirmedEntries(q) :
             Origin[q] = "evm" => HasHash(q) /\ log[q][i].ev = Confirmed(FirstTx(q))

\* Settlement claims a quote once: a quote that reached SUCCESS never goes back to
\* PROCESSING, although stale rows may move its status elsewhere.
NeverReopensSuccess ==
    [][\A q \in Quotes :
          (\E i \in 1..Len(log[q]) : log[q][i].to = "SUCCESS") => status'[q] # "PROCESSING"]_vars

Journal == INSTANCE LifecycleJournal

\* The tasks together keep the lifecycle journal's promise.
KeepsJournal == Journal!Spec

-----------------------------------------------------------------------------
(***************************************************************************)
(* The inductive invariant behind NoEventAppliedTwice,                        *)
(* OneRefundPerRecordedCause and KeepsJournal.                                *)
(***************************************************************************)
Recorded(q) == Journal!Recorded(q)
Causes(q) == {refunds[q][i].cause : i \in 1..Len(refunds[q])}

Decided  == {"reason", "append", "record"}
Applying == {"decide"} \cup Decided
Repaying == {"refundCheck", "refundSend", "refundSubmit"}
Holding  == Applying \cup Repaying

\* A quote has rows from its insertion on, and its status is one of theirs.
Opened ==
    \A q \in Quotes : IF status[q] = "NONE" THEN log[q] = <<>>
                                            ELSE status[q] \in Journal!Held(q)

\* A recorded event has burned its key, and only recorded events were repaid.
Burned ==
    \A q \in Quotes : /\ Recorded(q) \subseteq keys[q] \cup {QuoteCreated}
                      /\ Causes(q) \subseteq Recorded(q)

\* The task that burned the key of an event alone carries it, from the key to the
\* refund; until it records the event nobody has, and until it repays it nobody did.
Carried ==
    /\ \A t, u \in Tasks :
         /\ pc[t] \in Holding /\ pc[u] \in Holding
         /\ job[t].q = job[u].q /\ job[t].ev = job[u].ev
         => t = u
    /\ \A t \in Tasks :
         LET q == job[t].q  ev == job[t].ev IN
         /\ pc[t] \in Holding => ev \in keys[q]
         /\ pc[t] \in Applying => ev \notin Recorded(q)
         /\ pc[t] \in Repaying => ev \in Recorded(q) \ Causes(q)

\* What a task is about to record is an edge it may take from a status the quote had.
Justified ==
    \A t \in Tasks :
        LET j == job[t] IN
        /\ pc[t] \in Decided =>
             /\ j.from \in Journal!Held(j.q)
             /\ MayRecord(j.from, j.to)
             /\ \E short \in BOOLEAN : j.to = TargetStatus(j.ev.kind, j.from, short)
        /\ pc[t] = "append" => j.ev.kind \in {"EVM_DEPOSIT_DETECTED", "SETTLEMENT_SUCCEEDED"}

\* Each event has one owner, one row and one refund at most.
OneOwnerPerEvent ==
    /\ TypeOK /\ Opened /\ Burned /\ Carried /\ Justified
    /\ NoEventAppliedTwice /\ OneRefundPerRecordedCause

=============================================================================
