---------------------------- MODULE BridgePromise ----------------------------
(***************************************************************************)
(* Bridge when nothing fails: the swap it performs, the scheduling it may     *)
(* count on, and the statements of the repository's docs that the races and   *)
(* failures of Bridge refute.                                                 *)
(***************************************************************************)
EXTENDS Bridge

-----------------------------------------------------------------------------
(***************************************************************************)
(* Fairness.  tokio runs every spawned task that can run, the loops tick for  *)
(* ever, a Miden transaction is eventually in a block and an EVM transaction  *)
(* is eventually mined.  Nobody is obliged to ask for a quote, pay, submit a  *)
(* hash or restart the process.                                               *)
(***************************************************************************)
Fairness ==
    /\ \A t \in Tasks : WF_vars(Step(t))
    /\ WF_vars(Watcher)
    /\ WF_vars(Poller)
    /\ WF_vars(Scanner)
    /\ WF_vars(\E q \in Quotes : \E i \in 1..Len(payouts[q]) : PayoutCommits(q, i))
    /\ WF_vars(\E n \in Notes : ConsumeCommits(n))

FairSpec == Spec /\ Fairness

-----------------------------------------------------------------------------
\* A deposit that counts as payment of the quote: a note the quote does not take, or of
\* another faucet, is none.
Counts(q, d) ==
    /\ PaysTo[d] = q
    /\ d \notin Reverted \cup Foreign
    /\ d \in Notes => Takes(q, d)

\* The deposits of a quote that landed and count.
Payments(q) == {d \in landed : Counts(q, d)}

\* The value of deposits D together.
Total(D) == MapThenSumSet(LAMBDA d : Amount[d], D)

\* What the user and the solver would see of the quotes.
PaidIn == [q \in Quotes |-> Total(Payments(q))]
PaidOut == [q \in Quotes |-> Len(payouts[q])]
SentBack == [q \in Quotes |-> [i \in 1..Len(refunds[q]) |-> refunds[q][i].amount]]

\* The deposit is what the quote asks for: the input of an exact one, the least input of an
\* exact output, that less one hundredth where the input is flexible, or anything.
Covers(q, amount) ==
    LET asked == [EXACT_INPUT  |-> 100 * Terms[q].amountIn,
                  EXACT_OUTPUT |-> 100 * Terms[q].minAmountIn,
                  FLEX_INPUT   |-> 99 * Terms[q].minAmountIn,
                  ANY_INPUT    |-> 0] IN
    100 * amount >= asked[Terms[q].swapType]

Promise == INSTANCE SwapPromise
    WITH deposit <- PaidIn, paid <- PaidOut, returned <- SentBack, Enough <- Covers

\* Polling, keys, claims and re-quotes add up to the promised swap: one payout for a
\* deposit, the right one, and none without.
KeepsPromise == Promise!Spec

\* A payment to a deposit address is answered, whether its hash was submitted or found,
\* and so is a note the quote accepts.
AnswersEveryDeposit == Promise!EveryDepositAnswered


-----------------------------------------------------------------------------
(***************************************************************************)
(* Statements of the docs that hold as long as nothing fails, or not at all.  *)
(***************************************************************************)

\* "PROCESSING past deadline is ignored."
DeadlineIgnoredWhileProcessing ==
    [][\A q \in Quotes : status[q] = "PROCESSING" =>
          Len(log'[q]) = Len(log[q]) \/ Last(log'[q]).ev # Expired]_vars

\* A quote whose deadline row says that nothing was deposited has no refund.
NoDepositNoRefund ==
    \A q \in Quotes :
        (\E i \in 1..Len(log[q]) : log[q][i].reason = "no_deposit") => refundIds[q] = <<>>

\* A restart of a quote with a durable mint id finishes it and pays nothing more.
DurableMintIsFinal ==
    [][\A q \in Quotes : payoutIds[q] # <<>> => refunds'[q] = refunds[q]]_vars

\* SUCCESS is recorded after the solver-signed note is committed.
SuccessMeansCommitted ==
    \A q \in From("evm") : status[q] = "SUCCESS" =>
        \E i \in 1..Len(payouts[q]) : payouts[q][i] = "committed"

\* A release leaves the solver's wallet only after a transaction that consumes one of the
\* quote's notes is committed.
ReleaseAfterConsume ==
    \A q \in From("miden") : payouts[q] # <<>> =>
        \E n \in Notes : PaysTo[n] = q /\ consumes[n] = "committed"

=============================================================================
