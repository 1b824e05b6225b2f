------------------------------ MODULE BridgeSmooth ------------------------------
(***************************************************************************)
(* The inductive invariant behind KeepsPromise: when nothing fails, one loop  *)
(* takes a quote from its deposit to a terminal status, finds at each step    *)
(* what it relies on, and leaves behind what the promise asks for.            *)
(***************************************************************************)
EXTENDS BridgeCalm

-----------------------------------------------------------------------------
\* The hash is one the watcher may be given for the quote: its own, or one submitted for it.
Names(q, tx) == PaysTo[tx] = q \/ <<q, tx>> \in Submissions

(***************************************************************************)
(* When the swap is promised at all.  Nothing fails and no deadline passes;   *)
(* a quote gets one payment, of something; an EVM-origin quote has one hash   *)
(* and a Miden-origin quote none; and what a deposit account gets in a        *)
(* foreign asset is no less than the quote asks for, since a short deposit is *)
(* refunded before its faucet is compared.                                    *)
(***************************************************************************)
Undisturbed ==
    /\ MaxFailures = 0 /\ Expiring = {}
    /\ Txs \cap Notes = {}
    /\ \A q \in Quotes :
         /\ \A d, e \in Deposits : Counts(q, d) /\ Counts(q, e) => d = e
         /\ \A n \in Notes : Counts(q, n) => Amount[n] > 0
         /\ \A tx, ux \in Txs : Origin[q] = "evm" /\ Names(q, tx) /\ Names(q, ux) => tx = ux
         /\ \A tx \in Txs : <<q, tx>> \in Submissions => Origin[q] = "evm"
         /\ \A n \in Foreign : PaysTo[n] = q /\ q \in OwnAccount => Covers(q, Amount[n])

-----------------------------------------------------------------------------
\* What is known of a quote.

\* The confirmation of a deposit that counts has its key.
Confirms(key) == key.kind \in Confirmations /\ key.datum \notin Foreign
Taken(q) == \E key \in keys[q] : Confirms(key)

\* The loop that settles the quote.
Owner(q) == IF Origin[q] = "evm" THEN "watcher" ELSE "poller"

\* No deposit is confirmed yet; the quote is not claimed; it is repaid at most with what was
\* paid; what was paid covers it; it is not paid out.
Awaiting(q)   == ~Taken(q) /\ status[q] \in {"PENDING_DEPOSIT", "KNOWN_DEPOSIT_TX"}
Unclaimed(q)  == Initiated \notin keys[q]
Repayable(q)  == refunds[q] = <<>> /\ RefundAmount(q) = PaidIn[q]
Agreed(q)     == Repayable(q) /\ Covers(q, PaidIn[q])
Unpaid(q)     == payouts[q] = <<>>

\* The answer to a confirmed deposit, until the claim: it is enough, or too little.
Accepted(q)   == status[q] = "PENDING_DEPOSIT" /\ Unclaimed(q) /\ Agreed(q)
TurnedDown(q) == status[q] = "INCOMPLETE_DEPOSIT" /\ Unclaimed(q)

\* The claim, until settlement is recorded.
Processed(q)  == status[q] = "PROCESSING"
Unresolved(q) == \A key \in keys[q] : key.kind \notin {"SETTLEMENT_SUCCEEDED", "SLIPPAGE_EXCEEDED"}

\* The task carries an event of these kinds and has not recorded it.
Asks(l, j, kinds) == l \in Applying /\ j.ev.kind \in kinds

\* The steps with a note that is confirmed.
Keeping == Consuming \cup {"consume", "verify"}

-----------------------------------------------------------------------------
\* What task t may rely on at label l with job j.
SmoothAt(t, l, j) ==
    LET q == j.q IN
    l # "idle" =>
    /\ \/ t = Owner(q)
       \/ Origin[q] = "evm" /\ Asks(l, j, {"EVM_DEPOSIT_DETECTED"})
    /\ l \in Holding => j.ev.kind # "DEADLINE_EXPIRED"
    /\ l \in NoteLabels \/ j.ret \in NoteLabels => j.note \in landed /\ Takes(q, j.note)
    /\ l \in {"detect", "confirm"} \/ Asks(l, j, Detections) => Awaiting(q)
    /\ Asks(l, j, {"EVM_DEPOSIT_DETECTED"}) => status[q] = "PENDING_DEPOSIT" /\ j.ret = "idle"
    /\ Asks(l, j, {"MIDEN_DEPOSIT_DETECTED"}) => j.ret = "confirm"
    /\ Asks(l, j, Confirmations) =>
         /\ status[q] \in {"PENDING_DEPOSIT", "KNOWN_DEPOSIT_TX"}
         /\ Unclaimed(q) /\ refunds[q] = <<>>
         /\ \A key \in keys[q] : Confirms(key) => key = j.ev
         /\ j.ev.datum \in Foreign => Covers(q, Amount[j.ev.datum])
         /\ j.ret = "settle" \/ (j.ret = "consume" /\ j.ev.datum = j.note)
         /\ l \in Decided => j.to = IF Covers(q, Amount[j.ev.datum]) THEN "PENDING_DEPOSIT"
                                                                     ELSE "INCOMPLETE_DEPOSIT"
    /\ l \in Keeping => IF j.note \in Foreign
                          THEN Awaiting(q)
                          ELSE Taken(q) /\ (Accepted(q) \/ TurnedDown(q))
    /\ l = "settle" => Taken(q) /\ (Accepted(q) \/ TurnedDown(q))
    /\ Asks(l, j, {"SETTLEMENT_INITIATED"}) =>
         status[q] = "PENDING_DEPOSIT" /\ Agreed(q) /\ Unpaid(q) /\ j.ret = "reload"
    /\ l \in Settling \cup Refunding \/ Asks(l, j, SettleKinds) => Taken(q)
    /\ l \in Settling \ {"settle"} \/ Asks(l, j, {"SETTLEMENT_SUCCEEDED", "SLIPPAGE_EXCEEDED"})
         => Processed(q) /\ j.ret = "idle"
    /\ l \in Settling \ {"settle"} \/ Asks(l, j, {"SETTLEMENT_INITIATED"}) => Unresolved(q)
    /\ l \in {"reload", "payout", "mintSubmit"} => Agreed(q)
    /\ l = "reload" \/ Asks(l, j, {"SLIPPAGE_EXCEEDED"}) => Agreed(q) /\ Unpaid(q)
    /\ l \in Repaying => l # "refundCheck" /\ Repayable(q) /\ Unpaid(q)
    /\ l = "refundSubmit" => j.id = PaidIn[q]
    /\ l \in Refunding =>
         /\ status[q] \in {"INCOMPLETE_DEPOSIT", "REFUNDED"}
         /\ j.ret = "idle" \/ (TurnedDown(q) /\ j.ret \in {"settle", "consume"})
         /\ j.ret = "consume" => j.note \notin Foreign

\* What a key of quote q says of the payment it names.
SmoothKey(q, key) ==
    /\ key.kind \in Confirmations =>
         /\ key.datum \in landed \ Reverted /\ PaysTo[key.datum] = q
         /\ key.datum \in Notes => Takes(q, key.datum)
         /\ key.datum \notin Foreign => Amount[key.datum] > 0
    /\ key.kind = "EVM_DEPOSIT_DETECTED" => Origin[q] = "evm" /\ Names(q, key.datum)

\* A deposit of the quote was seen on the EVM chain.
Detects(q) == \E key \in keys[q] : key.kind = "EVM_DEPOSIT_DETECTED"

\* The loop of quote q is not at it.
Left(q) == pc[Owner(q)] = "idle" \/ job[Owner(q)].q # q

\* What the row of quote q says, whoever is at it.
SmoothRows(q) ==
    /\ ~Taken(q) => /\ Unclaimed(q) /\ refunds[q] = <<>>
                    /\ status[q] \in {"NONE", "PENDING_DEPOSIT", "KNOWN_DEPOSIT_TX"}
    /\ Origin[q] = "evm" /\ (Taken(q) \/ status[q] \notin {"NONE", "PENDING_DEPOSIT"}) => Detects(q)
    /\ Taken(q) /\ Left(q) => status[q] \in TerminalStatuses

\* What the entries of a loop's list stand for.
SmoothList(t) ==
    /\ \A r, o \in todo[t] : r.q = o.q => r = o
    /\ \A r \in todo[t] :
         /\ pc[t] # "idle" => job[t].q # r.q
         /\ t = "watcher" /\ r.status = "KNOWN_DEPOSIT_TX" =>
              Awaiting(r.q) /\ status[r.q] = "KNOWN_DEPOSIT_TX"
         /\ t = "poller" => Awaiting(r.q) /\ r.status # "PROCESSING"

\* Nobody pays for a quote before it was asked for.
PaysKnown == \A d \in landed : PaysTo[d] # None => status[PaysTo[d]] # "NONE"

\* One loop at a time answers the deposit of a quote, from its confirmation to a terminal
\* status: each payout finds a covering deposit, nothing paid out and nothing sent back,
\* each refund the same with the whole deposit to send.
Smooth ==
    /\ phase = "up" /\ expired = {} /\ todo["scanner"] = {}
    /\ \A t \in Tasks : SmoothAt(t, pc[t], job[t])
    /\ \A q \in Quotes : SmoothRows(q) /\ \A key \in keys[q] : SmoothKey(q, key)
    /\ SmoothList("watcher") /\ SmoothList("poller")
=============================================================================
