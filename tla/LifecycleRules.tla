--------------------------- MODULE LifecycleRules ---------------------------
(***************************************************************************)
(* The pure rules of the quote lifecycle (src/core/lifecycle.rs): the   *)
(* statuses, the edges between them, the events that ask for an edge, the   *)
(* idempotency key of an event and the status an event leads to.            *)
(***************************************************************************)
EXTENDS Naturals, Sequences

Statuses == {"PENDING_DEPOSIT", "KNOWN_DEPOSIT_TX", "INCOMPLETE_DEPOSIT",
             "PROCESSING", "SUCCESS", "REFUNDED", "FAILED"}

TerminalStatuses == {"INCOMPLETE_DEPOSIT", "SUCCESS", "REFUNDED", "FAILED"}

\* The statuses whose quotes the pollers and the deadline scan list.
TrackedStatuses == {"PENDING_DEPOSIT", "KNOWN_DEPOSIT_TX", "PROCESSING"}

ValidTransitions ==
    {<<"PENDING_DEPOSIT", "KNOWN_DEPOSIT_TX">>,
     <<"PENDING_DEPOSIT", "PROCESSING">>,
     <<"PENDING_DEPOSIT", "INCOMPLETE_DEPOSIT">>,
     <<"PENDING_DEPOSIT", "FAILED">>,
     <<"PENDING_DEPOSIT", "REFUNDED">>,
     <<"KNOWN_DEPOSIT_TX", "PENDING_DEPOSIT">>,
     <<"KNOWN_DEPOSIT_TX", "INCOMPLETE_DEPOSIT">>,
     <<"KNOWN_DEPOSIT_TX", "REFUNDED">>,
     <<"KNOWN_DEPOSIT_TX", "FAILED">>,
     <<"PROCESSING", "SUCCESS">>,
     <<"PROCESSING", "FAILED">>,
     <<"PROCESSING", "REFUNDED">>}

\* apply refuses an edge outside the table, except the one from a status to itself.
MayRecord(from, to) == from = to \/ <<from, to>> \in ValidTransitions

-----------------------------------------------------------------------------
(***************************************************************************)
(* Events.  An event is a kind and the datum that tells two events of that  *)
(* kind on one quote apart: the transaction hash of a deposit, the id of a  *)
(* payout, the re-quoted output; None where the kind carries nothing.  The  *)
(* idempotency key of the code is a string made of exactly these parts and  *)
(* the quote's id, so within one quote an event is its own key.  The amount *)
(* in the key of a confirmation is fixed by the transaction it names.       *)
(***************************************************************************)
Event(kind, datum) == [kind |-> kind, datum |-> datum]

None == 0

Detected(tx)      == Event("EVM_DEPOSIT_DETECTED", tx)
Confirmed(tx)     == Event("EVM_DEPOSIT_CONFIRMED", tx)
NoteDetected(n)   == Event("MIDEN_DEPOSIT_DETECTED", n)
NoteConfirmed(n)  == Event("MIDEN_DEPOSIT_CONFIRMED", n)
Initiated         == Event("SETTLEMENT_INITIATED", None)
Succeeded(id)     == Event("SETTLEMENT_SUCCEEDED", id)
Slippage(out)     == Event("SLIPPAGE_EXCEEDED", out)
Expired           == Event("DEADLINE_EXPIRED", None)
QuoteCreated      == Event("QUOTE_CREATED", None)

Detections    == {"EVM_DEPOSIT_DETECTED", "MIDEN_DEPOSIT_DETECTED"}
Confirmations == {"EVM_DEPOSIT_CONFIRMED", "MIDEN_DEPOSIT_CONFIRMED"}

\* Keys the payout helpers put in the same idempotency list.
MintKey        == Event("miden_mint", None)
NoteRefundKey  == Event("miden_refund", None)
ConsumeKey(n)  == Event("miden_consume", n)
RefundKey(id)  == Event("evm_refund", id)
ReleaseKey(id) == Event("evm_release", id)

-----------------------------------------------------------------------------
\* Mutation: two hundredths less than the minimum are accepted.
FallsShortTooLate(terms, amount) ==
    CASE terms.swapType = "FLEX_INPUT"   -> 100 * amount < 98 * terms.minAmountIn
      [] terms.swapType = "EXACT_INPUT"  -> amount < terms.amountIn
      [] terms.swapType = "EXACT_OUTPUT" -> amount < terms.minAmountIn
      [] OTHER                           -> FALSE

(***************************************************************************)
(* check_flex_input_bounds, reduced to the one distinction its caller makes:*)
(* is the deposit below what the quote accepts?  The answers Accept and     *)
(* AcceptAboveUpper lead to the same status.                                *)
(***************************************************************************)
FallsShort(terms, amount) ==
    CASE terms.swapType = "FLEX_INPUT"   -> 100 * amount < 99 * terms.minAmountIn
      [] terms.swapType = "EXACT_INPUT"  -> amount < terms.amountIn
      [] terms.swapType = "EXACT_OUTPUT" -> amount < terms.minAmountIn
      [] OTHER                           -> FALSE

\* No status to move to: apply returns without recording anything.
NoTarget == "NO_TARGET"

\* A deadline moves only a quote that settlement has not taken.
DeadlineTarget(status) ==
    CASE status \in {"PENDING_DEPOSIT", "KNOWN_DEPOSIT_TX"} -> "REFUNDED"
      [] status = "INCOMPLETE_DEPOSIT" -> "INCOMPLETE_DEPOSIT"
      [] OTHER -> NoTarget

\* The status an event leads to; short says whether a confirmed deposit falls short.
TargetStatus(kind, status, short) ==
    CASE kind \in Detections            -> "KNOWN_DEPOSIT_TX"
      [] kind \in Confirmations         -> IF short THEN "INCOMPLETE_DEPOSIT"
                                                   ELSE "PENDING_DEPOSIT"
      [] kind = "SETTLEMENT_INITIATED"  -> "PROCESSING"
      [] kind = "SETTLEMENT_SUCCEEDED"  -> "SUCCESS"
      [] kind = "SLIPPAGE_EXCEEDED"     -> "REFUNDED"
      [] kind = "DEADLINE_EXPIRED"      -> DeadlineTarget(status)
      [] OTHER                          -> NoTarget

\* Mutation: an incomplete deposit is kept.
OwesRefundOnSlippage(kind, to) == kind = "SLIPPAGE_EXCEEDED"

\* The recorded transitions after which apply always sends the deposit back.
OwesRefund(kind, to) ==
    \/ kind = "SLIPPAGE_EXCEEDED"
    \/ kind \in Confirmations /\ to = "INCOMPLETE_DEPOSIT"

=============================================================================
