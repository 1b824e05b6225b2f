------------------------------- MODULE BridgeCalm -------------------------------
(***************************************************************************)
(* The inductive invariant behind what BridgePromise says of Bridge as long   *)
(* as nothing has failed: a claim of a Miden-origin quote stands for a note   *)
(* that is consumed, and a recorded payout of an EVM-origin quote for a mint  *)
(* that is committed or that a task waits for.                                *)
(***************************************************************************)
EXTENDS BridgeGrounds, BridgePromise

\* A note of the quote is consumed; a payout of the quote is committed.
Consumed(q)  == \E n \in Notes : PaysTo[n] = q /\ consumes[n] = "committed"
Committed(q) == \E i \in 1..Len(payouts[q]) : payouts[q][i] = "committed"

\* The steps between the key of a note and the block that consumes it.
Consuming == {"consumeSubmit", "consumeAppend", "consumeWait"}
InHand(n) == pc["poller"] \in Consuming /\ job["poller"].note = n

\* A task waits for the mint of the quote to be in a block.
AwaitsMint(q) == \E t \in Tasks : pc[t] = "mintWait" /\ job[t].q = q

\* What is settled of a task at label l with job j.
CalmAt(l, j) ==
    /\ l \in {"settle", "verify"} /\ Origin[j.q] = "miden" => Consumed(j.q)
    /\ j.ret = "settle" => Origin[j.q] = "evm"
    /\ l \in {"releaseAppend", "releaseWait"} => Origin[j.q] = "miden"
    /\ l = "consumeSubmit" => consumes[j.note] = "none"

\* What is settled of quote q by a key.
CalmKey(q, key) ==
    /\ key.kind = "SETTLEMENT_INITIATED" /\ Origin[q] = "miden" => Consumed(q)
    /\ key.kind = "SETTLEMENT_SUCCEEDED" /\ Origin[q] = "evm" => Committed(q)
    /\ key.kind = "miden_consume" => consumes[key.datum] = "committed" \/ InHand(key.datum)

\* What the rows and payouts of quote q show.
CalmRows(q) ==
    /\ payouts[q] # <<>> => Initiated \in keys[q]
    /\ Origin[q] = "evm" /\ status[q] = "SUCCESS" => Committed(q)
    /\ Origin[q] = "evm" /\ payoutIds[q] # <<>> => Committed(q) \/ AwaitsMint(q)

\* No transaction was discarded, and none consumes a note before the note's key.
CalmChains ==
    /\ \A q \in Quotes : \A i \in 1..Len(payouts[q]) : payouts[q][i] # "discarded"
    /\ \A n \in Notes : /\ consumes[n] # "discarded"
                        /\ \A q \in Quotes : consumes[n] # "none" /\ PaysTo[n] = q
                             => ConsumeKey(n) \in keys[q]

\* What holds of every task, every quote's keys and rows, and the chains.
Calm ==
    /\ \A t \in Tasks : CalmAt(pc[t], job[t])
    /\ \A q \in Quotes : CalmRows(q) /\ \A key \in keys[q] : CalmKey(q, key)
    /\ CalmChains

\* Until the first failure: failures only grow, so nothing is claimed after it.
CalmUntilFailure == failures = 0 => Calm
=============================================================================
