----------------------------- MODULE SwapPromise -----------------------------
(***************************************************************************)
(* What a swap promises its user: a deposit is answered by exactly one        *)
(* payout, the quoted output on the other chain or the whole deposit back on  *)
(* its own, and a quote nobody pays costs the solver nothing.                 *)
(***************************************************************************)
EXTENDS Naturals, Sequences

CONSTANTS Quotes, Enough(_, _)   \* Enough(q, amount): the deposit covers the quote

VARIABLES
    deposit,    \* what the user paid to the quote's address, 0 so far
    paid,       \* how often the quoted output was paid to the user
    returned    \* the amounts sent back to the user

swap == <<deposit, paid, returned>>

Init ==
    /\ deposit = [q \in Quotes |-> 0]
    /\ paid = [q \in Quotes |-> 0]
    /\ returned = [q \in Quotes |-> <<>>]

Unanswered(q) == deposit[q] > 0 /\ paid[q] = 0 /\ returned[q] = <<>>

Pay(q) ==
    /\ deposit[q] = 0
    /\ deposit'[q] > 0
    /\ deposit' = [deposit EXCEPT ![q] = deposit'[q]]
    /\ UNCHANGED <<paid, returned>>

\* Only a deposit that covers the quote is swapped.
PayOut(q) ==
    /\ Unanswered(q)
    /\ Enough(q, deposit[q])
    /\ paid' = [paid EXCEPT ![q] = 1]
    /\ UNCHANGED <<deposit, returned>>

\* Too little was paid, or the price moved: everything goes back.
GiveBack(q) ==
    /\ Unanswered(q)
    /\ returned' = [returned EXCEPT ![q] = <<deposit[q]>>]
    /\ UNCHANGED <<deposit, paid>>

Next == \E q \in Quotes : Pay(q) \/ PayOut(q) \/ GiveBack(q)

Spec == Init /\ [][Next]_swap

\* The live half of the promise.
EveryDepositAnswered == \A q \in Quotes : Unanswered(q) ~> ~Unanswered(q)
=============================================================================
