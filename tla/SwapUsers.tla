------------------------------ MODULE SwapUsers ------------------------------
(***************************************************************************)
(* The two programs that use the bridge for a user: the evidence runner       *)
(* (src/bin/sepolia_e2e.rs), which pays in, claims, funds a second wallet,    *)
(* claims, sends a bridge-out note and waits for the release, and the demo    *)
(* endpoints (src/api/demo.rs), where each of these is an HTTP call that the  *)
(* user repeats when it answers an error.                                     *)
(*                                                                           *)
(* The bridge itself is reduced to what its modules promise a user: it finds  *)
(* a deposit that is submitted or that landed, and delivers or gives up.      *)
(***************************************************************************)
EXTENDS Naturals, FiniteSets, Sequences, LifecycleRules

CONSTANTS
    MaxAttempts,   \* tries of send_native_eth
    MaxQuotes      \* bound: quotes a user asks for in one leg

ASSUME SwapUsersAssumption == MaxAttempts \in Nat \ {0} /\ MaxQuotes \in Nat

VARIABLES
    program,   \* "demo" or "e2e"; any other value, and nothing happens here
    leg,       \* what the user is about: "inbound", "funding" or "outbound"
    at,        \* the program's next step
    attempt,   \* failed tries of the current send
    quotes     \* the user's quotes, with what the chains and the bridge know of each

swapVars == <<program, leg, at, attempt, quotes>>

Latest == Len(quotes)

\* Every quote into Miden has a wallet of its own.  The user claims for the latest one.
Wallet == CHOOSE i \in DOMAIN quotes :
              /\ quotes[i].leg # "outbound"
              /\ \A j \in DOMAIN quotes : quotes[j].leg # "outbound" => j <= i

\* from: the wallet a bridge-out note is paid from; taken: payments the node took; landed,
\* recorded: those on the chain, on the quote; lost: tries whose answer was lost; hash: the
\* payment the program knows of; note: the minted note, or the bridge-out note.
NewQuote(kind) ==
    [leg |-> kind, from |-> IF kind = "outbound" THEN Wallet ELSE 0,
     status |-> "PENDING_DEPOSIT", taken |-> 0, landed |-> {},
     recorded |-> {}, lost |-> 0, hash |-> 0, note |-> "none"]

Goto(l) == at' = l /\ UNCHANGED <<leg, attempt>>

\* An error ends the runner.  A user of the demo repeats the call: a start or fund_outbound
\* from its quote, a claim or submit_outbound from its claim; or leaves the wallet that was
\* to be spent, and calls fund_outbound for a new one.
Err ==
    /\ UNCHANGED attempt
    /\ \/ program = "e2e" /\ at' = "failed" /\ UNCHANGED leg
       \/ /\ program = "demo"
          /\ at' = IF at \in {"claim", "claimWait"} \/ leg = "outbound" THEN "claim" ELSE "quote"
          /\ leg' = IF leg = "outbound" THEN "funding" ELSE leg
       \/ program = "demo" /\ leg # "inbound" /\ at' = "quote" /\ leg' = "funding"

-----------------------------------------------------------------------------
\* start_inbound, fund_outbound; main, up to the status poll.

CreateQuoteFor ==
    /\ at = "quote" /\ Cardinality({i \in DOMAIN quotes : quotes[i].leg = leg}) < MaxQuotes
    /\ quotes' = Append(quotes, NewQuote(leg))
    /\ at' = IF leg = "outbound" THEN "note" ELSE "send"
    /\ attempt' = 0
    /\ UNCHANGED <<program, leg>>

\* A quote is refused.
QuoteFails ==
    /\ at = "quote"
    /\ Err
    /\ UNCHANGED <<program, quotes>>

\* send_transaction: taken and answered.
Send ==
    /\ at = "send"
    /\ quotes' = [quotes EXCEPT ![Latest].taken = @ + 1, ![Latest].hash = quotes[Latest].taken + 1]
    /\ Goto("confirm")
    /\ UNCHANGED program

\* Mutation: 0..=8 for 0..8.
OneAttemptMore == IF program = "e2e" THEN MaxAttempts + 1 ELSE 1

Attempts == IF program = "e2e" THEN MaxAttempts ELSE 1

\* An error, for a transaction the node has taken or not: the runner sends again.
SendFails ==
    /\ at = "send"
    /\ \/ quotes' = [quotes EXCEPT ![Latest].taken = @ + 1, ![Latest].lost = @ + 1]
       \/ UNCHANGED quotes
    /\ IF attempt + 1 < Attempts THEN attempt' = attempt + 1 /\ UNCHANGED <<leg, at>>
                                 ELSE Err
    /\ UNCHANGED program

\* Mutation: the deposit is not waited for.
ConfirmedAtOnce == at = "confirm"

\* watch, wait_for_evm_confirmations
HasConfirmations == at = "confirm" /\ quotes[Latest].hash \in quotes[Latest].landed

Confirm ==
    /\ HasConfirmations
    /\ Goto("record")
    /\ UNCHANGED <<program, quotes>>

\* Mutation: the runner pays again when its deposit is not confirmed in time.
ConfirmFailsResend ==
    /\ at = "confirm"
    /\ IF attempt + 1 < Attempts THEN at' = "send" /\ attempt' = attempt + 1 /\ UNCHANGED leg
                                 ELSE Err
    /\ UNCHANGED <<program, quotes>>

\* A timeout, or an error of the node.
ConfirmFails ==
    /\ at = "confirm"
    /\ Err
    /\ UNCHANGED <<program, quotes>>

\* record_demo_deposit, POST /v0/deposit/submit: an event the quote has already is accepted
\* again, another one only while settlement has not begun.
Recorded(q) == [q EXCEPT !.recorded = @ \cup {q.hash}, !.status = "KNOWN_DEPOSIT_TX"]
MayRecordDeposit(q) == q.hash \notin q.recorded /\ MayRecord(q.status, "KNOWN_DEPOSIT_TX")

RecordDeposit ==
    /\ at = "record"
    /\ \/ quotes[Latest].hash \in quotes[Latest].recorded /\ UNCHANGED quotes
       \/ MayRecordDeposit(quotes[Latest]) /\ quotes' = [quotes EXCEPT ![Latest] = Recorded(@)]
    /\ Goto(IF program = "e2e" THEN "poll" ELSE "claim")
    /\ UNCHANGED program

\* The event is refused, or the call or its answer is lost.
RecordFails ==
    /\ at = "record"
    /\ \/ UNCHANGED quotes
       \/ MayRecordDeposit(quotes[Latest]) /\ quotes' = [quotes EXCEPT ![Latest] = Recorded(@)]
    /\ Err
    /\ UNCHANGED program

-----------------------------------------------------------------------------
\* poll_status_until

\* Mutation: any final status ends the poll.
PolledEnd(status) == status \in TerminalStatuses

Polled(status) == status = "SUCCESS"

Poll ==
    /\ at = "poll" /\ Polled(quotes[Latest].status)
    /\ Goto(IF leg = "outbound" THEN "report" ELSE "claim")
    /\ UNCHANGED <<program, quotes>>

PollFails ==
    /\ at = "poll"
    /\ Err
    /\ UNCHANGED <<program, quotes>>

-----------------------------------------------------------------------------
\* wait_and_consume_notes: the note is there, and its transaction is waited for.

SubmitClaim ==
    /\ at = "claim" /\ quotes[Wallet].note = "there"
    /\ quotes' = [quotes EXCEPT ![Wallet].note = "pending"]
    /\ Goto("claimWait")
    /\ UNCHANGED program

ClaimDone ==
    /\ at = "claimWait" /\ quotes[Wallet].note = "committed"
    /\ leg' = IF leg = "inbound" THEN "funding" ELSE "outbound"
    /\ at' = "quote"
    /\ UNCHANGED <<program, attempt, quotes>>

\* Mutation: a repeated call takes the claim an earlier one made for its own, and goes on.
ClaimedBefore ==
    /\ at = "claim"
    /\ \/ quotes[Wallet].note # "committed" /\ Err
       \/ /\ quotes[Wallet].note = "committed"
          /\ leg' = IF leg = "inbound" THEN "funding" ELSE "outbound"
          /\ at' = "quote" /\ UNCHANGED attempt
    /\ UNCHANGED <<program, quotes>>

\* No note in time, or an error of the client or the node.
ClaimFails ==
    /\ at = "claim"
    /\ Err
    /\ UNCHANGED <<program, quotes>>

\* The transaction was discarded, or cannot be followed any longer.
ClaimWaitFails ==
    /\ at = "claimWait"
    /\ Err
    /\ UNCHANGED <<program, quotes>>

\* submit_bridge_out_note
SubmitNote ==
    /\ at = "note"
    /\ quotes' = [quotes EXCEPT ![Latest].note = "pending"]
    /\ Goto("noteWait")
    /\ UNCHANGED program

NoteDone ==
    /\ at = "noteWait" /\ quotes[Latest].note = "committed"
    /\ Goto(IF program = "e2e" THEN "poll" ELSE "report")
    /\ UNCHANGED <<program, quotes>>

NoteFails ==
    /\ at \in {"note", "noteWait"}
    /\ Err
    /\ UNCHANGED <<program, quotes>>

-----------------------------------------------------------------------------
\* The chains and the bridge.
Update(i, q) == quotes' = [quotes EXCEPT ![i] = q] /\ UNCHANGED <<program, leg, at, attempt>>

LandPayment(i, p) ==
    /\ p \notin quotes[i].landed
    /\ Update(i, [quotes[i] EXCEPT !.landed = @ \cup {p}])

CommitNote(i) ==
    /\ quotes[i].note = "pending"
    /\ Update(i, [quotes[i] EXCEPT !.note = "committed"])

DiscardNote(i) ==
    /\ quotes[i].note = "pending"
    /\ Update(i, [quotes[i] EXCEPT !.note = IF quotes[i].leg = "outbound" THEN "none" ELSE "there"])

\* The watcher finds a payment nobody submitted.
FindDeposit(i, p) ==
    /\ quotes[i].status = "PENDING_DEPOSIT" /\ quotes[i].recorded = {}
    /\ p \in quotes[i].landed
    /\ Update(i, [quotes[i] EXCEPT !.recorded = {p}, !.status = "KNOWN_DEPOSIT_TX"])

Deliver(i) ==
    /\ quotes[i].leg # "outbound" /\ quotes[i].status = "KNOWN_DEPOSIT_TX"
    /\ quotes[i].recorded \cap quotes[i].landed # {}
    /\ Update(i, [quotes[i] EXCEPT !.status = "SUCCESS", !.note = "there"])

Release(i) ==
    /\ quotes[i].leg = "outbound" /\ quotes[i].status = "PENDING_DEPOSIT"
    /\ quotes[i].note = "committed"
    /\ Update(i, [quotes[i] EXCEPT !.status = "SUCCESS"])

GiveUp(i) ==
    /\ quotes[i].status \notin TerminalStatuses
    /\ Update(i, [quotes[i] EXCEPT !.status = "FAILED"])

InitSwapUsers(programs) ==
    /\ program \in programs
    /\ leg = "inbound" \/ (program = "demo" /\ leg = "funding")
    /\ at = "quote" /\ attempt = 0 /\ quotes = <<>>

NextSwap ==
    \/ CreateQuoteFor \/ QuoteFails \/ Send \/ SendFails \/ Confirm \/ ConfirmFails
    \/ RecordDeposit \/ RecordFails \/ Poll \/ PollFails
    \/ SubmitClaim \/ ClaimDone \/ ClaimFails \/ ClaimWaitFails
    \/ SubmitNote \/ NoteDone \/ NoteFails
    \/ \E i \in DOMAIN quotes :
          \/ \E p \in 1..quotes[i].taken : LandPayment(i, p) \/ FindDeposit(i, p)
          \/ CommitNote(i) \/ DiscardNote(i) \/ Deliver(i) \/ Release(i) \/ GiveUp(i)

-----------------------------------------------------------------------------
SwapUsersTypeOK ==
    /\ leg \in {"inbound", "funding", "outbound"}
    /\ at \in {"quote", "send", "confirm", "record", "poll", "claim", "claimWait", "note",
               "noteWait", "report", "failed"}
    /\ attempt \in 0..(MaxAttempts - 1)
    /\ \A i \in DOMAIN quotes :
          /\ quotes[i].leg = "outbound" => quotes[i].from \in DOMAIN quotes
          /\ quotes[i].status \in Statuses
          /\ quotes[i].hash \in 0..quotes[i].taken
          /\ quotes[i].landed \cup quotes[i].recorded \subseteq 1..quotes[i].taken
          /\ quotes[i].note \in {"none", "there", "pending", "committed"}

\* The user's key pays a quote once, and once more only for each answer of the node that was
\* lost: no timeout, refusal or retry after it pays a second time.
PaysOncePerLostAnswer == \A i \in DOMAIN quotes : quotes[i].taken <= 1 + quotes[i].lost

\* A program that goes on to the user's claim has its deposit on the chain and on the quote.
DepositsAreKnown ==
    at \in {"claim", "claimWait"} =>
        quotes[Wallet].hash \in quotes[Wallet].landed \cap quotes[Wallet].recorded

\* The quotes a bridge-out note was sent for and not dropped.
BridgedOut == {i \in DOMAIN quotes : quotes[i].leg = "outbound" /\ quotes[i].note # "none"}

\* However often submit_outbound and fund_outbound are repeated, a bridge-out note is sent
\* from a wallet whose own funding note is claimed, and from each such wallet one.
SendsWhatItClaimed ==
    /\ \A i \in BridgedOut : /\ quotes[quotes[i].from].leg = "funding"
                             /\ quotes[quotes[i].from].note = "committed"
    /\ \A i, j \in BridgedOut : quotes[i].from = quotes[j].from => i = j

\* The evidence of the runner is true: the three quotes it names succeeded, on deposits the
\* chain has, and the notes it names were consumed or created.
EvidenceIsTrue ==
    program = "e2e" /\ at = "report" =>
        \A i \in DOMAIN quotes :
            /\ quotes[i].status = "SUCCESS" /\ quotes[i].note = "committed"
            /\ quotes[i].leg # "outbound" => quotes[i].hash \in quotes[i].landed \cap quotes[i].recorded
=============================================================================
