--------------------------- MODULE LifecycleJournal ---------------------------
(***************************************************************************)
(* What the lifecycle_events table promises to whoever reads it, stated      *)
(* without tasks, keys or chains: every row is one event, no event has two    *)
(* rows, every row is an edge of the transition table that its event may ask  *)
(* for, and the status of a quote is the one its last row leads to.           *)
(*                                                                            *)
(* It does not promise that rows chain: apply reads the status in one         *)
(* transaction and records the row in another, so a row may start from a      *)
(* status the quote has since left.  It must have held it, though.            *)
(***************************************************************************)
EXTENDS LifecycleRules

CONSTANT Quotes

VARIABLES status, log

journal == <<status, log>>

Init ==
    /\ status = [q \in Quotes |-> "NONE"]
    /\ log = [q \in Quotes |-> <<>>]

\* The statuses the quote has had.
Held(q) == {log[q][i].to : i \in 1..Len(log[q])}

Recorded(q) == {log[q][i].ev : i \in 1..Len(log[q])}

\* The row a step adds to the quote's journal, which it leaves alone otherwise.
NewRow(q) == log'[q][Len(log[q]) + 1]

Adds(q) ==
    /\ Len(log'[q]) = Len(log[q]) + 1
    /\ log' = [log EXCEPT ![q] = Append(@, NewRow(q))]
    /\ status' = [status EXCEPT ![q] = NewRow(q).to]

Open(q) ==
    /\ log[q] = <<>>
    /\ Adds(q)
    /\ NewRow(q).ev = QuoteCreated
    /\ NewRow(q).to = "PENDING_DEPOSIT"

Record(q) ==
    LET row == NewRow(q) IN
    /\ Adds(q)
    /\ row.ev \notin Recorded(q)
    /\ row.from \in Held(q)
    /\ MayRecord(row.from, row.to)
    /\ \E short \in BOOLEAN : row.to = TargetStatus(row.ev.kind, row.from, short)

Next == \E q \in Quotes : Open(q) \/ Record(q)

Spec == Init /\ [][Next]_journal
=============================================================================
