------------------------------ MODULE BridgeProofs ------------------------------
(***************************************************************************)
(* Theorems about Bridge for every number of quotes, transactions, notes,     *)
(* handlers and failures.                                                     *)
(*                                                                            *)
(* Every step of the system is one of six kinds as far as the lifecycle log,  *)
(* the idempotency keys and the refunds are concerned (StepKinds).  The       *)
(* inductive invariant OneOwnerPerEvent is shown kind by kind, and the same   *)
(* classification gives the refinement of LifecycleJournal.                   *)
(***************************************************************************)
EXTENDS BridgeTypeProofs

-----------------------------------------------------------------------------
(***************************************************************************)
(* The kinds of steps.                                                        *)
(***************************************************************************)

\* No task takes an event up: what it holds it held before, or it is closer to the refund.
NoneTakenUp ==
    \A t \in Tasks : pc'[t] \in Holding =>
        \/ pc'[t] = pc[t] /\ job'[t] = job[t]
        \/ /\ pc[t] \in Repaying /\ pc'[t] \in Repaying
           /\ job'[t].q = job[t].q /\ job'[t].ev = job[t].ev

\* Nothing is recorded or refunded; keys may be added, and tasks may go on or stop.
Quiet ==
    /\ UNCHANGED <<status, log, refunds>>
    /\ \A q \in Quotes : keys[q] \subseteq keys'[q]
    /\ NoneTakenUp

\* The other tasks stay where they are.
OnlyMoves(t) == \A u \in Tasks \ {t} : pc'[u] = pc[u] /\ job'[u] = job[u]

\* A task burns the new key of an event and carries the event from now on.
Claims(t, q, ev) ==
    /\ UNCHANGED <<status, log, refunds>>
    /\ ev \notin keys[q]
    /\ keys' = [keys EXCEPT ![q] = @ \cup {ev}]
    /\ pc'[t] = "decide" /\ job'[t].q = q /\ job'[t].ev = ev
    /\ OnlyMoves(t)

\* A task goes on with the event it carries, towards its row.
Decides(t) == ApplyAccepted(t) \/ ApplyReason(t) \/ ApplyAppend(t)

\* A task sends the refund for the event it carries, on either chain.
Repays(t) == RefundSend(t) \/ NoteRefundSubmit(t)

StepKind ==
    \/ Quiet
    \/ \E t \in Tasks, q \in Quotes, ev \in Events : Claims(t, q, ev)
    \/ \E t \in Tasks : Decides(t) \/ ApplyRecord(t) \/ Repays(t)
    \/ \E q \in Quotes : CreateQuote(q)

\* The labels at which a task holds no event.
LEMMA NotHolding ==
    \A l \in (Labels \ {"decide", "reason", "append", "record", "refundCheck", "refundSend",
                        "refundSubmit"}) \cup Returns : l \notin Holding
BY DEF Labels, NoteLabels, Returns, Holding, Applying, Decided, Repaying

\* Continuing at a label outside apply takes no event up.
LEMMA ContinueQuiet ==
    ASSUME TypeOK, NEW t \in Tasks, NEW q, NEW l, l \notin Holding, Continue(t, q, l)
    PROVE  NoneTakenUp
BY DEF TypeOK, ProcessOK, TasksOK, Continue, NoneTakenUp

\* A procedure that returns takes no event up.
LEMMA ReturnQuiet ==
    ASSUME TypeOK, NEW t \in Tasks, Return(t)
    PROVE  NoneTakenUp
<1>1. job[t].ret \notin Holding
  BY JobTyped, NotHolding DEF TypeOK, ProcessOK
<1> QED BY <1>1, ContinueQuiet DEF Return

\* A jump to a label outside apply takes no event up.
LEMMA GotoQuiet ==
    ASSUME TypeOK, NEW t \in Tasks, NEW l, l \notin Holding, Goto(t, l)
    PROVE  NoneTakenUp
BY DEF TypeOK, ProcessOK, TasksOK, Goto, NoneTakenUp

\* A task that fails takes no event up.
LEMMA AbortQuiet ==
    ASSUME TypeOK, NEW t \in Tasks, Abort(t)
    PROVE  NoneTakenUp
BY DEF TypeOK, ProcessOK, TasksOK, Abort, NoneTakenUp, Holding, Applying, Decided, Repaying

\* Nor does a task that moves to a label outside apply with any job.
LEMMA MoveQuiet ==
    ASSUME TypeOK, NEW t \in Tasks, NEW l, l \notin Holding,
           pc' = [pc EXCEPT ![t] = l], NEW j, job' = [job EXCEPT ![t] = j]
    PROVE  NoneTakenUp
BY DEF TypeOK, ProcessOK, TasksOK, NoneTakenUp

\* With no task moving, no event is taken up.
LEMMA StillQuiet ==
    ASSUME UNCHANGED <<pc, job>>
    PROVE  NoneTakenUp
BY DEF NoneTakenUp

\* A call of apply claims a new event, or is quiet.
LEMMA CallApplyKind ==
    ASSUME TypeOK, NEW t \in Tasks, NEW q \in Quotes, NEW ev \in Events, NEW ret \in Returns,
           CallApply(t, q, ev, ret), UNCHANGED <<status, log, refunds>>
    PROVE  StepKind
<1>1. CASE ev \in keys[q]
  <2>1. Continue(t, q, ret) /\ keys' = keys
    BY <1>1 DEF CallApply
  <2> QED BY <2>1, NotHolding, ContinueQuiet DEF StepKind, Quiet
<1>2. CASE ev \notin keys[q]
  <2>1. keys' = [keys EXCEPT ![q] = @ \cup {ev}]
    BY <1>2 DEF CallApply, BurnKey
  <2>2. job'[t] = [Fresh(t, q) EXCEPT !.ev = ev, !.ret = ret] /\ pc'[t] = "decide"
    BY <1>2 DEF CallApply, TypeOK, ProcessOK, TasksOK
  <2>3. job'[t].q = q /\ job'[t].ev = ev
    BY <2>2 DEF Fresh, NoJob
  <2>4. OnlyMoves(t)
    BY <1>2 DEF CallApply, OnlyMoves, TypeOK, ProcessOK, TasksOK
  <2>5. Claims(t, q, ev)
    BY <1>2, <2>1, <2>2, <2>3, <2>4 DEF Claims
  <2> QED BY <2>5 DEF StepKind
<1> QED BY <1>1, <1>2

\* Adding a key keeps the others.
LEMMA BurnKeyGrows ==
    ASSUME TypeOK, NEW q \in Quotes, NEW key, BurnKey(q, key)
    PROVE  \A p \in Quotes : keys[p] \subseteq keys'[p]
BY DEF TypeOK, StoreOK, BurnKey

\* The steps of apply are of one of the kinds.
LEMMA ApplyKind ==
    ASSUME TypeOK, NEW t \in Tasks, Apply(t)
    PROVE  StepKind
<1>1. CASE ApplyIgnored(t)
  BY <1>1, ReturnQuiet DEF ApplyIgnored, StepKind, Quiet, store, rows, chains
<1>2. CASE ApplyRejected(t)
  BY <1>2, AbortQuiet DEF ApplyRejected, StepKind, Quiet, store, rows, chains
<1>3. CASE Decides(t) \/ ApplyRecord(t)
  BY <1>3 DEF StepKind
<1>4. CASE RefundNotOwed(t)
  BY <1>4, ReturnQuiet DEF RefundNotOwed, StepKind, Quiet, store, rows, chains
<1> QED BY <1>1, <1>2, <1>3, <1>4 DEF Apply, Decides

\* A refund on the EVM chain is sent, or is quiet.
LEMMA RefundKind ==
    ASSUME TypeOK, NEW t \in Tasks, Refund(t)
    PROVE  StepKind
<1>1. CASE RefundSend(t)
  BY <1>1 DEF StepKind, Repays
<1>2. CASE RefundAppend(t)
  <2>1. \A q \in Quotes : keys[q] \subseteq keys'[q]
    BY <1>2, BurnKeyGrows, JobTyped DEF RefundAppend, TypeOK, ProcessOK
  <2>2. "refundConfirm" \notin Holding
    BY NotHolding DEF Labels
  <2> QED BY <1>2, <2>1, <2>2, GotoQuiet DEF RefundAppend, StepKind, Quiet, chains
<1>3. CASE RefundConfirm(t)
  BY <1>3, ReturnQuiet DEF RefundConfirm, StepKind, Quiet, chains
<1> QED BY <1>1, <1>2, <1>3 DEF Refund

\* settle calls apply, or is quiet.
LEMMA SettleKind ==
    ASSUME TypeOK, NEW t \in Tasks, Settle(t)
    PROVE  StepKind
<1> DEFINE q == job[t].q
           ids == payoutIds[q]
<1>0. /\ q \in Quotes /\ {"idle", "reload"} \subseteq Returns
      /\ "idle" \notin Holding /\ "payout" \notin Holding
  BY JobTyped, NotHolding DEF TypeOK, ProcessOK, Returns, Labels
<1>1. CASE SettleDone(t)
  BY <1>0, <1>1, ContinueQuiet DEF SettleDone, StepKind, Quiet, store, rows, chains
<1>2. CASE SettleClaim(t)
  BY <1>0, <1>2, EventsTyped, CallApplyKind DEF SettleClaim, rows, chains
<1>3. ASSUME NEW out \in Outputs, SettleRequote(t, out) PROVE StepKind
  <2>1. out \in Nat /\ ids \in Seq(Nat) /\ Terms[q].minAmountOut \in Nat
    BY <1>0, ConstantsAssumption DEF TypeOK, StoreOK
  <2>2. UNCHANGED <<status, log, refunds>>
    BY <1>3 DEF SettleRequote, rows, chains
  <2>3. CASE out < Terms[q].minAmountOut
    <3>1. CallApply(t, q, Slippage(out), "idle")
      BY <1>3, <2>1, <2>3 DEF SettleRequote
    <3> QED BY <1>0, <2>1, <2>2, <3>1, EventsTyped, CallApplyKind
  <2>4. CASE out >= Terms[q].minAmountOut /\ ids # <<>>
    <3>1. CallApply(t, q, Succeeded(Last(ids)), "idle")
      BY <1>3, <2>1, <2>4 DEF SettleRequote
    <3>2. Last(ids) \in Nat
      <4> HIDE DEF ids
      <4> QED BY <2>1, <2>4, LastTyped
    <3> QED BY <1>0, <2>2, <3>1, <3>2, EventsTyped, CallApplyKind
  <2>5. CASE out >= Terms[q].minAmountOut /\ ids = <<>>
    <3>1. Continue(t, q, "payout") /\ keys' = keys
      BY <1>3, <2>1, <2>5 DEF SettleRequote
    <3> QED BY <1>0, <2>2, <3>1, ContinueQuiet DEF StepKind, Quiet
  <2> QED BY <2>1, <2>3, <2>4, <2>5
<1> QED BY <1>1, <1>2, <1>3 DEF Settle

\* A job that gets another id at a label outside apply carries no event.
LEMMA NewIdQuiet ==
    ASSUME TypeOK, NEW t \in Tasks, NEW l, l \notin Holding, NEW id,
           pc' = [pc EXCEPT ![t] = l], job' = [job EXCEPT ![t].id = id]
    PROVE  NoneTakenUp
BY DEF TypeOK, ProcessOK, TasksOK, NoneTakenUp

\* A mint calls apply once it is committed, and is quiet until then.
LEMMA MintKind ==
    ASSUME TypeOK, NEW t \in Tasks, Mint(t)
    PROVE  StepKind
<1> DEFINE q == job[t].q
<1>0. q \in Quotes /\ job[t].id \in Nat /\ "idle" \in Returns
  BY JobTyped DEF TypeOK, ProcessOK, Returns
<1>a. \A l \in {"mintSubmit", "mintAppend", "mintWait"} : l \notin Holding
  BY DEF Holding, Applying, Decided, Repaying
<1>1. CASE MintKeyed(t)
  <2>1. \A p \in Quotes : keys[p] \subseteq keys'[p]
    BY <1>0, <1>1, BurnKeyGrows DEF MintKeyed
  <2> QED BY <1>a, <1>1, <2>1, GotoQuiet DEF MintKeyed, StepKind, Quiet, rows, chains
<1>2. CASE MintPoll(t)
  <2>1. NoneTakenUp
    <3>1. CASE payoutIds[q] = <<>>
      BY <1>a, <1>2, <3>1, GotoQuiet DEF MintPoll
    <3>2. CASE payoutIds[q] # <<>>
      BY <1>a, <1>2, <3>2, NewIdQuiet DEF MintPoll
    <3> QED BY <3>1, <3>2
  <2> QED BY <1>2, <2>1 DEF MintPoll, StepKind, Quiet, store, rows, chains
<1>3. CASE MintSubmit(t)
  <2>1. NoneTakenUp
    BY <1>a, <1>3, NewIdQuiet DEF MintSubmit, SendPayout
  <2> QED BY <1>3, <2>1 DEF MintSubmit, StepKind, Quiet, store, rows
<1>4. CASE MintAppend(t)
  BY <1>a, <1>4, GotoQuiet DEF MintAppend, StepKind, Quiet, chains
<1>5. CASE MintCommitted(t)
  BY <1>0, <1>5, EventsTyped, CallApplyKind DEF MintCommitted, rows, chains
<1>6. CASE MintDiscarded(t)
  BY <1>6, AbortQuiet DEF MintDiscarded, StepKind, Quiet, store, rows, chains
<1> QED BY <1>1, <1>2, <1>3, <1>4, <1>5, <1>6 DEF Mint

\* Going on with a note takes no event up.
LEMMA OnwardQuiet ==
    ASSUME TypeOK, NEW t \in Tasks, Onward(t)
    PROVE  NoneTakenUp
<1>1. "verify" \notin Holding /\ "settle" \notin Holding
  BY DEF Holding, Applying, Decided, Repaying
<1> QED BY <1>1, ContinueQuiet DEF Onward

\* The poller with a note calls apply, or is quiet.
LEMMA TakeNoteKind ==
    ASSUME TypeOK, NEW t \in Tasks, TakeNote(t)
    PROVE  StepKind
<1> DEFINE q == job[t].q
           n == job[t].note
<1>0. /\ q \in Quotes /\ {"confirm", "consume"} \subseteq Returns
      /\ pc[t] \in NoteLabels => n \in Notes
  BY JobTyped DEF TypeOK, ProcessOK, Returns
<1>a. \A l \in {"consumeSubmit", "consumeAppend", "consumeWait", "settle"} : l \notin Holding
  BY DEF Holding, Applying, Decided, Repaying
<1>1. CASE NoteFound(t)
  <2>1. NoteDetected(n) \in Events
    BY <1>0, <1>1, EventsTyped DEF NoteFound, NoteLabels
  <2> QED BY <1>0, <1>1, <2>1, CallApplyKind DEF NoteFound, rows, chains
<1>2. CASE NoteCounted(t)
  <2>1. NoteConfirmed(n) \in Events
    BY <1>0, <1>2, EventsTyped DEF NoteCounted, NoteLabels
  <2> QED BY <1>0, <1>2, <2>1, CallApplyKind DEF NoteCounted, rows, chains
<1>3. CASE ConsumeKeyed(t)
  <2>1. CASE ConsumeKey(n) \in keys[q]
    <3>1. Onward(t) /\ keys' = keys
      BY <1>3, <2>1 DEF ConsumeKeyed
    <3> QED BY <1>3, <3>1, OnwardQuiet DEF ConsumeKeyed, StepKind, Quiet, rows, chains
  <2>2. CASE ConsumeKey(n) \notin keys[q]
    <3>1. BurnKey(q, ConsumeKey(n)) /\ Goto(t, "consumeSubmit")
      BY <1>3, <2>2 DEF ConsumeKeyed
    <3> QED BY <1>0, <1>a, <1>3, <3>1, BurnKeyGrows, GotoQuiet
            DEF ConsumeKeyed, StepKind, Quiet, rows, chains
  <2> QED BY <2>1, <2>2
<1>4. CASE ConsumeSubmit(t)
  BY <1>a, <1>4, GotoQuiet DEF ConsumeSubmit, StepKind, Quiet, store, rows
<1>5. CASE ConsumeAppend(t)
  BY <1>a, <1>5, GotoQuiet DEF ConsumeAppend, StepKind, Quiet, chains
<1>6. CASE ConsumeCommitted(t)
  BY <1>6, OnwardQuiet DEF ConsumeCommitted, StepKind, Quiet, store, rows, chains
<1>7. CASE ConsumeDiscarded(t)
  BY <1>7, AbortQuiet DEF ConsumeDiscarded, StepKind, Quiet, store, rows, chains
<1>8. CASE NoteVerified(t)
  BY <1>a, <1>8, ContinueQuiet DEF NoteVerified, StepKind, Quiet, store, rows, chains
<1>9. CASE NoteForeign(t)
  BY <1>9, AbortQuiet DEF NoteForeign, StepKind, Quiet, store, rows, chains
<1> QED BY <1>1, <1>2, <1>3, <1>4, <1>5, <1>6, <1>7, <1>8, <1>9 DEF TakeNote

\* A release calls apply once it is confirmed, and is quiet until then.
LEMMA ReleaseKind ==
    ASSUME TypeOK, NEW t \in Tasks, Release(t)
    PROVE  StepKind
<1>0. job[t].q \in Quotes /\ job[t].id \in Nat /\ "idle" \in Returns
  BY JobTyped DEF TypeOK, ProcessOK, Returns
<1>a. \A l \in {"releaseAppend", "releaseWait"} : l \notin Holding
  BY DEF Holding, Applying, Decided, Repaying
<1>1. CASE ReleaseSend(t)
  <2>1. NoneTakenUp
    BY <1>a, <1>1, NewIdQuiet DEF ReleaseSend, SendPayout
  <2> QED BY <1>1, <2>1 DEF ReleaseSend, StepKind, Quiet, store, rows
<1>2. CASE ReleaseAppend(t)
  <2>1. \A p \in Quotes : keys[p] \subseteq keys'[p]
    BY <1>0, <1>2, BurnKeyGrows DEF ReleaseAppend
  <2> QED BY <1>a, <1>2, <2>1, GotoQuiet DEF ReleaseAppend, StepKind, Quiet, chains
<1>3. CASE ReleaseConfirmed(t)
  BY <1>0, <1>3, EventsTyped, CallApplyKind DEF ReleaseConfirmed, rows, chains
<1> QED BY <1>1, <1>2, <1>3 DEF Release

\* A task that gets another id and stays about to refund keeps its event.
LEMMA StillRepays ==
    ASSUME TypeOK, NEW t \in Tasks, NEW l \in Repaying, NEW id, pc[t] \in Repaying,
           pc' = [pc EXCEPT ![t] = l], job' = [job EXCEPT ![t].id = id]
    PROVE  NoneTakenUp
<1>1. job[t] \in Jobs /\ pc[t] \in Labels
  BY DEF TypeOK, ProcessOK, TasksOK
<1>2. job'[t].q = job[t].q /\ job'[t].ev = job[t].ev /\ pc'[t] = l
  BY <1>1 DEF TypeOK, ProcessOK, TasksOK, Jobs
<1>3. \A u \in Tasks \ {t} : pc'[u] = pc[u] /\ job'[u] = job[u]
  BY DEF TypeOK, ProcessOK, TasksOK
<1> QED BY <1>2, <1>3 DEF NoneTakenUp

\* A refund on Miden is submitted, or is quiet.
LEMMA NoteRefundKind ==
    ASSUME TypeOK, NEW t \in Tasks, NoteRefund(t)
    PROVE  StepKind
<1> DEFINE q == job[t].q
<1>0. q \in Quotes
  BY JobTyped DEF TypeOK, ProcessOK
<1>a. /\ "refundWait" \notin Holding /\ "refundSubmit" \in Repaying
      /\ {"refundCheck", "refundSend"} \subseteq Repaying
  BY DEF Holding, Applying, Decided, Repaying
<1>1. CASE NoteRefundKeyed(t)
  <2>1. \A p \in Quotes : keys[p] \subseteq keys'[p]
    BY <1>0, <1>1, BurnKeyGrows DEF NoteRefundKeyed
  <2>2. NoneTakenUp
    BY <1>a, <1>1, StillRepays DEF NoteRefundKeyed, RefundsNow
  <2> QED BY <1>1, <2>1, <2>2 DEF NoteRefundKeyed, StepKind, Quiet, rows, chains
<1>2. CASE NoteRefundPoll(t)
  <2>1. NoneTakenUp
    <3>1. CASE refundIds[q] = <<>>
      BY <1>a, <1>2, <3>1, StillRepays DEF NoteRefundPoll, RefundsNow
    <3>2. CASE refundIds[q] # <<>>
      BY <1>a, <1>2, <3>2, NewIdQuiet DEF NoteRefundPoll
    <3> QED BY <3>1, <3>2
  <2> QED BY <1>2, <2>1 DEF NoteRefundPoll, StepKind, Quiet, store, rows, chains
<1>3. CASE NoteRefundSubmit(t)
  BY <1>3 DEF StepKind, Repays
<1>4. CASE NoteRefundAppend(t)
  BY <1>a, <1>4, GotoQuiet DEF NoteRefundAppend, StepKind, Quiet, chains
<1>5. CASE NoteRefundCommitted(t)
  BY <1>5, ReturnQuiet DEF NoteRefundCommitted, StepKind, Quiet, store, rows, chains
<1> QED BY <1>1, <1>2, <1>3, <1>4, <1>5 DEF NoteRefund

\* Users call apply, ask for a quote or are quiet.
LEMMA UsersKind ==
    ASSUME TypeOK, Users
    PROVE  StepKind
<1>1. ASSUME NEW q \in Quotes, CreateQuote(q) PROVE StepKind
  BY <1>1 DEF StepKind
<1>2. ASSUME NEW q \in Quotes, DeadlinePasses(q) PROVE StepKind
  BY <1>2, StillQuiet DEF DeadlinePasses, StepKind, Quiet, store, rows, process
<1>3. ASSUME NEW h \in Handlers, NEW s \in Submissions, SubmitDeposit(h, s[1], s[2])
      PROVE  StepKind
  <2>1. h \in Tasks /\ s[1] \in Quotes /\ s[2] \in Txs /\ "idle" \in Returns
    BY ConstantsAssumption DEF Tasks, Returns
  <2> QED BY <1>3, <2>1, EventsTyped, CallApplyKind DEF SubmitDeposit, rows, chains
<1>4. ASSUME NEW d \in Deposits, DepositLands(d) PROVE StepKind
  BY <1>4, StillQuiet DEF DepositLands, StepKind, Quiet, store, rows, process
<1> QED BY <1>1, <1>2, <1>3, <1>4 DEF Users

\* What the loops that list quotes have on their lists.
LEMMA ListedTyped ==
    ASSUME TypeOK
    PROVE  /\ \A t \in Tasks : \A r \in todo[t] : r.q \in Quotes
           /\ Loops \subseteq Tasks /\ {"idle", "settle"} \subseteq Returns
           /\ "settle" \notin Holding /\ "detect" \notin Holding
BY DEF TypeOK, ProcessOK, Tasks, Returns, Holding, Applying, Decided, Repaying

\* The watcher calls apply, or is quiet.
LEMMA WatcherKind ==
    ASSUME TypeOK, Watcher
    PROVE  StepKind
<1>1. CASE WatcherList
  BY <1>1, StillQuiet DEF WatcherList, TakeList, StepKind, Quiet, store, rows, chains
<1>2. ASSUME NEW r \in todo["watcher"], WatcherSkip(r) PROVE StepKind
  BY <1>2, StillQuiet DEF WatcherSkip, StepKind, Quiet, store, rows, chains
<1>3. ASSUME NEW r \in todo["watcher"], WatcherReject(r) PROVE StepKind
  BY <1>3, ListedTyped, AbortQuiet DEF WatcherReject, StepKind, Quiet, store, rows, chains, Loops
<1>4. ASSUME NEW r \in todo["watcher"], WatcherConfirm(r) PROVE StepKind
  <2>1. "watcher" \in Tasks /\ r.q \in Quotes
    BY ListedTyped DEF Loops
  <2>2. Confirmed(FirstTx(r.q)) \in Events
    BY <1>4, <2>1, FirstTxTyped, EventsTyped DEF WatcherConfirm, Examines, Awaited, TypeOK
  <2> QED BY <1>4, <2>1, <2>2, ListedTyped, CallApplyKind DEF WatcherConfirm, Confirm, rows, chains
<1>5. ASSUME NEW r \in todo["watcher"], NEW tx \in Txs, WatcherDetect(r, tx) PROVE StepKind
  BY <1>5, ListedTyped, EventsTyped, CallApplyKind DEF WatcherDetect, rows, chains, Loops
<1> QED BY <1>1, <1>2, <1>3, <1>4, <1>5 DEF Watcher

\* The poller is quiet until it has a note.
LEMMA PollerKind ==
    ASSUME TypeOK, Poller
    PROVE  StepKind
<1>1. CASE PollerList
  BY <1>1, StillQuiet DEF PollerList, TakeList, StepKind, Quiet, store, rows, chains
<1>2. ASSUME NEW r \in todo["poller"], PollerSettle(r) PROVE StepKind
  BY <1>2, ListedTyped, ContinueQuiet DEF PollerSettle, StepKind, Quiet, store, rows, chains, Loops
<1>3. ASSUME NEW r \in todo["poller"], PollerSkip(r) PROVE StepKind
  BY <1>3, StillQuiet DEF PollerSkip, StepKind, Quiet, store, rows, chains
<1>4. ASSUME NEW r \in todo["poller"], PollerReject(r) PROVE StepKind
  BY <1>4, ListedTyped, AbortQuiet DEF PollerReject, StepKind, Quiet, store, rows, chains, Loops
<1>5. ASSUME NEW r \in todo["poller"], NEW n \in Notes, PollerFind(r, n) PROVE StepKind
  BY <1>5, ListedTyped, MoveQuiet DEF PollerFind, StepKind, Quiet, store, rows, chains, Loops
<1> QED BY <1>1, <1>2, <1>3, <1>4, <1>5 DEF Poller

\* The scanner and the restart call apply, or are quiet.
LEMMA LoopsKind ==
    ASSUME TypeOK, Scanner \/ Resume
    PROVE  StepKind
<1>1. CASE ScannerList
  BY <1>1, StillQuiet DEF ScannerList, TakeList, StepKind, Quiet, store, rows, chains
<1>2. ASSUME NEW r \in todo["scanner"], ScannerExpire(r) PROVE StepKind
  BY <1>2, ListedTyped, EventsTyped, CallApplyKind DEF ScannerExpire, rows, chains, Loops
<1>3. CASE Boot
  BY <1>3, StillQuiet DEF Boot, StepKind, Quiet, store, rows, chains
<1>4. CASE ResumeDone
  BY <1>4, StillQuiet DEF ResumeDone, StepKind, Quiet, store, rows, chains, process
<1>5. ASSUME NEW r \in todo["resume"], ResumeQuote(r) PROVE StepKind
  <2>1. NoneTakenUp
    <3>1. CASE r.status = "PROCESSING"
      BY <1>5, <3>1, ListedTyped, ContinueQuiet DEF ResumeQuote, Loops
    <3>2. CASE r.status # "PROCESSING"
      BY <1>5, <3>2, StillQuiet DEF ResumeQuote
    <3> QED BY <3>1, <3>2
  <2> QED BY <1>5, <2>1 DEF ResumeQuote, StepKind, Quiet, store, rows, chains
<1> QED BY <1>1, <1>2, <1>3, <1>4, <1>5 DEF Scanner, Resume

\* The chains and the failures are quiet.
LEMMA OutsideKind ==
    ASSUME TypeOK, PayoutFates \/ NoteFates \/ Failures
    PROVE  StepKind
<1>1. ASSUME NEW q \in Quotes, NEW i \in 1..Len(payouts[q]),
             PayoutCommits(q, i) \/ PayoutDiscarded(q, i)
      PROVE  StepKind
  BY <1>1, StillQuiet DEF PayoutCommits, PayoutDiscarded, StepKind, Quiet, store, rows, process
<1>2. ASSUME NEW n \in Notes, ConsumeCommits(n) \/ ConsumeDiscards(n) PROVE StepKind
  BY <1>2, StillQuiet DEF ConsumeCommits, ConsumeDiscards, StepKind, Quiet, store, rows, process
<1>3. CASE Crash
  <2>1. NoneTakenUp
    BY <1>3 DEF Crash, NoneTakenUp, Holding, Applying, Decided, Repaying
  <2> QED BY <1>3, <2>1 DEF Crash, StepKind, Quiet, store, rows, chains
<1>4. ASSUME NEW t \in Tasks, Fault(t) PROVE StepKind
  BY <1>4, AbortQuiet DEF Fault, StepKind, Quiet, store, rows, chains
<1> QED BY <1>1, <1>2, <1>3, <1>4 DEF PayoutFates, NoteFates, Failures

\* Every step is of one of the kinds.
LEMMA StepKinds ==
    ASSUME TypeOK, [Next]_vars
    PROVE  StepKind
<1>1. ASSUME NEW t \in Tasks, Step(t) PROVE StepKind
  BY <1>1, ApplyKind, RefundKind, SettleKind, MintKind, TakeNoteKind, ReleaseKind, NoteRefundKind
     DEF Step
<1>2. CASE UNCHANGED vars
  BY <1>2, StillQuiet DEF StepKind, Quiet, vars, store, rows, chains, process
<1> QED BY <1>1, <1>2, UsersKind, WatcherKind, PollerKind, LoopsKind, OutsideKind DEF Next

-----------------------------------------------------------------------------
(***************************************************************************)
(* The inductive invariant, kind by kind.                                     *)
(***************************************************************************)
Owned ==
    /\ Opened /\ Burned /\ Carried /\ Justified
    /\ NoEventAppliedTwice /\ OneRefundPerRecordedCause

\* No event is carried or recorded at the start.
LEMMA InitOwned == Init => Owned
<1> SUFFICES ASSUME Init PROVE Owned
  OBVIOUS
<1>1. \A q \in Quotes : Len(log[q]) = 0 /\ Len(refunds[q]) = 0
  BY EmptySeq DEF Init
<1>2. \A q \in Quotes : Recorded(q) = {} /\ Causes(q) = {}
  BY <1>1 DEF Recorded, Journal!Recorded, Causes
<1>3. Opened
  BY DEF Init, Opened
<1>4. Burned
  BY <1>2 DEF Burned
<1>5. \A t \in Tasks : pc[t] \notin Holding
  BY DEF Init, Holding, Applying, Decided, Repaying
<1>6. Carried /\ Justified
  BY <1>5 DEF Carried, Justified, Holding, Applying, Decided, Repaying
<1>7. NoEventAppliedTwice /\ OneRefundPerRecordedCause
  BY <1>1 DEF NoEventAppliedTwice, OneRefundPerRecordedCause
<1> QED BY <1>3, <1>4, <1>6, <1>7 DEF Owned

\* The event of a task is not the one that opens the journal.
LEMMA NotTheFirstRow ==
    ASSUME NEW ev \in Events
    PROVE  ev # QuoteCreated
BY DEF Events, SettlementKinds, QuoteCreated, Event

\* With the log and the refunds unchanged, so is all that is read off them.
LEMMA SameLog ==
    ASSUME UNCHANGED <<status, log, refunds>>
    PROVE  /\ \A q : Journal!Held(q)' = Journal!Held(q)
           /\ \A q : Recorded(q)' = Recorded(q)
           /\ \A q : Causes(q)' = Causes(q)
           /\ Opened' = Opened
           /\ NoEventAppliedTwice' = NoEventAppliedTwice
           /\ OneRefundPerRecordedCause' = OneRefundPerRecordedCause
<1>1. \A q : Journal!Held(q)' = Journal!Held(q)
  BY DEF Journal!Held
<1>2. \A q : Recorded(q)' = Recorded(q)
  BY DEF Recorded, Journal!Recorded
<1>3. \A q : Causes(q)' = Causes(q)
  BY DEF Causes
<1>4. Opened' = Opened
  BY <1>1 DEF Opened
<1>5. NoEventAppliedTwice' = NoEventAppliedTwice
  BY DEF NoEventAppliedTwice
<1>6. OneRefundPerRecordedCause' = OneRefundPerRecordedCause
  BY DEF OneRefundPerRecordedCause
<1> QED BY <1>1, <1>2, <1>3, <1>4, <1>5, <1>6

\* A quiet step keeps the owners: tasks only let go of events.
LEMMA QuietKeeps ==
    ASSUME TypeOK, Owned, Quiet
    PROVE  Owned'
<1> USE DEF Owned
<1>1. /\ \A q : Journal!Held(q)' = Journal!Held(q)
      /\ \A q : Recorded(q)' = Recorded(q)
      /\ \A q : Causes(q)' = Causes(q)
      /\ Opened' /\ NoEventAppliedTwice' /\ OneRefundPerRecordedCause'
  BY SameLog DEF Quiet
<1>2. Burned'
  BY <1>1 DEF Burned, Quiet
<1>3. \A t \in Tasks :
        pc'[t] \in Holding =>
          /\ pc[t] \in Holding /\ job'[t].q = job[t].q /\ job'[t].ev = job[t].ev
          /\ pc'[t] \in Repaying => pc[t] \in Repaying
          /\ pc'[t] \in Applying => pc'[t] = pc[t] /\ job'[t] = job[t]
  BY DEF Quiet, NoneTakenUp, Holding, Applying, Decided, Repaying
<1>4. Carried'
  <2>1. \A t \in Tasks : job[t].q \in Quotes
    BY JobTyped DEF TypeOK, ProcessOK
  <2> QED BY <1>1, <1>3, <2>1 DEF Carried, Quiet, Holding
<1>5. Justified'
  <2>1. \A t \in Tasks : pc'[t] \in Decided \cup {"append"} =>
                            pc'[t] = pc[t] /\ job'[t] = job[t]
    BY <1>3 DEF Holding, Applying, Decided
  <2> QED BY <1>1, <2>1 DEF Justified
<1> QED BY <1>1, <1>2, <1>4, <1>5

\* The key was new, so nobody carries or has recorded the claimed event.
LEMMA ClaimKeeps ==
    ASSUME TypeOK, Owned, NEW t \in Tasks, NEW q \in Quotes, NEW ev \in Events,
           Claims(t, q, ev)
    PROVE  Owned'
<1> USE DEF Owned
<1>1. /\ \A p : Journal!Held(p)' = Journal!Held(p)
      /\ \A p : Recorded(p)' = Recorded(p)
      /\ \A p : Causes(p)' = Causes(p)
      /\ Opened' /\ NoEventAppliedTwice' /\ OneRefundPerRecordedCause'
  BY SameLog DEF Claims
<1>2. \A p \in Quotes : keys[p] \subseteq keys'[p]
  BY DEF Claims, TypeOK, StoreOK
<1>3. ev \in keys'[q]
  BY DEF Claims, TypeOK, StoreOK
<1>4. Burned'
  BY <1>1, <1>2 DEF Burned
<1>5. ev \notin Recorded(q)
  BY NotTheFirstRow DEF Burned, Claims
<1>6. \A u \in Tasks \ {t} : pc[u] \in Holding /\ job[u].q = q => job[u].ev # ev
  BY DEF Carried, Claims
<1>7. Carried'
  <2>1. \A u \in Tasks : job[u].q \in Quotes
    BY JobTyped DEF TypeOK, ProcessOK
  <2>2. ASSUME NEW u \in Tasks, NEW v \in Tasks, pc'[u] \in Holding, pc'[v] \in Holding,
               job'[u].q = job'[v].q, job'[u].ev = job'[v].ev
        PROVE  u = v
    BY <1>6, <2>2 DEF Carried, Claims, OnlyMoves
  <2>3. ASSUME NEW u \in Tasks
        PROVE  (LET p == job[u].q  e == job[u].ev IN
                  /\ pc[u] \in Holding => e \in keys[p]
                  /\ pc[u] \in Applying => e \notin Recorded(p)
                  /\ pc[u] \in Repaying => e \in Recorded(p) \ Causes(p))'
    <3>1. CASE u = t
      BY <1>1, <1>3, <1>5, <3>1 DEF Claims, Repaying
    <3>2. CASE u # t
      BY <1>1, <1>2, <2>1, <3>2 DEF Carried, Claims, OnlyMoves
    <3> QED BY <3>1, <3>2
  <2> QED BY <2>2, <2>3 DEF Carried
<1>8. Justified'
  <2>1. pc'[t] \notin Decided /\ pc'[t] # "append"
    BY DEF Claims, Decided
  <2> QED BY <1>1, <2>1 DEF Justified, Claims, OnlyMoves
<1> QED BY <1>1, <1>4, <1>7, <1>8
\* A task that decides keeps its event and touches no row.
LEMMA DecideShape ==
    ASSUME TypeOK, NEW t \in Tasks, Decides(t)
    PROVE  /\ UNCHANGED <<status, log, keys, refunds>>
           /\ pc[t] \in Applying /\ pc'[t] \in Decided
           /\ job'[t].q = job[t].q /\ job'[t].ev = job[t].ev
           /\ OnlyMoves(t)
<1> USE DEF TypeOK, ProcessOK, TasksOK, Applying, Decided, OnlyMoves
<1>0. job[t] \in Jobs
  BY JobTyped
<1>1. CASE ApplyAccepted(t)
  <2>1. job' = [job EXCEPT ![t].from = status[job[t].q], ![t].to = Target(t)]
    BY <1>1 DEF ApplyAccepted, Decide
  <2>2. job'[t].q = job[t].q /\ job'[t].ev = job[t].ev
    BY <1>0, <2>1 DEF Jobs
  <2>3. \A u \in Tasks \ {t} : job'[u] = job[u]
    BY <2>1
  <2>4. pc[t] = "decide" /\ pc'[t] \in Decided /\ \A u \in Tasks \ {t} : pc'[u] = pc[u]
    BY <1>1 DEF ApplyAccepted, Decide
  <2> QED BY <1>1, <2>2, <2>3, <2>4 DEF ApplyAccepted, Decide, store, rows, chains
<1>2. CASE ApplyReason(t)
  <2>1. job'[t].q = job[t].q /\ job'[t].ev = job[t].ev
    BY <1>0, <1>2 DEF ApplyReason, Jobs
  <2> QED BY <1>2, <2>1 DEF ApplyReason, store, rows, chains
<1>3. CASE ApplyAppend(t)
  BY <1>3 DEF ApplyAppend, Goto, chains
<1> QED BY <1>1, <1>2, <1>3 DEF Decides

\* What apply decides is justified by the status it has just read.
LEMMA AcceptJustified ==
    ASSUME TypeOK, Opened, NEW t \in Tasks, ApplyAccepted(t)
    PROVE  /\ status[job[t].q] \in Journal!Held(job[t].q)
           /\ MayRecord(status[job[t].q], Target(t))
           /\ \E short \in BOOLEAN :
                Target(t) = TargetStatus(job[t].ev.kind, status[job[t].q], short)
<1> DEFINE q == job[t].q
           ev == job[t].ev
           isShort == ev.kind \in Confirmations /\ FallsShort(Terms[q], Amount[ev.datum])
<1>1. q \in Quotes /\ Target(t) \in Statuses /\ MayRecord(status[q], Target(t))
  BY JobTyped, TargetOfTaskTyped DEF ApplyAccepted, TypeOK, ProcessOK
<1>2. status[q] # "NONE"
  BY <1>1 DEF MayRecord, ValidTransitions, Statuses
<1>3. status[q] \in Journal!Held(q)
  BY <1>1, <1>2 DEF Opened
<1>4. \E short \in BOOLEAN : Target(t) = TargetStatus(ev.kind, status[q], short)
  <2>1. CASE isShort
    <3>1. Target(t) = TargetStatus(ev.kind, status[q], TRUE)
      BY <2>1 DEF Target, TargetStatus
    <3> QED BY <3>1
  <2>2. CASE ~isShort
    <3>1. Target(t) = TargetStatus(ev.kind, status[q], FALSE)
      BY <2>2 DEF Target, TargetStatus
    <3> QED BY <3>1
  <2> QED BY <2>1, <2>2
<1> QED BY <1>1, <1>3, <1>4

\* A decision changes no owner, and what it decides is justified.
LEMMA DecideKeeps ==
    ASSUME TypeOK, Owned, NEW t \in Tasks, Decides(t)
    PROVE  Owned'
<1> USE DEF Owned
<1>1. /\ UNCHANGED <<status, log, keys, refunds>>
      /\ pc[t] \in Applying /\ pc'[t] \in Decided
      /\ job'[t].q = job[t].q /\ job'[t].ev = job[t].ev
      /\ OnlyMoves(t)
  BY DecideShape
<1>2. /\ \A p : Journal!Held(p)' = Journal!Held(p)
      /\ \A p : Recorded(p)' = Recorded(p)
      /\ \A p : Causes(p)' = Causes(p)
      /\ Opened' /\ NoEventAppliedTwice' /\ OneRefundPerRecordedCause'
  BY <1>1, SameLog
<1>3. Burned'
  BY <1>1, <1>2 DEF Burned
<1>4. \A u \in Tasks : /\ job'[u].q = job[u].q /\ job'[u].ev = job[u].ev
                       /\ pc'[u] \in Holding => pc[u] \in Holding
                       /\ pc'[u] \in Applying => pc[u] \in Applying
                       /\ pc'[u] \in Repaying => pc[u] \in Repaying
  BY <1>1 DEF OnlyMoves, Holding, Applying, Decided, Repaying
<1>5. Carried'
  BY <1>1, <1>2, <1>4 DEF Carried
<1>6. Justified'
  <2>1. ASSUME NEW u \in Tasks
        PROVE  (LET j == job[u] IN
                /\ pc[u] \in Decided =>
                     /\ j.from \in Journal!Held(j.q)
                     /\ MayRecord(j.from, j.to)
                     /\ \E short \in BOOLEAN : j.to = TargetStatus(j.ev.kind, j.from, short)
                /\ pc[u] = "append" => j.ev.kind \in {"EVM_DEPOSIT_DETECTED", "SETTLEMENT_SUCCEEDED"})'
    <3>1. CASE u # t
      BY <1>1, <1>2, <3>1 DEF Justified, OnlyMoves
    <3>2. CASE u = t /\ ApplyAccepted(t)
      <4>1. job'[t].from = status[job[t].q] /\ job'[t].to = Target(t)
        <5>1. job[t] \in Jobs
          BY JobTyped DEF TypeOK, ProcessOK
        <5> QED BY <3>2, <5>1 DEF ApplyAccepted, Decide, TypeOK, ProcessOK, TasksOK, Jobs
      <4>2. pc'[t] = "append" => job[t].ev.kind \in {"EVM_DEPOSIT_DETECTED", "SETTLEMENT_SUCCEEDED"}
        BY <3>2 DEF ApplyAccepted, Decide, AddsDepositHash, AddsPayoutId, TypeOK, ProcessOK, TasksOK
      <4> QED BY <1>1, <1>2, <3>2, <4>1, <4>2, AcceptJustified
    <3>3. CASE u = t /\ (ApplyReason(t) \/ ApplyAppend(t))
      <4>1. pc[t] \in Decided /\ pc'[t] = "record"
        BY <3>3 DEF ApplyReason, ApplyAppend, Goto, Decided, TypeOK, ProcessOK, TasksOK
      <4>2. job'[t].from = job[t].from /\ job'[t].to = job[t].to
        <5>1. job[t] \in Jobs
          BY JobTyped DEF TypeOK, ProcessOK
        <5> QED BY <3>3, <5>1 DEF ApplyReason, ApplyAppend, Goto, TypeOK, ProcessOK, TasksOK, Jobs
      <4> QED BY <1>1, <1>2, <3>3, <4>1, <4>2 DEF Justified
    <3> QED BY <3>1, <3>2, <3>3 DEF Decides
  <2> QED BY <2>1 DEF Justified
<1> QED BY <1>2, <1>3, <1>5, <1>6
\* What an appended row adds to the fields read off a sequence of rows.
LEMMA AppendedRow ==
    ASSUME NEW S, NEW s \in Seq(S), NEW row \in S
    PROVE  /\ Len(Append(s, row)) = Len(s) + 1
           /\ \A i \in 1..Len(s) : Append(s, row)[i] = s[i]
           /\ Append(s, row)[Len(s) + 1] = row
           /\ 1..Len(Append(s, row)) = 1..Len(s) \cup {Len(s) + 1}
           /\ Len(s) \in Nat
<1>1. Len(s) \in Nat
  BY LenProperties
<1>2. /\ Len(Append(s, row)) = Len(s) + 1
      /\ \A i \in 1..Len(s) : Append(s, row)[i] = s[i]
      /\ Append(s, row)[Len(s) + 1] = row
  BY AppendProperties
<1>3. 1..(Len(s) + 1) = 1..Len(s) \cup {Len(s) + 1}
  BY <1>1
<1> QED BY <1>1, <1>2, <1>3

\* A recorded row adds its event and its status to the quote's journal, nothing else.
LEMMA RecordGrows ==
    ASSUME TypeOK, NEW q \in Quotes, NEW row \in Entries, RecordEvent(q, row)
    PROVE  /\ Recorded(q)' = Recorded(q) \cup {row.ev}
           /\ Journal!Held(q)' = Journal!Held(q) \cup {row.to}
           /\ \A p \in Quotes \ {q} : /\ log'[p] = log[p] /\ status'[p] = status[p]
                                      /\ Recorded(p)' = Recorded(p)
                                      /\ Journal!Held(p)' = Journal!Held(p)
           /\ status'[q] = row.to /\ log'[q] = Append(log[q], row)
<1>1. log[q] \in Seq(Entries)
  BY DEF TypeOK, StoreOK
<1>2. log'[q] = Append(log[q], row) /\ status'[q] = row.to
  BY DEF RecordEvent, TypeOK, StoreOK
<1>3. \A p \in Quotes \ {q} : log'[p] = log[p] /\ status'[p] = status[p]
  BY DEF RecordEvent, TypeOK, StoreOK
<1>4. /\ \A i \in 1..Len(log[q]) : log'[q][i] = log[q][i]
      /\ log'[q][Len(log[q]) + 1] = row
      /\ 1..Len(log'[q]) = 1..Len(log[q]) \cup {Len(log[q]) + 1}
  BY <1>1, <1>2, AppendedRow
<1>5. Recorded(q)' = Recorded(q) \cup {row.ev}
  BY <1>4 DEF Recorded, Journal!Recorded
<1>6. Journal!Held(q)' = Journal!Held(q) \cup {row.to}
  BY <1>4 DEF Journal!Held
<1>7. \A p \in Quotes \ {q} : Recorded(p)' = Recorded(p) /\ Journal!Held(p)' = Journal!Held(p)
  BY <1>3 DEF Recorded, Journal!Recorded, Journal!Held
<1> QED BY <1>2, <1>3, <1>5, <1>6, <1>7

\* A row with an event that has none yet keeps what is said of the log alone.
LEMMA RecordKeepsLog ==
    ASSUME TypeOK, Owned, NEW q \in Quotes, NEW row \in Entries, RecordEvent(q, row),
           row.ev \notin Recorded(q), refunds' = refunds
    PROVE  Opened' /\ NoEventAppliedTwice' /\ OneRefundPerRecordedCause'
<1> USE DEF Owned
<1>1. /\ Recorded(q)' = Recorded(q) \cup {row.ev}
      /\ Journal!Held(q)' = Journal!Held(q) \cup {row.to}
      /\ \A p \in Quotes \ {q} : /\ log'[p] = log[p] /\ status'[p] = status[p]
                                 /\ Recorded(p)' = Recorded(p)
                                 /\ Journal!Held(p)' = Journal!Held(p)
      /\ status'[q] = row.to /\ log'[q] = Append(log[q], row)
  BY RecordGrows
<1>2. log[q] \in Seq(Entries) /\ row.to # "NONE"
  BY DEF TypeOK, StoreOK, Entries, Statuses
<1>3. /\ \A i \in 1..Len(log[q]) : log'[q][i] = log[q][i]
      /\ log'[q][Len(log[q]) + 1] = row
      /\ 1..Len(log'[q]) = 1..Len(log[q]) \cup {Len(log[q]) + 1}
  BY <1>1, <1>2, AppendedRow
<1>4. Opened'
  BY <1>1, <1>2 DEF Opened
<1>5. NoEventAppliedTwice'
  <2>1. \A i \in 1..Len(log[q]) : log[q][i].ev # row.ev
    BY DEF Recorded, Journal!Recorded
  <2>2. \A i, k \in 1..Len(log'[q]) : log'[q][i].ev = log'[q][k].ev => i = k
    BY <1>3, <2>1 DEF NoEventAppliedTwice
  <2> QED BY <1>1, <2>2 DEF NoEventAppliedTwice
<1>6. OneRefundPerRecordedCause'
  <2>1. \A p \in Quotes : \A n \in 1..Len(log[p]) :
           n \in 1..Len(log'[p]) /\ log'[p][n] = log[p][n]
    BY <1>1, <1>3
  <2>2. ASSUME NEW p \in Quotes, NEW i \in 1..Len(refunds[p]), NEW k \in 1..Len(refunds[p])
        PROVE  /\ refunds[p][i].cause = refunds[p][k].cause => i = k
               /\ \E n \in 1..Len(log'[p]) : log'[p][n].ev = refunds[p][i].cause
    <3>1. refunds[p][i].cause = refunds[p][k].cause => i = k
      BY DEF OneRefundPerRecordedCause
    <3>2. PICK n \in 1..Len(log[p]) : log[p][n].ev = refunds[p][i].cause
      BY DEF OneRefundPerRecordedCause
    <3> QED BY <2>1, <3>1, <3>2
  <2> QED BY <2>2 DEF OneRefundPerRecordedCause
<1> QED BY <1>4, <1>5, <1>6
\* The row a task records is the one it decided on; then it repays, or is done.
LEMMA RecordShape ==
    ASSUME TypeOK, NEW t \in Tasks, ApplyRecord(t)
    PROVE  LET j == job[t] IN
           /\ j.q \in Quotes /\ Entry(j.ev, j.from, j.to, j.reason) \in Entries
           /\ RecordEvent(j.q, Entry(j.ev, j.from, j.to, j.reason))
           /\ UNCHANGED <<keys, refunds>>
           /\ pc[t] = "record"
           /\ pc'[t] \in Holding => pc'[t] \in Repaying /\ job'[t] = job[t]
           /\ OnlyMoves(t)
<1> DEFINE j == job[t]
<1>1. j.q \in Quotes /\ Entry(j.ev, j.from, j.to, j.reason) \in Entries
  BY JobTyped DEF TypeOK, ProcessOK, Entry, Entries
<1>2. /\ RecordEvent(j.q, Entry(j.ev, j.from, j.to, j.reason))
      /\ UNCHANGED <<keys, refunds>>
      /\ pc[t] = "record"
  BY DEF ApplyRecord, chains
<1>3. Goto(t, "refundSend") \/ Goto(t, "refundCheck") \/ Return(t)
  BY DEF ApplyRecord
<1>4. OnlyMoves(t)
  BY <1>3 DEF Goto, Return, Continue, OnlyMoves, TypeOK, ProcessOK, TasksOK
<1>5. pc'[t] \in Holding => pc'[t] \in Repaying /\ job'[t] = job[t]
  <2>1. CASE Return(t)
    <3>1. pc'[t] = job[t].ret
      BY <2>1 DEF Return, Continue, TypeOK, ProcessOK, TasksOK
    <3> QED BY <3>1, JobTyped, NotHolding DEF TypeOK, ProcessOK
  <2>2. CASE Goto(t, "refundSend") \/ Goto(t, "refundCheck")
    BY <2>2 DEF Goto, TypeOK, ProcessOK, TasksOK, Repaying
  <2> QED BY <1>3, <2>1, <2>2
<1> QED BY <1>1, <1>2, <1>4, <1>5

\* The task that records an event is its only owner, and records it first.
LEMMA RecordKeeps ==
    ASSUME TypeOK, Owned, NEW t \in Tasks, ApplyRecord(t)
    PROVE  Owned'
<1> USE DEF Owned
<1>0. PICK q \in Quotes, row \in Entries :
         q = job[t].q /\ row = Entry(job[t].ev, job[t].from, job[t].to, job[t].reason)
  BY RecordShape
<1> DEFINE ev == row.ev
<1>1. /\ RecordEvent(q, row) /\ job[t].q = q /\ job[t].ev = ev
      /\ UNCHANGED <<keys, refunds>>
      /\ pc[t] = "record"
      /\ pc'[t] \in Holding => pc'[t] \in Repaying /\ job'[t] = job[t]
      /\ OnlyMoves(t)
  BY <1>0, RecordShape DEF Entry
<1>2. ev \in keys[q] /\ ev \notin Recorded(q)
  BY <1>1 DEF Carried, Holding, Applying, Decided
<1>3. /\ Recorded(q)' = Recorded(q) \cup {ev}
      /\ \A p \in Quotes \ {q} : Recorded(p)' = Recorded(p)
      /\ \A p \in Quotes : Journal!Held(p) \subseteq Journal!Held(p)'
  BY <1>1, <1>2, RecordGrows
<1>4. Opened' /\ NoEventAppliedTwice' /\ OneRefundPerRecordedCause'
  BY <1>1, <1>2, RecordKeepsLog
<1>5. \A p \in Quotes : Causes(p)' = Causes(p)
  BY <1>1 DEF Causes
<1>6. Burned'
  BY <1>1, <1>2, <1>3, <1>5 DEF Burned
<1>7. \A u \in Tasks \ {t} : pc[u] \in Holding /\ job[u].q = q => job[u].ev # ev
  BY <1>1 DEF Carried, Holding, Applying, Decided
<1>8. Carried'
  <2>1. \A u \in Tasks : job[u].q \in Quotes
    BY JobTyped DEF TypeOK, ProcessOK
  <2>2. ASSUME NEW u \in Tasks, NEW v \in Tasks, pc'[u] \in Holding, pc'[v] \in Holding,
               job'[u].q = job'[v].q, job'[u].ev = job'[v].ev
        PROVE  u = v
    BY <1>1, <1>7, <2>2 DEF Carried, OnlyMoves
  <2>3. ASSUME NEW u \in Tasks
        PROVE  (LET p == job[u].q  e == job[u].ev IN
                  /\ pc[u] \in Holding => e \in keys[p]
                  /\ pc[u] \in Applying => e \notin Recorded(p)
                  /\ pc[u] \in Repaying => e \in Recorded(p) \ Causes(p))'
    <3>1. CASE u = t
      <4>1. ev \notin Causes(q)
        BY <1>1, <1>2 DEF Burned
      <4>2. pc'[t] \notin Applying
        BY <1>1 DEF Holding, Applying, Decided, Repaying
      <4>3. pc'[t] \in Holding => job'[t].q = q /\ job'[t].ev = ev
        BY <1>1
      <4>4. pc'[t] \in Repaying => pc'[t] \in Holding
        BY DEF Holding
      <4> QED BY <1>1, <1>2, <1>3, <1>5, <3>1, <4>1, <4>2, <4>3, <4>4
    <3>2. CASE u # t
      <4>1. job'[u] = job[u] /\ pc'[u] = pc[u] /\ job[u].q \in Quotes
        BY <1>1, <2>1, <3>2 DEF OnlyMoves
      <4>2. pc[u] \in Applying => pc[u] \in Holding
        BY DEF Holding
      <4> QED BY <1>1, <1>3, <1>5, <1>7, <3>2, <4>1, <4>2 DEF Carried
    <3> QED BY <3>1, <3>2
  <2> QED BY <2>2, <2>3 DEF Carried
<1>9. Justified'
  <2>1. pc'[t] \notin Decided /\ pc'[t] # "append"
    BY <1>1 DEF Holding, Applying, Decided, Repaying
  <2>2. \A u \in Tasks : job[u].q \in Quotes
    BY JobTyped DEF TypeOK, ProcessOK
  <2> QED BY <1>1, <1>3, <2>1, <2>2 DEF Justified, OnlyMoves
<1> QED BY <1>4, <1>6, <1>8, <1>9
\* The refund a task sends is for the event it carries, and it lets go of the event.
LEMMA RepayShape ==
    ASSUME TypeOK, NEW t \in Tasks, Repays(t)
    PROVE  \E q \in Quotes, pay \in [cause : Events, amount : Nat] :
             /\ job[t].q = q /\ job[t].ev = pay.cause
             /\ refunds' = [refunds EXCEPT ![q] = Append(@, pay)]
             /\ UNCHANGED <<status, log, keys>>
             /\ pc[t] \in Repaying /\ pc'[t] \notin Holding
             /\ OnlyMoves(t)
<1>1. PICK amount \in Nat : SendRefund(t, amount)
  <2>1. RefundAmount(job[t].q) \in Nat /\ job[t].id \in Nat
    BY JobTyped, RefundAmountTyped DEF TypeOK, ProcessOK
  <2> QED BY <2>1 DEF Repays, RefundSend, NoteRefundSubmit
<1> DEFINE q == job[t].q
           pay == [cause |-> job[t].ev, amount |-> amount]
<1>2. q \in Quotes /\ pay \in [cause : Events, amount : Nat] /\ job[t].ev = pay.cause
  BY JobTyped DEF TypeOK, ProcessOK
<1>3. refunds' = [refunds EXCEPT ![q] = Append(@, pay)]
  BY <1>1 DEF SendRefund
<1>4. UNCHANGED <<status, log, keys>> /\ pc[t] \in Repaying
  BY DEF Repays, RefundSend, NoteRefundSubmit, RefundsNow, store, rows, Repaying
<1>5. pc'[t] \in {"refundAppend", "refundStore"} /\ OnlyMoves(t)
  BY DEF Repays, RefundSend, NoteRefundSubmit, OnlyMoves, TypeOK, ProcessOK, TasksOK
<1>6. pc'[t] \notin Holding
  BY <1>5 DEF Holding, Applying, Decided, Repaying
<1> QED BY <1>2, <1>3, <1>4, <1>5, <1>6

\* The task that repays an event is its only owner, and repays it first.
LEMMA RepayKeeps ==
    ASSUME TypeOK, Owned, NEW t \in Tasks, Repays(t)
    PROVE  Owned'
<1> USE DEF Owned
<1> DEFINE Payouts == [cause : Events, amount : Nat]
<1>0. PICK q \in Quotes, pay \in Payouts :
         /\ job[t].q = q /\ job[t].ev = pay.cause
         /\ refunds' = [refunds EXCEPT ![q] = Append(@, pay)]
         /\ UNCHANGED <<status, log, keys>>
         /\ pc[t] \in Repaying /\ pc'[t] \notin Holding
         /\ OnlyMoves(t)
  BY RepayShape
<1> DEFINE ev == pay.cause
<1>1. refunds[q] \in Seq(Payouts)
  BY DEF TypeOK, ChainsOK
<1>2. refunds'[q] = Append(refunds[q], pay) /\ \A p \in Quotes \ {q} : refunds'[p] = refunds[p]
  BY <1>0 DEF TypeOK, ChainsOK
<1>3. /\ \A i \in 1..Len(refunds[q]) : refunds'[q][i] = refunds[q][i]
      /\ refunds'[q][Len(refunds[q]) + 1] = pay
      /\ 1..Len(refunds'[q]) = 1..Len(refunds[q]) \cup {Len(refunds[q]) + 1}
  <2> HIDE DEF Payouts
  <2> QED BY <1>1, <1>2, AppendedRow
<1>4. ev \in Recorded(q) /\ ev \notin Causes(q)
  BY <1>0 DEF Carried
<1>5. /\ \A p : Recorded(p)' = Recorded(p)
      /\ \A p : Journal!Held(p)' = Journal!Held(p)
  BY <1>0 DEF Recorded, Journal!Recorded, Journal!Held
<1>6. /\ Causes(q)' = Causes(q) \cup {ev}
      /\ \A p \in Quotes \ {q} : Causes(p)' = Causes(p)
  BY <1>2, <1>3 DEF Causes
<1>7. Opened' /\ NoEventAppliedTwice'
  <2>1. Opened'
    BY <1>0, <1>5 DEF Opened
  <2>2. NoEventAppliedTwice'
    BY <1>0 DEF NoEventAppliedTwice
  <2> QED BY <2>1, <2>2
<1>8. Burned'
  BY <1>0, <1>4, <1>5, <1>6 DEF Burned
<1>9. OneRefundPerRecordedCause'
  <2>1. \A i \in 1..Len(refunds[q]) : refunds[q][i].cause # ev
    BY <1>4 DEF Causes
  <2>2. \A i, k \in 1..Len(refunds'[q]) : refunds'[q][i].cause = refunds'[q][k].cause => i = k
    <3>1. ASSUME NEW i \in 1..Len(refunds[q]), NEW k \in 1..Len(refunds[q]),
                 refunds'[q][i].cause = refunds'[q][k].cause
          PROVE  i = k
      <4>1. refunds[q][i].cause = refunds[q][k].cause
        BY <1>3, <3>1
      <4> QED BY <4>1 DEF OneRefundPerRecordedCause
    <3>2. \A i \in 1..Len(refunds[q]) : refunds'[q][i].cause # refunds'[q][Len(refunds[q]) + 1].cause
      BY <1>3, <2>1
    <3> HIDE DEF Payouts
    <3> QED BY <1>3, <3>1, <3>2
  <2>3. \E n \in 1..Len(log[q]) : log[q][n].ev = ev
    BY <1>4 DEF Recorded, Journal!Recorded
  <2>4. \A i \in 1..Len(refunds'[q]) : \E n \in 1..Len(log[q]) : log[q][n].ev = refunds'[q][i].cause
    <3>1. ASSUME NEW i \in 1..Len(refunds[q])
          PROVE  \E n \in 1..Len(log[q]) : log[q][n].ev = refunds'[q][i].cause
      <4>1. PICK n \in 1..Len(log[q]) : log[q][n].ev = refunds[q][i].cause
        BY DEF OneRefundPerRecordedCause
      <4> QED BY <1>3, <4>1
    <3> HIDE DEF Payouts
    <3> QED BY <1>3, <2>3, <3>1
  <2>5. ASSUME NEW p \in Quotes, NEW i \in 1..Len(refunds'[p]), NEW k \in 1..Len(refunds'[p])
        PROVE  /\ refunds'[p][i].cause = refunds'[p][k].cause => i = k
               /\ \E n \in 1..Len(log'[p]) : log'[p][n].ev = refunds'[p][i].cause
    <3>1. CASE p = q
      BY <1>0, <2>2, <2>4, <3>1
    <3>2. CASE p # q
      BY <1>0, <1>2, <3>2 DEF OneRefundPerRecordedCause
    <3> QED BY <3>1, <3>2
  <2> QED BY <2>5 DEF OneRefundPerRecordedCause
<1>10. \A u \in Tasks : /\ job[u].q \in Quotes
                        /\ pc'[u] \in Holding => /\ u # t /\ pc[u] \in Holding
                                                 /\ pc'[u] = pc[u] /\ job'[u] = job[u]
                                                 /\ ~(job[u].q = q /\ job[u].ev = ev)
  BY <1>0, JobTyped DEF TypeOK, ProcessOK, Carried, OnlyMoves, Holding
<1>11. Carried'
  <2>1. \A u \in Tasks : pc'[u] \in Applying \cup Repaying => pc'[u] \in Holding
    BY DEF Holding
  <2> QED BY <1>0, <1>5, <1>6, <1>10, <2>1 DEF Carried
<1>12. Justified'
  <2>1. \A u \in Tasks : pc'[u] \in Decided \cup {"append"} => pc'[u] \in Holding
    BY DEF Holding, Applying, Decided
  <2> QED BY <1>5, <1>10, <2>1 DEF Justified
<1> QED BY <1>7, <1>8, <1>9, <1>11, <1>12

\* A new quote has an empty journal and no owner of its first row.
LEMMA OpenKeeps ==
    ASSUME TypeOK, Owned, NEW q \in Quotes, CreateQuote(q)
    PROVE  Owned'
<1> USE DEF Owned
<1> DEFINE row == Entry(QuoteCreated, "NONE", "PENDING_DEPOSIT", "default")
<1>1. RecordEvent(q, row) /\ UNCHANGED <<keys, refunds, pc, job>> /\ status[q] = "NONE"
  BY DEF CreateQuote, chains, process
<1>2. row \in Entries /\ row.ev = QuoteCreated
  BY DEF Entry, Entries, Statuses, Reasons
<1>3. row.ev \notin Recorded(q)
  <2>1. Len(log[q]) = 0
    BY <1>1, EmptySeq DEF Opened
  <2> QED BY <2>1 DEF Recorded, Journal!Recorded
<1>4. Opened' /\ NoEventAppliedTwice' /\ OneRefundPerRecordedCause'
  BY <1>1, <1>2, <1>3, RecordKeepsLog
<1>5. /\ Recorded(q)' = Recorded(q) \cup {QuoteCreated}
      /\ \A p \in Quotes \ {q} : Recorded(p)' = Recorded(p)
      /\ \A p \in Quotes : Journal!Held(p) \subseteq Journal!Held(p)'
  BY <1>1, <1>2, RecordGrows
<1>6. \A p \in Quotes : Causes(p)' = Causes(p)
  BY <1>1 DEF Causes
<1>7. Burned'
  BY <1>1, <1>5, <1>6 DEF Burned
<1>8. \A t \in Tasks : job[t].q \in Quotes /\ job[t].ev # QuoteCreated
  BY JobTyped, NotTheFirstRow DEF TypeOK, ProcessOK
<1>9. Carried'
  BY <1>1, <1>5, <1>6, <1>8 DEF Carried
<1>10. Justified'
  BY <1>1, <1>5, <1>8 DEF Justified
<1> QED BY <1>4, <1>7, <1>9, <1>10
\* OneOwnerPerEvent is inductive.
LEMMA OwnerStep ==
    ASSUME OneOwnerPerEvent, [Next]_vars
    PROVE  OneOwnerPerEvent'
<1>1. TypeOK /\ Owned
  BY DEF OneOwnerPerEvent, Owned
<1>2. TypeOK'
  BY <1>1, StepTyped DEF Owned
<1>3. Owned'
  <2>1. StepKind
    BY <1>1, StepKinds
  <2> QED BY <1>1, <2>1, QuietKeeps, ClaimKeeps, DecideKeeps, RecordKeeps, RepayKeeps, OpenKeeps
          DEF StepKind
<1> QED BY <1>2, <1>3 DEF OneOwnerPerEvent, Owned

-----------------------------------------------------------------------------
(***************************************************************************)
(* The theorems.                                                              *)
(***************************************************************************)

\* At any time each event of a quote is carried by one task at most, from the key
\* apply burns to the row it records and the refund it sends.
THEOREM OneOwner == Spec => []OneOwnerPerEvent
<1>1. Init => OneOwnerPerEvent
  BY InitTyped, InitOwned DEF OneOwnerPerEvent, Owned
<1>2. OneOwnerPerEvent /\ [Next]_vars => OneOwnerPerEvent'
  BY OwnerStep
<1> QED BY <1>1, <1>2, PTL DEF Spec

\* The rows, the chains and the tasks hold what the code can put there.
THEOREM TypeCorrect == Spec => []TypeOK
<1>1. OneOwnerPerEvent => TypeOK
  BY DEF OneOwnerPerEvent
<1> QED BY <1>1, OneOwner, PTL

\* However handlers, loops, crashes and replays interleave, apply records an event of a
\* quote once.
THEOREM EventsApplyOnce == Spec => []NoEventAppliedTwice
<1>1. OneOwnerPerEvent => NoEventAppliedTwice
  BY DEF OneOwnerPerEvent
<1> QED BY <1>1, OneOwner, PTL

\* A refund is sent after its cause is in the lifecycle log, once for each cause.
THEOREM CausesRefundOnce == Spec => []OneRefundPerRecordedCause
<1>1. OneOwnerPerEvent => OneRefundPerRecordedCause
  BY DEF OneOwnerPerEvent
<1> QED BY <1>1, OneOwner, PTL

\* The journal goes by the same rules.
LEMMA SameRules ==
    /\ Journal!QuoteCreated = QuoteCreated
    /\ \A from, to : Journal!MayRecord(from, to) <=> MayRecord(from, to)
    /\ \A kind, from, short :
          Journal!TargetStatus(kind, from, short) = TargetStatus(kind, from, short)
<1>1. Journal!QuoteCreated = QuoteCreated
  BY DEF Journal!QuoteCreated, QuoteCreated, Journal!Event, Event, Journal!None, None
<1>2. \A from, to : Journal!MayRecord(from, to) <=> MayRecord(from, to)
  BY DEF Journal!MayRecord, MayRecord, Journal!ValidTransitions, ValidTransitions
<1>3. \A from : Journal!DeadlineTarget(from) = DeadlineTarget(from)
  BY DEF Journal!DeadlineTarget, DeadlineTarget, Journal!NoTarget, NoTarget
<1>4. \A kind, from, short :
        Journal!TargetStatus(kind, from, short) = TargetStatus(kind, from, short)
  BY <1>3 DEF Journal!TargetStatus, TargetStatus, Journal!NoTarget, NoTarget, Journal!Detections,
     Detections, Journal!Confirmations, Confirmations
<1> QED BY <1>1, <1>2, <1>4

\* The row a task records is one the journal may add.
LEMMA RecordIsJournalled ==
    ASSUME TypeOK, Owned, NEW t \in Tasks, ApplyRecord(t)
    PROVE  Journal!Next
<1>0. PICK q \in Quotes, row \in Entries :
         q = job[t].q /\ row = Entry(job[t].ev, job[t].from, job[t].to, job[t].reason)
  BY RecordShape
<1>1. RecordEvent(q, row) /\ pc[t] = "record"
  BY <1>0, RecordShape
<1>2. log[q] \in Seq(Entries) /\ log'[q] = Append(log[q], row)
  BY <1>1, RecordGrows DEF TypeOK, StoreOK
<1>3. Journal!NewRow(q) = row /\ Len(log'[q]) = Len(log[q]) + 1
  BY <1>2, AppendedRow DEF Journal!NewRow
<1>4. Journal!Adds(q)
  BY <1>1, <1>3 DEF Journal!Adds, RecordEvent
<1>5. row.ev \notin Journal!Recorded(q)
  BY <1>0, <1>1 DEF Owned, Carried, Recorded, Applying, Decided, Entry
<1>6. /\ row.from \in Journal!Held(q)
      /\ MayRecord(row.from, row.to)
      /\ \E short \in BOOLEAN : row.to = TargetStatus(row.ev.kind, row.from, short)
  BY <1>0, <1>1 DEF Owned, Justified, Decided, Entry
<1>7. Journal!Record(q)
  BY <1>3, <1>4, <1>5, <1>6, SameRules DEF Journal!Record
<1> QED BY <1>7 DEF Journal!Next

\* So is the row a new quote starts with.
LEMMA OpenIsJournalled ==
    ASSUME TypeOK, Owned, NEW q \in Quotes, CreateQuote(q)
    PROVE  Journal!Next
<1> DEFINE row == Entry(QuoteCreated, "NONE", "PENDING_DEPOSIT", "default")
<1>1. RecordEvent(q, row) /\ log[q] = <<>>
  BY DEF CreateQuote, Owned, Opened
<1>2. row \in Entries /\ row.ev = QuoteCreated /\ row.to = "PENDING_DEPOSIT"
  BY DEF Entry, Entries, Statuses, Reasons
<1>3. log[q] \in Seq(Entries) /\ log'[q] = Append(log[q], row)
  BY <1>1, <1>2, RecordGrows DEF TypeOK, StoreOK
<1>4. Journal!NewRow(q) = row /\ Len(log'[q]) = Len(log[q]) + 1
  BY <1>2, <1>3, AppendedRow DEF Journal!NewRow
<1>5. Journal!Adds(q)
  BY <1>1, <1>4 DEF Journal!Adds, RecordEvent
<1>6. Journal!Open(q)
  BY <1>1, <1>2, <1>4, <1>5, SameRules DEF Journal!Open
<1> QED BY <1>6 DEF Journal!Next

\* The tasks together implement the lifecycle journal: each row is an edge of the
\* transition table that a fresh event asked for, from a status the quote has had.
THEOREM ImplementsJournal == Spec => KeepsJournal
<1>1. Init => Journal!Init
  BY DEF Init, Journal!Init
<1>2. OneOwnerPerEvent /\ [Next]_vars => [Journal!Next]_(Journal!journal)
  <2> SUFFICES ASSUME OneOwnerPerEvent, [Next]_vars
               PROVE  [Journal!Next]_(Journal!journal)
    OBVIOUS
  <2>1. TypeOK /\ Owned
    BY DEF OneOwnerPerEvent, Owned
  <2>2. CASE Quiet \/ \E t \in Tasks, q \in Quotes, ev \in Events : Claims(t, q, ev)
    BY <2>2 DEF Quiet, Claims, Journal!journal
  <2>3. ASSUME NEW t \in Tasks, Decides(t) \/ Repays(t)
        PROVE  UNCHANGED Journal!journal
    BY <2>1, <2>3, DecideShape, RepayShape DEF Journal!journal
  <2> QED BY <2>1, <2>2, <2>3, StepKinds, RecordIsJournalled, OpenIsJournalled DEF StepKind
<1> QED BY <1>1, <1>2, OneOwner, PTL DEF Spec, KeepsJournal, Journal!Spec
=============================================================================
