--------------------------- MODULE BridgeTypeProofs ---------------------------
(***************************************************************************)
(* Type correctness of Bridge, step by step, for every number of quotes,      *)
(* transactions, notes, handlers and failures.                                *)
(***************************************************************************)
EXTENDS Bridge, SequenceTheorems, WellFoundedInduction, TLAPS

-----------------------------------------------------------------------------
(***************************************************************************)
(* Lemmas about the operators the model is built from.                        *)
(***************************************************************************)

\* A nonempty set of naturals below a bound has a greatest element, the one Max picks.
LEMMA MaxOfBounded ==
    ASSUME NEW n \in Nat, NEW S \in SUBSET (1..n), S # {}
    PROVE  Max(S) \in S
<1> DEFINE R == OpToRel(<, Nat)
           T == {n - i : i \in S}
<1>1. IsWellFoundedOn(R, Nat)
  BY NatLessThanWellFounded
<1>2. T \subseteq Nat /\ T # {}
  <2>1. \A i \in S : i \in 1..n /\ n - i \in Nat
    OBVIOUS
  <2>2. PICK i \in S : TRUE
    OBVIOUS
  <2>3. n - i \in T
    OBVIOUS
  <2>4. T \subseteq Nat
    BY <2>1
  <2> QED BY <2>3, <2>4
<1>3. PICK m \in T : \A y \in T : ~(<<y, m>> \in R)
  <2> HIDE DEF T, R
  <2> QED BY <1>1, <1>2, WFMin
<1>4. ASSUME NEW y \in T PROVE y >= m
  <2>1. y \in Nat /\ m \in Nat
    BY <1>2
  <2>2. ~(<<y, m>> \in R)
    BY <1>3
  <2>3. ~(y < m)
    BY <2>1, <2>2 DEF OpToRel
  <2> QED BY <2>1, <2>3
<1>5. PICK i \in S : m = n - i
  BY <1>3
<1>6. ASSUME NEW k \in S PROVE i >= k
  <2>1. n - k \in T
    OBVIOUS
  <2>2. n - k >= n - i
    BY <1>4, <1>5, <2>1
  <2>3. i \in Nat /\ k \in Nat
    OBVIOUS
  <2> QED BY <2>2, <2>3
<1> QED BY <1>6 DEF Max

\* The last element of a sequence is one of its elements.
LEMMA LastTyped ==
    ASSUME NEW S, NEW s \in Seq(S), s # <<>>
    PROVE  Last(s) \in S
<1>1. Len(s) \in 1..Len(s)
  BY EmptySeq, LenProperties
<1> QED BY <1>1, ElementOfSeq DEF Last

\* The events the code raises are events.
LEMMA EventsTyped ==
    /\ \A tx \in Txs : Detected(tx) \in Events /\ Confirmed(tx) \in Events
    /\ \A n \in Notes : NoteDetected(n) \in Events /\ NoteConfirmed(n) \in Events
    /\ Initiated \in Events /\ Expired \in Events
    /\ \A n \in Nat : Succeeded(n) \in Events /\ Slippage(n) \in Events
BY DEF Events, SettlementKinds, Detected, Confirmed, NoteDetected, NoteConfirmed, Initiated,
       Expired, Succeeded, Slippage, Event, None

\* The keys it records are keys.
LEMMA KeysTyped ==
    /\ Events \subseteq Keys /\ MintKey \in Keys /\ NoteRefundKey \in Keys
    /\ \A n \in Notes : ConsumeKey(n) \in Keys
    /\ \A n \in Nat : RefundKey(n) \in Keys /\ ReleaseKey(n) \in Keys
BY DEF Keys, PayoutKinds, MintKey, NoteRefundKey, ConsumeKey, RefundKey, ReleaseKey, Event, None

\* A confirmation names a deposit.
LEMMA ConfirmationsTyped ==
    ASSUME NEW ev \in Events \cup {QuoteCreated}, ev.kind \in Confirmations
    PROVE  ev.datum \in Deposits
<1>1. CASE ev \in [kind : {"EVM_DEPOSIT_DETECTED", "EVM_DEPOSIT_CONFIRMED"}, datum : Txs]
  BY <1>1 DEF Deposits
<1>2. CASE ev \in [kind : {"MIDEN_DEPOSIT_DETECTED", "MIDEN_DEPOSIT_CONFIRMED"}, datum : Notes]
  BY <1>2 DEF Deposits
<1>3. CASE ev \in [kind : SettlementKinds, datum : Nat] \cup {QuoteCreated}
  BY <1>3 DEF SettlementKinds, Confirmations, QuoteCreated, Event
<1> QED BY <1>1, <1>2, <1>3 DEF Events

\* The job of an idle task is a job.
LEMMA NoJobTyped == NoJob \in Jobs /\ NoJob.ret \notin NoteLabels
BY ConstantsAssumption, EventsTyped
   DEF NoJob, Jobs, Quotes, Reasons, Statuses, Returns, NoteLabels, None

\* What an event leads to is a status or nothing.
LEMMA TargetTyped ==
    ASSUME NEW kind, NEW from, NEW short
    PROVE  TargetStatus(kind, from, short) \in Statuses \cup {NoTarget}
BY DEF TargetStatus, DeadlineTarget, Statuses, NoTarget

\* No status is mistaken for the answer that there is none.
LEMMA NoTargetIsNoStatus == NoTarget \notin Statuses
BY DEF NoTarget, Statuses

-----------------------------------------------------------------------------
(***************************************************************************)
(* The control flow of a task.                                                *)
(***************************************************************************)

\* What a task's job holds.
LEMMA JobTyped ==
    ASSUME TasksOK, NEW t \in Tasks
    PROVE  /\ job[t] \in Jobs /\ job[t].q \in Quotes /\ job[t].ev \in Events
           /\ job[t].ret \in Returns /\ job[t].id \in Nat
           /\ job[t].from \in Statuses \cup {"NONE"} /\ job[t].to \in Statuses
           /\ job[t].reason \in Reasons /\ job[t].note \in Notes \cup {None}
           /\ pc[t] \in NoteLabels \/ job[t].ret \in NoteLabels => job[t].note \in Notes
BY DEF TasksOK, HoldsNote, Jobs

\* A task that moves to a label with a job has to hold a note where it needs one.
LEMMA MoveTyped ==
    ASSUME TasksOK, NEW t \in Tasks, NEW l \in Labels, NEW j \in Jobs,
           l \in NoteLabels \/ j.ret \in NoteLabels => j.note \in Notes,
           pc' = [pc EXCEPT ![t] = l], job' = [job EXCEPT ![t] = j]
    PROVE  TasksOK'
<1>1. pc' \in [Tasks -> Labels] /\ job' \in [Tasks -> Jobs]
  BY DEF TasksOK
<1>2. ASSUME NEW u \in Tasks PROVE HoldsNote(u)'
  BY DEF TasksOK, HoldsNote
<1> QED BY <1>1, <1>2 DEF TasksOK

\* A jump keeps the job.
LEMMA GotoTyped ==
    ASSUME TasksOK, NEW t \in Tasks, NEW l \in Labels, Goto(t, l),
           l \in NoteLabels => job[t].note \in Notes
    PROVE  TasksOK' /\ todo' = todo
<1>1. job[t] \in Jobs /\ (job[t].ret \in NoteLabels => job[t].note \in Notes)
  BY JobTyped
<1>2. pc' = [pc EXCEPT ![t] = l] /\ job' = [job EXCEPT ![t] = job[t]] /\ todo' = todo
  BY DEF Goto, TasksOK
<1> QED BY <1>1, <1>2, MoveTyped

\* What a task keeps for the next step.
LEMMA FreshTyped ==
    ASSUME TasksOK, NEW t \in Tasks, NEW q \in Quotes
    PROVE  /\ Fresh(t, q) \in Jobs /\ Fresh(t, q).ret \notin NoteLabels
           /\ Fresh(t, q).note = job[t].note
<1>1. job[t].note \in Notes \cup {None}
  BY JobTyped
<1> QED BY <1>1, NoJobTyped DEF Fresh, Jobs

\* Going on with a quote leaves a job with the same note.
LEMMA ContinueTyped ==
    ASSUME TasksOK, NEW t \in Tasks, NEW q \in Quotes, NEW l \in Labels, Continue(t, q, l),
           l \in NoteLabels => job[t].note \in Notes
    PROVE  TasksOK'
<1>1. CASE l = "idle"
  <2>1. l \notin NoteLabels
    BY <1>1 DEF NoteLabels
  <2> QED BY <1>1, <2>1, NoJobTyped, MoveTyped DEF Continue
<1>2. CASE l # "idle"
  <2>1. pc' = [pc EXCEPT ![t] = l] /\ job' = [job EXCEPT ![t] = Fresh(t, q)]
    BY <1>2 DEF Continue
  <2> QED BY <2>1, FreshTyped, MoveTyped
<1> QED BY <1>1, <1>2

\* apply returns to a label of its caller.
LEMMA ReturnTyped ==
    ASSUME TasksOK, NEW t \in Tasks, Return(t)
    PROVE  TasksOK' /\ todo' = todo
<1>1. job[t].q \in Quotes /\ job[t].ret \in Labels
  BY JobTyped DEF Returns, Labels, NoteLabels
<1>2. job[t].ret \in NoteLabels => job[t].note \in Notes
  BY JobTyped
<1> QED BY <1>1, <1>2, ContinueTyped DEF Return

\* An error leaves the task idle, and the process down or as it was.
LEMMA AbortTyped ==
    ASSUME ProcessOK, NEW t \in Tasks, Abort(t), failures' \in 0..MaxFailures
    PROVE  ProcessOK'
<1>1. "idle" \in Labels /\ "idle" \notin NoteLabels
  BY DEF Labels, NoteLabels
<1>2. TasksOK'
  BY <1>1, NoJobTyped, MoveTyped DEF Abort, ProcessOK
<1> QED BY <1>2 DEF ProcessOK, Abort

\* record_idempotency_key adds a key to keys.
LEMMA BurnKeyTyped ==
    ASSUME StoreOK, NEW q \in Quotes, NEW key \in Keys, BurnKey(q, key)
    PROVE  keys' \in [Quotes -> SUBSET Keys]
BY DEF StoreOK, BurnKey

\* A call of apply with an event leaves a task that carries it, or goes on.
LEMMA CallApplyTyped ==
    ASSUME TypeOK, NEW t \in Tasks, NEW q \in Quotes, NEW ev \in Events, NEW ret \in Returns,
           CallApply(t, q, ev, ret), ret \in NoteLabels => job[t].note \in Notes
    PROVE  keys' \in [Quotes -> SUBSET Keys] /\ TasksOK'
<1>0. StoreOK /\ TasksOK /\ keys \in [Quotes -> SUBSET Keys] /\ ret \in Labels
  BY DEF TypeOK, StoreOK, ProcessOK, Returns, Labels, NoteLabels
<1>1. CASE ev \in keys[q]
  <2>1. Continue(t, q, ret) /\ keys' = keys
    BY <1>1 DEF CallApply
  <2> QED BY <1>0, <2>1, ContinueTyped
<1>2. CASE ev \notin keys[q]
  <2> DEFINE j == [Fresh(t, q) EXCEPT !.ev = ev, !.ret = ret]
  <2>1. j \in Jobs /\ j.ret = ret /\ j.note = job[t].note
    <3>1. Fresh(t, q) \in Jobs /\ Fresh(t, q).note = job[t].note
      BY <1>0, FreshTyped
    <3> QED BY <3>1 DEF Jobs
  <2>2. "decide" \in Labels /\ "decide" \notin NoteLabels
    BY DEF Labels, NoteLabels
  <2>3. BurnKey(q, ev) /\ pc' = [pc EXCEPT ![t] = "decide"] /\ job' = [job EXCEPT ![t] = j]
    BY <1>2 DEF CallApply
  <2>4. TasksOK'
    <3> HIDE DEF j
    <3> QED BY <1>0, <2>1, <2>2, <2>3, MoveTyped
  <2>5. ev \in Keys
    BY KeysTyped
  <2> QED BY <1>0, <2>3, <2>4, <2>5, BurnKeyTyped
<1> QED BY <1>1, <1>2

-----------------------------------------------------------------------------
(***************************************************************************)
(* Type correctness, action by action.                                        *)
(***************************************************************************)

\* The empty database and the idle process are well typed.
LEMMA InitTyped == Init => TypeOK
<1> SUFFICES ASSUME Init PROVE TypeOK
  OBVIOUS
<1>1. StoreOK
  BY EmptySeq DEF Init, StoreOK
<1>2. ChainsOK
  BY EmptySeq DEF Init, ChainsOK
<1>3. TasksOK
  BY NoJobTyped DEF Init, TasksOK, HoldsNote, Labels, NoteLabels
<1>4. ProcessOK
  BY <1>3, ConstantsAssumption DEF Init, ProcessOK
<1> QED BY <1>1, <1>2, <1>4 DEF TypeOK

\* A row on a quote's log keeps rows rows, and its status a status.
LEMMA RecordEventTyped ==
    ASSUME StoreOK, NEW q \in Quotes, NEW row \in Entries, RecordEvent(q, row)
    PROVE  status' \in [Quotes -> Statuses \cup {"NONE"}] /\ log' \in [Quotes -> Seq(Entries)]
<1>1. row.to \in Statuses
  BY DEF Entries
<1>2. Append(log[q], row) \in Seq(Entries)
  BY AppendProperties DEF StoreOK
<1> QED BY <1>1, <1>2 DEF StoreOK, RecordEvent

\* The statuses apply may move a task's quote to.
LEMMA TargetOfTaskTyped ==
    ASSUME NEW t, Target(t) # NoTarget
    PROVE  Target(t) \in Statuses
BY TargetTyped DEF Target

\* Every step of apply keeps the types.
LEMMA ApplyTyped ==
    ASSUME TypeOK, Justified, NEW t \in Tasks, Apply(t)
    PROVE  TypeOK'
<1> USE DEF TypeOK
<1>0. /\ TasksOK /\ job[t] \in Jobs /\ job[t].q \in Quotes /\ job[t].ev \in Events
      /\ {"record", "reason", "append", "refundSend", "refundCheck"} \subseteq Labels \ NoteLabels
      /\ job[t].ret \in NoteLabels => job[t].note \in Notes
  BY JobTyped DEF ProcessOK, Labels, NoteLabels
<1>1. CASE ApplyIgnored(t)
  BY <1>0, <1>1, ReturnTyped DEF ApplyIgnored, StoreOK, ChainsOK, ProcessOK, store, rows, chains
<1>2. CASE ApplyRejected(t)
  <2>1. failures' \in 0..MaxFailures
    BY <1>2 DEF ApplyRejected, ProcessOK
  <2> QED BY <1>2, <2>1, AbortTyped DEF ApplyRejected, StoreOK, ChainsOK, store, rows, chains
<1>3. CASE ApplyAccepted(t)
  <2> DEFINE j == [job[t] EXCEPT !.from = status[job[t].q], !.to = Target(t)]
             l == pc'[t]
  <2>1. Target(t) \in Statuses /\ status[job[t].q] \in Statuses \cup {"NONE"}
    BY <1>0, <1>3, TargetOfTaskTyped DEF ApplyAccepted, StoreOK
  <2>2. j \in Jobs /\ j.ret = job[t].ret /\ j.note = job[t].note
    BY <1>0, <2>1 DEF Jobs
  <2>3. l \in {"record", "reason", "append"} /\ pc' = [pc EXCEPT ![t] = l]
    BY <1>3 DEF ApplyAccepted, Decide, ProcessOK, TasksOK
  <2>4. job' = [job EXCEPT ![t] = j]
    BY <1>3 DEF ApplyAccepted, Decide
  <2>5. TasksOK'
    <3> HIDE DEF j, l
    <3> QED BY <1>0, <2>2, <2>3, <2>4, MoveTyped
  <2> QED BY <1>3, <2>5 DEF ApplyAccepted, Decide, StoreOK, ChainsOK, ProcessOK, store, rows, chains
<1>4. CASE ApplyReason(t)
  <2> DEFINE r == job'[t].reason
             j == [job[t] EXCEPT !.reason = r]
  <2>1. r \in Reasons /\ job' = [job EXCEPT ![t] = j]
    BY <1>0, <1>4 DEF ApplyReason, ProcessOK, TasksOK, Jobs, Reasons
  <2>2. j \in Jobs /\ j.ret = job[t].ret /\ j.note = job[t].note
    <3> HIDE DEF r
    <3> QED BY <1>0, <2>1 DEF Jobs
  <2>3. TasksOK'
    <3>1. pc' = [pc EXCEPT ![t] = "record"]
      BY <1>4 DEF ApplyReason
    <3> HIDE DEF j
    <3> QED BY <1>0, <2>1, <2>2, <3>1, MoveTyped
  <2> QED BY <1>4, <2>3 DEF ApplyReason, StoreOK, ChainsOK, ProcessOK, store, rows, chains
<1>5. CASE ApplyAppend(t)
  <2> DEFINE q == job[t].q
             ev == job[t].ev
  <2>1. q \in Quotes /\ ev \in Events
    BY <1>0
  <2>2. TasksOK' /\ todo' = todo
    BY <1>0, <1>5, GotoTyped DEF ApplyAppend
  <2>3. CASE ev.kind = "EVM_DEPOSIT_DETECTED"
    <3>1. ev.datum \in Txs
      BY <2>1, <2>3 DEF Events, SettlementKinds
    <3>2. Append(depositTxs[q], ev.datum) \in Seq(Txs)
      BY <2>1, <3>1, AppendProperties DEF StoreOK
    <3>3. depositTxs' \in [Quotes -> Seq(Txs)]
      BY <1>5, <2>1, <2>3, <3>2 DEF ApplyAppend, StoreOK
    <3> QED BY <1>5, <2>2, <2>3, <3>3 DEF ApplyAppend, StoreOK, ChainsOK, ProcessOK, chains
  <2>4. CASE ev.kind # "EVM_DEPOSIT_DETECTED"
    <3>1. ev.kind = "SETTLEMENT_SUCCEEDED"
      BY <1>5, <2>4 DEF ApplyAppend, Justified
    <3>2. ev.datum \in Nat
      BY <2>1, <3>1 DEF Events, SettlementKinds
    <3>3. Append(payoutIds[q], ev.datum) \in Seq(Nat)
      BY <2>1, <3>2, AppendProperties DEF StoreOK
    <3>4. payoutIds' \in [Quotes -> Seq(Nat)]
      BY <1>5, <2>1, <2>4, <3>3 DEF ApplyAppend, StoreOK
    <3> QED BY <1>5, <2>2, <2>4, <3>4 DEF ApplyAppend, StoreOK, ChainsOK, ProcessOK, chains
  <2> QED BY <2>3, <2>4
<1>6. CASE ApplyRecord(t)
  <2> DEFINE j == job[t]
             row == Entry(j.ev, j.from, j.to, j.reason)
  <2>1. j.q \in Quotes /\ row \in Entries
    BY <1>0, JobTyped DEF Entry, Entries
  <2>2. status' \in [Quotes -> Statuses \cup {"NONE"}] /\ log' \in [Quotes -> Seq(Entries)]
    BY <1>6, <2>1, RecordEventTyped DEF ApplyRecord
  <2>3. TasksOK' /\ todo' = todo
    BY <1>0, <1>6, GotoTyped, ReturnTyped DEF ApplyRecord
  <2> QED BY <1>6, <2>2, <2>3 DEF ApplyRecord, StoreOK, ChainsOK, ProcessOK, chains
<1>7. CASE RefundNotOwed(t)
  BY <1>0, <1>7, ReturnTyped DEF RefundNotOwed, StoreOK, ChainsOK, ProcessOK, store, rows, chains
<1> QED BY <1>1, <1>2, <1>3, <1>4, <1>5, <1>6, <1>7 DEF Apply

\* A refund sends an amount: a confirmed row names a deposit with one.
LEMMA RefundAmountTyped ==
    ASSUME StoreOK, NEW q \in Quotes
    PROVE  RefundAmount(q) \in Nat
<1>1. CASE HasConfirmed(q)
  <2> DEFINE S == ConfirmedEntries(q)
             i == Max(S)
  <2>1. log[q] \in Seq(Entries) /\ Len(log[q]) \in Nat
    BY LenProperties DEF StoreOK
  <2>2. S \in SUBSET (1..Len(log[q])) /\ S # {}
    BY <1>1 DEF ConfirmedEntries, HasConfirmed
  <2>3. i \in S
    <3> HIDE DEF S
    <3> QED BY <2>1, <2>2, MaxOfBounded
  <2>4. log[q][i] \in Entries /\ log[q][i].ev.kind \in Confirmations
    BY <2>1, <2>3, ElementOfSeq DEF ConfirmedEntries
  <2>5. log[q][i].ev.datum \in Deposits
    BY <2>4, ConfirmationsTyped DEF Entries
  <2> QED BY <1>1, <2>5, ConstantsAssumption DEF RefundAmount
<1>2. CASE ~HasConfirmed(q)
  BY <1>2, ConstantsAssumption DEF RefundAmount
<1> QED BY <1>1, <1>2

\* A job that only gets another id keeps its note and its return label.
LEMMA NewIdTyped ==
    ASSUME TasksOK, NEW t \in Tasks, NEW l \in Labels, NEW id \in Nat,
           l \notin NoteLabels,
           pc' = [pc EXCEPT ![t] = l], job' = [job EXCEPT ![t].id = id]
    PROVE  TasksOK'
<1> DEFINE j == [job[t] EXCEPT !.id = id]
<1>1. j \in Jobs /\ j.ret = job[t].ret /\ j.note = job[t].note
  BY JobTyped DEF Jobs
<1>2. job' = [job EXCEPT ![t] = j] /\ (job[t].ret \in NoteLabels => job[t].note \in Notes)
  BY JobTyped
<1> HIDE DEF j
<1> QED BY <1>1, <1>2, MoveTyped

\* A refund that is out adds to the refunds of its quote, and its place is a number.
LEMMA SendRefundTyped ==
    ASSUME ChainsOK, TasksOK, NEW t \in Tasks, NEW amount \in Nat, SendRefund(t, amount)
    PROVE  /\ refunds' \in [Quotes -> Seq([cause : Events, amount : Nat])]
           /\ Len(refunds[job[t].q]) + 1 \in Nat
<1> DEFINE q == job[t].q
           payment == [cause |-> job[t].ev, amount |-> amount]
           Payouts == [cause : Events, amount : Nat]
<1>1. q \in Quotes /\ payment \in Payouts
  BY JobTyped
<1>2. refunds[q] \in Seq(Payouts)
  BY <1>1 DEF ChainsOK
<1>3. Append(refunds[q], payment) \in Seq(Payouts) /\ Len(refunds[q]) \in Nat
  <2> HIDE DEF q, payment, Payouts
  <2> QED BY <1>1, <1>2, AppendProperties, LenProperties
<1>4. refunds' \in [Quotes -> Seq(Payouts)]
  BY <1>1, <1>3 DEF SendRefund, ChainsOK
<1>5. Len(refunds[q]) + 1 \in Nat
  <2> HIDE DEF q
  <2> QED BY <1>3
<1> QED BY <1>4, <1>5

\* A new refund id of a task's quote is one more number.
LEMMA RefundIdTyped ==
    ASSUME StoreOK, TasksOK, NEW t \in Tasks,
           refundIds' = [refundIds EXCEPT ![job[t].q] = Append(@, job[t].id)]
    PROVE  refundIds' \in [Quotes -> Seq(Nat)]
<1>1. job[t].q \in Quotes /\ job[t].id \in Nat
  BY JobTyped
<1>2. Append(refundIds[job[t].q], job[t].id) \in Seq(Nat)
  BY <1>1, AppendProperties DEF StoreOK
<1> QED BY <1>1, <1>2 DEF StoreOK

\* So is a new payout id.
LEMMA PayoutIdTyped ==
    ASSUME StoreOK, TasksOK, NEW t \in Tasks,
           payoutIds' = [payoutIds EXCEPT ![job[t].q] = Append(@, job[t].id)]
    PROVE  payoutIds' \in [Quotes -> Seq(Nat)]
<1>1. job[t].q \in Quotes /\ job[t].id \in Nat
  BY JobTyped
<1>2. Append(payoutIds[job[t].q], job[t].id) \in Seq(Nat)
  BY <1>1, AppendProperties DEF StoreOK
<1> QED BY <1>1, <1>2 DEF StoreOK

\* Every step of refund_record on the EVM chain keeps the types.
LEMMA RefundTyped ==
    ASSUME TypeOK, NEW t \in Tasks, Refund(t)
    PROVE  TypeOK'
<1> USE DEF TypeOK
<1>0. /\ TasksOK /\ job[t].q \in Quotes /\ job[t].id \in Nat
      /\ {"refundAppend", "refundConfirm"} \subseteq Labels \ NoteLabels
  BY JobTyped DEF ProcessOK, Labels, NoteLabels
<1>1. CASE RefundSend(t)
  <2>1. RefundAmount(job[t].q) \in Nat
    BY <1>0, RefundAmountTyped
  <2>2. /\ refunds' \in [Quotes -> Seq([cause : Events, amount : Nat])]
        /\ Len(refunds[job[t].q]) + 1 \in Nat
    BY <1>0, <1>1, <2>1, SendRefundTyped DEF RefundSend
  <2>3. TasksOK'
    BY <1>0, <1>1, <2>2, NewIdTyped DEF RefundSend
  <2> QED BY <1>1, <2>2, <2>3 DEF RefundSend, StoreOK, ChainsOK, ProcessOK, store, rows
<1>2. CASE RefundAppend(t)
  <2>1. keys' \in [Quotes -> SUBSET Keys]
    BY <1>0, <1>2, KeysTyped, BurnKeyTyped DEF RefundAppend
  <2>2. refundIds' \in [Quotes -> Seq(Nat)]
    BY <1>0, <1>2, RefundIdTyped DEF RefundAppend
  <2>3. TasksOK' /\ todo' = todo
    BY <1>0, <1>2, GotoTyped DEF RefundAppend
  <2> QED BY <1>2, <2>1, <2>2, <2>3 DEF RefundAppend, StoreOK, ChainsOK, ProcessOK, chains
<1>3. CASE RefundConfirm(t)
  <2>1. refundIds' \in [Quotes -> Seq(Nat)]
    BY <1>0, <1>3, RefundIdTyped DEF RefundConfirm
  <2>2. TasksOK' /\ todo' = todo
    BY <1>0, <1>3, ReturnTyped DEF RefundConfirm
  <2> QED BY <1>3, <2>1, <2>2 DEF RefundConfirm, StoreOK, ChainsOK, ProcessOK, chains
<1> QED BY <1>1, <1>2, <1>3 DEF Refund

\* Every step of settle keeps the types.
LEMMA SettleTyped ==
    ASSUME TypeOK, NEW t \in Tasks, Settle(t)
    PROVE  TypeOK'
<1> USE DEF TypeOK
<1>0. /\ TasksOK /\ job[t].q \in Quotes
      /\ {"idle", "reload"} \subseteq Returns \ NoteLabels
      /\ {"idle", "payout"} \subseteq Labels \ NoteLabels
  BY JobTyped DEF ProcessOK, Returns, Labels, NoteLabels
<1>1. CASE SettleDone(t)
  <2>1. TasksOK'
    BY <1>0, <1>1, ContinueTyped DEF SettleDone
  <2> QED BY <1>1, <2>1 DEF SettleDone, StoreOK, ChainsOK, ProcessOK, store, rows, chains
<1>2. CASE SettleClaim(t)
  <2>1. keys' \in [Quotes -> SUBSET Keys] /\ TasksOK'
    BY <1>0, <1>2, EventsTyped, CallApplyTyped DEF SettleClaim
  <2> QED BY <1>2, <2>1 DEF SettleClaim, StoreOK, ChainsOK, ProcessOK, rows, chains
<1>3. ASSUME NEW out \in Outputs, SettleRequote(t, out) PROVE TypeOK'
  <2> DEFINE q == job[t].q
             ids == payoutIds[q]
  <2>1. out \in Nat /\ ids \in Seq(Nat) /\ Terms[q].minAmountOut \in Nat
    BY <1>0, ConstantsAssumption DEF StoreOK
  <2>2. ids # <<>> => Last(ids) \in Nat
    <3> HIDE DEF ids
    <3> QED BY <2>1, LastTyped
  <2>3. keys' \in [Quotes -> SUBSET Keys] /\ TasksOK'
    <3>1. CASE out < Terms[q].minAmountOut
      <4>1. CallApply(t, q, Slippage(out), "idle")
        BY <1>3, <2>1, <3>1 DEF SettleRequote
      <4> QED BY <1>0, <2>1, <4>1, EventsTyped, CallApplyTyped
    <3>2. CASE out >= Terms[q].minAmountOut /\ ids # <<>>
      <4>1. CallApply(t, q, Succeeded(Last(ids)), "idle")
        BY <1>3, <2>1, <3>2 DEF SettleRequote
      <4> QED BY <1>0, <2>2, <3>2, <4>1, EventsTyped, CallApplyTyped
    <3>3. CASE out >= Terms[q].minAmountOut /\ ids = <<>>
      <4>1. Continue(t, q, "payout") /\ keys' = keys
        BY <1>3, <2>1, <3>3 DEF SettleRequote
      <4> QED BY <1>0, <4>1, ContinueTyped DEF StoreOK
    <3> QED BY <2>1, <3>1, <3>2, <3>3
  <2> QED BY <1>3, <2>3 DEF SettleRequote, StoreOK, ChainsOK, ProcessOK, rows, chains
<1> QED BY <1>1, <1>2, <1>3 DEF Settle

\* A payout that leaves adds to the payouts of its quote.
LEMMA SendPayoutTyped ==
    ASSUME ChainsOK, TasksOK, NEW t \in Tasks, NEW l \in Labels \ NoteLabels,
           SendPayout(t), pc' = [pc EXCEPT ![t] = l]
    PROVE  payouts' \in [Quotes -> Seq(Fates)] /\ TasksOK'
<1> DEFINE q == job[t].q
<1>1. q \in Quotes /\ payouts[q] \in Seq(Fates) /\ "pending" \in Fates
  BY JobTyped DEF ChainsOK, Fates
<1>2. Append(payouts[q], "pending") \in Seq(Fates) /\ Len(payouts[q]) + 1 \in Nat
  <2> HIDE DEF q
  <2> QED BY <1>1, AppendProperties, LenProperties
<1>3. payouts' \in [Quotes -> Seq(Fates)]
  BY <1>1, <1>2 DEF SendPayout, ChainsOK
<1>4. TasksOK'
  BY <1>2, NewIdTyped DEF SendPayout
<1> QED BY <1>3, <1>4

\* Every step of mint_quote_to_user keeps the types.
LEMMA MintTyped ==
    ASSUME TypeOK, NEW t \in Tasks, Mint(t)
    PROVE  TypeOK'
<1> USE DEF TypeOK
<1> DEFINE q == job[t].q
<1>0. /\ TasksOK /\ q \in Quotes /\ job[t].id \in Nat
      /\ {"mintSubmit", "mintAppend", "mintWait"} \subseteq Labels \ NoteLabels
      /\ "idle" \in Returns \ NoteLabels
  BY JobTyped DEF ProcessOK, Labels, Returns, NoteLabels
<1>1. CASE MintKeyed(t)
  <2>1. keys' \in [Quotes -> SUBSET Keys]
    BY <1>0, <1>1, KeysTyped, BurnKeyTyped DEF MintKeyed
  <2>2. TasksOK' /\ todo' = todo
    BY <1>0, <1>1, GotoTyped DEF MintKeyed
  <2> QED BY <1>1, <2>1, <2>2 DEF MintKeyed, StoreOK, ChainsOK, ProcessOK, rows, chains
<1>2. CASE MintPoll(t)
  <2>1. TasksOK' /\ todo' = todo
    <3>1. CASE payoutIds[q] = <<>>
      BY <1>0, <1>2, <3>1, GotoTyped DEF MintPoll
    <3>2. CASE payoutIds[q] # <<>>
      <4>1. payoutIds[q] \in Seq(Nat)
        BY <1>0 DEF StoreOK
      <4>2. Last(payoutIds[q]) \in Nat
        BY <3>2, <4>1, LastTyped
      <4>3. TasksOK'
        BY <1>0, <1>2, <3>2, <4>2, NewIdTyped DEF MintPoll
      <4> QED BY <1>2, <3>2, <4>3 DEF MintPoll
    <3> QED BY <3>1, <3>2
  <2> QED BY <1>2, <2>1 DEF MintPoll, StoreOK, ChainsOK, ProcessOK, store, rows, chains
<1>3. CASE MintSubmit(t)
  <2>1. payouts' \in [Quotes -> Seq(Fates)] /\ TasksOK'
    BY <1>0, <1>3, SendPayoutTyped DEF MintSubmit
  <2> QED BY <1>3, <2>1 DEF MintSubmit, StoreOK, ChainsOK, ProcessOK, store, rows
<1>4. CASE MintAppend(t)
  <2>1. payoutIds' \in [Quotes -> Seq(Nat)]
    BY <1>0, <1>4, PayoutIdTyped DEF MintAppend
  <2>2. TasksOK' /\ todo' = todo
    BY <1>0, <1>4, GotoTyped DEF MintAppend
  <2> QED BY <1>4, <2>1, <2>2 DEF MintAppend, StoreOK, ChainsOK, ProcessOK, chains
<1>5. CASE MintCommitted(t)
  <2>1. keys' \in [Quotes -> SUBSET Keys] /\ TasksOK'
    BY <1>0, <1>5, EventsTyped, CallApplyTyped DEF MintCommitted
  <2> QED BY <1>5, <2>1 DEF MintCommitted, StoreOK, ChainsOK, ProcessOK, rows, chains
<1>6. CASE MintDiscarded(t)
  <2>1. failures' \in 0..MaxFailures
    BY <1>6 DEF MintDiscarded, ProcessOK
  <2> QED BY <1>6, <2>1, AbortTyped DEF MintDiscarded, StoreOK, ChainsOK, store, rows, chains
<1> QED BY <1>1, <1>2, <1>3, <1>4, <1>5, <1>6 DEF Mint

\* The poller goes on to a look at the faucet or to settlement, and keeps its note.
LEMMA OnwardTyped ==
    ASSUME TasksOK, NEW t \in Tasks, Onward(t), job[t].note \in Notes
    PROVE  TasksOK' /\ todo' = todo
<1>1. job[t].q \in Quotes /\ {"verify", "settle"} \subseteq Labels
  BY JobTyped DEF Labels, NoteLabels
<1> QED BY <1>1, ContinueTyped DEF Onward

\* Every step of the poller with a note keeps the types.
LEMMA TakeNoteTyped ==
    ASSUME TypeOK, NEW t \in Tasks, TakeNote(t)
    PROVE  TypeOK'
<1> USE DEF TypeOK
<1> DEFINE q == job[t].q
           n == job[t].note
<1>0. /\ TasksOK /\ q \in Quotes /\ NoteLabels \subseteq Labels
      /\ {"confirm", "consume"} \subseteq Returns
      /\ "settle" \in Labels \ NoteLabels
  BY JobTyped DEF ProcessOK, Labels, Returns, NoteLabels
<1>a. n \in Notes
  BY <1>0, JobTyped DEF TakeNote, NoteFound, NoteCounted, ConsumeKeyed, ConsumeSubmit,
     ConsumeAppend, ConsumeCommitted, ConsumeDiscarded, NoteVerified, NoteForeign, NoteLabels
<1>b. {"consumeSubmit", "consumeAppend", "consumeWait"} \subseteq Labels
  BY DEF Labels, NoteLabels
<1>1. CASE NoteFound(t)
  <2>1. keys' \in [Quotes -> SUBSET Keys] /\ TasksOK'
    BY <1>0, <1>a, <1>1, EventsTyped, CallApplyTyped DEF NoteFound
  <2> QED BY <1>1, <2>1 DEF NoteFound, StoreOK, ChainsOK, ProcessOK, rows, chains
<1>2. CASE NoteCounted(t)
  <2>1. keys' \in [Quotes -> SUBSET Keys] /\ TasksOK'
    BY <1>0, <1>a, <1>2, EventsTyped, CallApplyTyped DEF NoteCounted
  <2> QED BY <1>2, <2>1 DEF NoteCounted, StoreOK, ChainsOK, ProcessOK, rows, chains
<1>3. CASE ConsumeKeyed(t)
  <2>1. keys' \in [Quotes -> SUBSET Keys] /\ TasksOK' /\ todo' = todo
    <3>1. CASE ConsumeKey(n) \in keys[q]
      BY <1>0, <1>a, <1>3, <3>1, OnwardTyped DEF ConsumeKeyed, StoreOK
    <3>2. CASE ConsumeKey(n) \notin keys[q]
      <4>1. BurnKey(q, ConsumeKey(n)) /\ Goto(t, "consumeSubmit")
        BY <1>3, <3>2 DEF ConsumeKeyed
      <4> QED BY <1>0, <1>a, <1>b, <4>1, KeysTyped, BurnKeyTyped, GotoTyped
    <3> QED BY <3>1, <3>2
  <2> QED BY <1>3, <2>1 DEF ConsumeKeyed, StoreOK, ChainsOK, ProcessOK, rows, chains
<1>4. CASE ConsumeSubmit(t)
  <2>1. TasksOK' /\ todo' = todo
    BY <1>0, <1>a, <1>b, <1>4, GotoTyped DEF ConsumeSubmit
  <2>2. consumes' \in [Notes -> Fates \cup {"none"}]
    BY <1>4 DEF ConsumeSubmit, ChainsOK, Fates
  <2> QED BY <1>4, <2>1, <2>2 DEF ConsumeSubmit, StoreOK, ChainsOK, ProcessOK, store, rows
<1>5. CASE ConsumeAppend(t)
  <2>1. TasksOK' /\ todo' = todo
    BY <1>0, <1>a, <1>b, <1>5, GotoTyped DEF ConsumeAppend
  <2>2. Append(consumeIds[q], n) \in Seq(Notes)
    BY <1>0, <1>a, AppendProperties DEF StoreOK
  <2>3. consumeIds' \in [Quotes -> Seq(Notes)]
    BY <1>0, <1>5, <2>2 DEF ConsumeAppend, StoreOK
  <2> QED BY <1>5, <2>1, <2>3 DEF ConsumeAppend, StoreOK, ChainsOK, ProcessOK, chains
<1>6. CASE ConsumeCommitted(t)
  <2>1. TasksOK' /\ todo' = todo
    BY <1>0, <1>a, <1>6, OnwardTyped DEF ConsumeCommitted
  <2> QED BY <1>6, <2>1 DEF ConsumeCommitted, StoreOK, ChainsOK, ProcessOK, store, rows, chains
<1>7. CASE ConsumeDiscarded(t)
  <2>1. failures' \in 0..MaxFailures
    BY <1>7 DEF ConsumeDiscarded, ProcessOK
  <2> QED BY <1>7, <2>1, AbortTyped DEF ConsumeDiscarded, StoreOK, ChainsOK, store, rows, chains
<1>8. CASE NoteVerified(t)
  <2>1. TasksOK'
    BY <1>0, <1>8, ContinueTyped DEF NoteVerified
  <2> QED BY <1>8, <2>1 DEF NoteVerified, StoreOK, ChainsOK, ProcessOK, store, rows, chains
<1>9. CASE NoteForeign(t)
  <2>1. failures' \in 0..MaxFailures
    BY <1>9 DEF NoteForeign, ProcessOK
  <2> QED BY <1>9, <2>1, AbortTyped DEF NoteForeign, StoreOK, ChainsOK, store, rows, chains
<1> QED BY <1>1, <1>2, <1>3, <1>4, <1>5, <1>6, <1>7, <1>8, <1>9 DEF TakeNote

\* Every step of release keeps the types.
LEMMA ReleaseTyped ==
    ASSUME TypeOK, NEW t \in Tasks, Release(t)
    PROVE  TypeOK'
<1> USE DEF TypeOK
<1> DEFINE q == job[t].q
<1>0. /\ TasksOK /\ q \in Quotes /\ job[t].id \in Nat
      /\ {"releaseAppend", "releaseWait"} \subseteq Labels \ NoteLabels
      /\ "idle" \in Returns \ NoteLabels
  BY JobTyped DEF ProcessOK, Labels, Returns, NoteLabels
<1>1. CASE ReleaseSend(t)
  <2>1. payouts' \in [Quotes -> Seq(Fates)] /\ TasksOK'
    BY <1>0, <1>1, SendPayoutTyped DEF ReleaseSend
  <2> QED BY <1>1, <2>1 DEF ReleaseSend, StoreOK, ChainsOK, ProcessOK, store, rows
<1>2. CASE ReleaseAppend(t)
  <2>1. keys' \in [Quotes -> SUBSET Keys]
    BY <1>0, <1>2, KeysTyped, BurnKeyTyped DEF ReleaseAppend
  <2>2. payoutIds' \in [Quotes -> Seq(Nat)]
    BY <1>0, <1>2, PayoutIdTyped DEF ReleaseAppend
  <2>3. TasksOK' /\ todo' = todo
    BY <1>0, <1>2, GotoTyped DEF ReleaseAppend
  <2> QED BY <1>2, <2>1, <2>2, <2>3 DEF ReleaseAppend, StoreOK, ChainsOK, ProcessOK, chains
<1>3. CASE ReleaseConfirmed(t)
  <2>1. keys' \in [Quotes -> SUBSET Keys] /\ TasksOK'
    BY <1>0, <1>3, EventsTyped, CallApplyTyped DEF ReleaseConfirmed
  <2> QED BY <1>3, <2>1 DEF ReleaseConfirmed, StoreOK, ChainsOK, ProcessOK, rows, chains
<1> QED BY <1>1, <1>2, <1>3 DEF Release

\* Every step of refund_record on Miden keeps the types.
LEMMA NoteRefundTyped ==
    ASSUME TypeOK, NEW t \in Tasks, NoteRefund(t)
    PROVE  TypeOK'
<1> USE DEF TypeOK
<1> DEFINE q == job[t].q
<1>0. /\ TasksOK /\ q \in Quotes /\ job[t].id \in Nat /\ RefundAmount(q) \in Nat
      /\ {"refundSubmit", "refundStore", "refundWait"} \subseteq Labels \ NoteLabels
  BY JobTyped, RefundAmountTyped DEF ProcessOK, Labels, NoteLabels
<1>1. CASE NoteRefundKeyed(t)
  <2>1. keys' \in [Quotes -> SUBSET Keys]
    BY <1>0, <1>1, KeysTyped, BurnKeyTyped DEF NoteRefundKeyed
  <2>2. TasksOK'
    BY <1>0, <1>1, NewIdTyped DEF NoteRefundKeyed
  <2> QED BY <1>1, <2>1, <2>2 DEF NoteRefundKeyed, StoreOK, ChainsOK, ProcessOK, rows, chains
<1>2. CASE NoteRefundPoll(t)
  <2>1. TasksOK'
    <3>1. CASE refundIds[q] = <<>>
      BY <1>0, <1>2, <3>1, NewIdTyped DEF NoteRefundPoll
    <3>2. CASE refundIds[q] # <<>>
      <4>1. refundIds[q] \in Seq(Nat)
        BY <1>0 DEF StoreOK
      <4>2. Last(refundIds[q]) \in Nat
        BY <3>2, <4>1, LastTyped
      <4> QED BY <1>0, <1>2, <3>2, <4>2, NewIdTyped DEF NoteRefundPoll
    <3> QED BY <3>1, <3>2
  <2> QED BY <1>2, <2>1 DEF NoteRefundPoll, StoreOK, ChainsOK, ProcessOK, store, rows, chains
<1>3. CASE NoteRefundSubmit(t)
  <2>1. /\ refunds' \in [Quotes -> Seq([cause : Events, amount : Nat])]
        /\ Len(refunds[q]) + 1 \in Nat
    BY <1>0, <1>3, SendRefundTyped DEF NoteRefundSubmit
  <2>2. TasksOK'
    BY <1>0, <1>3, <2>1, NewIdTyped DEF NoteRefundSubmit
  <2> QED BY <1>3, <2>1, <2>2 DEF NoteRefundSubmit, StoreOK, ChainsOK, ProcessOK, store, rows
<1>4. CASE NoteRefundAppend(t)
  <2>1. refundIds' \in [Quotes -> Seq(Nat)]
    BY <1>0, <1>4, RefundIdTyped DEF NoteRefundAppend
  <2>2. TasksOK' /\ todo' = todo
    BY <1>0, <1>4, GotoTyped DEF NoteRefundAppend
  <2> QED BY <1>4, <2>1, <2>2 DEF NoteRefundAppend, StoreOK, ChainsOK, ProcessOK, chains
<1>5. CASE NoteRefundCommitted(t)
  <2>1. TasksOK' /\ todo' = todo
    BY <1>0, <1>5, ReturnTyped DEF NoteRefundCommitted
  <2> QED BY <1>5, <2>1 DEF NoteRefundCommitted, StoreOK, ChainsOK, ProcessOK, store, rows, chains
<1> QED BY <1>1, <1>2, <1>3, <1>4, <1>5 DEF NoteRefund

\* A payout's fate is one of three.
LEMMA PayoutFateTyped ==
    ASSUME ChainsOK, NEW q \in Quotes, NEW i \in 1..Len(payouts[q]), NEW fate \in Fates
    PROVE  [payouts EXCEPT ![q][i] = fate] \in [Quotes -> Seq(Fates)]
<1>1. payouts[q] \in Seq(Fates)
  BY DEF ChainsOK
<1>2. [payouts[q] EXCEPT ![i] = fate] \in Seq(Fates)
  BY <1>1, ExceptSeq
<1> QED BY <1>2 DEF ChainsOK

\* The quote API and the users keep the types.
LEMMA UsersTyped ==
    ASSUME TypeOK, Users
    PROVE  TypeOK'
<1> USE DEF TypeOK
<1>1. ASSUME NEW q \in Quotes, CreateQuote(q) PROVE TypeOK'
  <2> DEFINE row == Entry(QuoteCreated, "NONE", "PENDING_DEPOSIT", "default")
  <2>1. row \in Entries
    BY DEF Entry, Entries, Statuses, Reasons
  <2>2. status' \in [Quotes -> Statuses \cup {"NONE"}] /\ log' \in [Quotes -> Seq(Entries)]
    BY <1>1, <2>1, RecordEventTyped DEF CreateQuote
  <2> QED BY <1>1, <2>2
          DEF CreateQuote, StoreOK, ChainsOK, ProcessOK, TasksOK, HoldsNote, chains, process
<1>2. ASSUME NEW q \in Quotes, DeadlinePasses(q) PROVE TypeOK'
  BY <1>2 DEF DeadlinePasses, StoreOK, ChainsOK, ProcessOK, TasksOK, HoldsNote, store, rows, process
<1>3. ASSUME NEW h \in Handlers, NEW s \in Submissions, SubmitDeposit(h, s[1], s[2])
      PROVE  TypeOK'
  <2>1. /\ h \in Tasks /\ s[1] \in Quotes /\ s[2] \in Txs
        /\ "idle" \in Returns \ NoteLabels
    BY ConstantsAssumption DEF Tasks, Returns, NoteLabels
  <2>2. keys' \in [Quotes -> SUBSET Keys] /\ TasksOK'
    BY <1>3, <2>1, EventsTyped, CallApplyTyped DEF SubmitDeposit
  <2> QED BY <1>3, <2>2 DEF SubmitDeposit, StoreOK, ChainsOK, ProcessOK, rows, chains
<1>4. ASSUME NEW d \in Deposits, DepositLands(d) PROVE TypeOK'
  BY <1>4 DEF DepositLands, StoreOK, ChainsOK, ProcessOK, TasksOK, HoldsNote, store, rows, process
<1> QED BY <1>1, <1>2, <1>3, <1>4 DEF Users

\* A loop that takes a list of tracked quotes keeps the types.
LEMMA ListTyped ==
    ASSUME TypeOK, NEW t \in Tasks, NEW Q \in SUBSET Tracked, TakeList(t, Q)
    PROVE  TypeOK'
<1>1. [todo EXCEPT ![t] = Snapshot(Q)] \in [Tasks -> SUBSET [q : Quotes, status : TrackedStatuses]]
  BY DEF TypeOK, ProcessOK, Snapshot, Tracked
<1> QED BY <1>1 DEF TakeList, TypeOK, StoreOK, ChainsOK, ProcessOK, TasksOK, HoldsNote,
                    store, rows, chains

\* A listed quote is a quote, and crossing it off leaves a list.
LEMMA CrossedOffTyped ==
    ASSUME ProcessOK, NEW t \in Tasks, NEW r \in todo[t]
    PROVE  /\ r.q \in Quotes
           /\ CrossOff(t, r) => todo' \in [Tasks -> SUBSET [q : Quotes, status : TrackedStatuses]]
BY DEF ProcessOK, CrossOff

\* The first submitted hash is one of the hashes.
LEMMA FirstTxTyped ==
    ASSUME StoreOK, NEW q \in Quotes, HasHash(q)
    PROVE  FirstTx(q) \in Txs
<1>1. depositTxs[q] \in Seq(Txs) /\ depositTxs[q] # <<>>
  BY DEF StoreOK, HasHash
<1>2. 1 \in 1..Len(depositTxs[q])
  BY <1>1, EmptySeq, LenProperties
<1> QED BY <1>1, <1>2, ElementOfSeq DEF FirstTx

\* The deposit watcher keeps the types.
LEMMA WatcherTyped ==
    ASSUME TypeOK, Watcher
    PROVE  TypeOK'
<1> USE DEF TypeOK
<1> DEFINE w == "watcher"
<1>0. /\ w \in Tasks /\ TasksOK
      /\ {"idle", "settle"} \subseteq Returns \ NoteLabels
  BY DEF Tasks, Loops, ProcessOK, Returns, NoteLabels
<1>1. CASE WatcherList
  <2>1. Tracked \cap From("evm") \in SUBSET Tracked
    OBVIOUS
  <2> QED BY <1>0, <1>1, <2>1, ListTyped DEF WatcherList
<1>2. ASSUME NEW r \in todo[w], WatcherSkip(r) PROVE TypeOK'
  BY <1>0, <1>2, CrossedOffTyped
     DEF WatcherSkip, StoreOK, ChainsOK, ProcessOK, TasksOK, HoldsNote, store, rows, chains
<1>3. ASSUME NEW r \in todo[w], WatcherReject(r) PROVE TypeOK'
  <2>1. failures' \in 0..MaxFailures
    BY <1>3 DEF WatcherReject, ProcessOK
  <2> QED BY <1>0, <1>3, <2>1, AbortTyped DEF WatcherReject, StoreOK, ChainsOK, store, rows, chains
<1>4. ASSUME NEW r \in todo[w], WatcherConfirm(r) PROVE TypeOK'
  <2>1. r.q \in Quotes /\ FirstTx(r.q) \in Txs
    BY <1>0, <1>4, CrossedOffTyped, FirstTxTyped DEF WatcherConfirm, Examines, Awaited
  <2>2. keys' \in [Quotes -> SUBSET Keys] /\ TasksOK'
    BY <1>0, <1>4, <2>1, EventsTyped, CallApplyTyped DEF WatcherConfirm, Confirm
  <2> QED BY <1>0, <1>4, <2>2, CrossedOffTyped
          DEF WatcherConfirm, Confirm, StoreOK, ChainsOK, ProcessOK, rows, chains
<1>5. ASSUME NEW r \in todo[w], NEW tx \in Txs, WatcherDetect(r, tx) PROVE TypeOK'
  <2>1. r.q \in Quotes
    BY <1>0, CrossedOffTyped
  <2>2. keys' \in [Quotes -> SUBSET Keys] /\ TasksOK'
    BY <1>0, <1>5, <2>1, EventsTyped, CallApplyTyped DEF WatcherDetect
  <2> QED BY <1>0, <1>5, <2>2, CrossedOffTyped
          DEF WatcherDetect, StoreOK, ChainsOK, ProcessOK, rows, chains
<1> QED BY <1>1, <1>2, <1>3, <1>4, <1>5 DEF Watcher

\* The outbound poller keeps the types.
LEMMA PollerTyped ==
    ASSUME TypeOK, Poller
    PROVE  TypeOK'
<1> USE DEF TypeOK
<1> DEFINE p == "poller"
<1>0. /\ p \in Tasks /\ TasksOK /\ "detect" \in Labels
      /\ "settle" \in Labels \ NoteLabels
  BY DEF Tasks, Loops, ProcessOK, Labels, NoteLabels
<1>1. CASE PollerList
  <2>1. Tracked \cap From("miden") \in SUBSET Tracked
    OBVIOUS
  <2> QED BY <1>0, <1>1, <2>1, ListTyped DEF PollerList
<1>2. ASSUME NEW r \in todo[p], PollerSettle(r) PROVE TypeOK'
  <2>1. TasksOK'
    BY <1>0, <1>2, CrossedOffTyped, ContinueTyped DEF PollerSettle
  <2> QED BY <1>0, <1>2, <2>1, CrossedOffTyped
          DEF PollerSettle, StoreOK, ChainsOK, ProcessOK, store, rows, chains
<1>3. ASSUME NEW r \in todo[p], PollerSkip(r) PROVE TypeOK'
  BY <1>0, <1>3, CrossedOffTyped
     DEF PollerSkip, StoreOK, ChainsOK, ProcessOK, TasksOK, HoldsNote, store, rows, chains
<1>4. ASSUME NEW r \in todo[p], PollerReject(r) PROVE TypeOK'
  <2>1. failures' \in 0..MaxFailures
    BY <1>4 DEF PollerReject, ProcessOK
  <2> QED BY <1>0, <1>4, <2>1, AbortTyped DEF PollerReject, StoreOK, ChainsOK, store, rows, chains
<1>5. ASSUME NEW r \in todo[p], NEW n \in Notes, PollerFind(r, n) PROVE TypeOK'
  <2> DEFINE j == [NoJob EXCEPT !.q = r.q, !.note = n]
  <2>1. r.q \in Quotes
    BY <1>0, CrossedOffTyped
  <2>2. j \in Jobs /\ j.note \in Notes
    <3>1. NoJob \in Jobs
      BY NoJobTyped
    <3> QED BY <2>1, <3>1 DEF Jobs
  <2>3. pc' = [pc EXCEPT ![p] = "detect"] /\ job' = [job EXCEPT ![p] = j]
    BY <1>5 DEF PollerFind
  <2>4. TasksOK'
    <3> HIDE DEF j
    <3> QED BY <1>0, <2>2, <2>3, MoveTyped
  <2> QED BY <1>0, <1>5, <2>4, CrossedOffTyped
          DEF PollerFind, StoreOK, ChainsOK, ProcessOK, store, rows, chains
<1> QED BY <1>1, <1>2, <1>3, <1>4, <1>5 DEF Poller

\* The deadline scanner keeps the types.
LEMMA ScannerTyped ==
    ASSUME TypeOK, Scanner
    PROVE  TypeOK'
<1> USE DEF TypeOK
<1>0. "scanner" \in Tasks /\ TasksOK /\ "idle" \in Returns \ NoteLabels
  BY DEF Tasks, Loops, ProcessOK, Returns, NoteLabels
<1>1. CASE ScannerList
  <2>1. expired \cap Tracked \in SUBSET Tracked
    OBVIOUS
  <2> QED BY <1>0, <1>1, <2>1, ListTyped DEF ScannerList
<1>2. ASSUME NEW r \in todo["scanner"], ScannerExpire(r) PROVE TypeOK'
  <2>1. r.q \in Quotes
    BY <1>0, CrossedOffTyped
  <2>2. keys' \in [Quotes -> SUBSET Keys] /\ TasksOK'
    BY <1>0, <1>2, <2>1, EventsTyped, CallApplyTyped DEF ScannerExpire
  <2> QED BY <1>0, <1>2, <2>2, CrossedOffTyped
          DEF ScannerExpire, StoreOK, ChainsOK, ProcessOK, rows, chains
<1> QED BY <1>1, <1>2 DEF Scanner

\* The restart keeps the types.
LEMMA ResumeTyped ==
    ASSUME TypeOK, Resume
    PROVE  TypeOK'
<1> USE DEF TypeOK
<1>0. "resume" \in Tasks /\ TasksOK /\ "settle" \in Labels \ NoteLabels
  BY DEF Tasks, Loops, ProcessOK, Labels, NoteLabels
<1>1. CASE Boot
  <2>1. Snapshot(Tracked) \subseteq [q : Quotes, status : TrackedStatuses]
    BY DEF Snapshot, Tracked
  <2> QED BY <1>0, <1>1, <2>1
          DEF Boot, StoreOK, ChainsOK, ProcessOK, TasksOK, HoldsNote, store, rows, chains
<1>2. CASE ResumeDone
  BY <1>2 DEF ResumeDone, StoreOK, ChainsOK, ProcessOK, TasksOK, HoldsNote, store, rows, chains,
     process
<1>3. ASSUME NEW r \in todo["resume"], ResumeQuote(r) PROVE TypeOK'
  <2>1. r.q \in Quotes
    BY <1>0, CrossedOffTyped
  <2>2. TasksOK'
    <3>1. CASE r.status = "PROCESSING"
      BY <1>0, <1>3, <2>1, <3>1, ContinueTyped DEF ResumeQuote
    <3>2. CASE r.status # "PROCESSING"
      BY <1>0, <1>3, <3>2 DEF ResumeQuote, TasksOK, HoldsNote
    <3> QED BY <3>1, <3>2
  <2> QED BY <1>0, <1>3, <2>2, CrossedOffTyped
          DEF ResumeQuote, StoreOK, ChainsOK, ProcessOK, store, rows, chains
<1> QED BY <1>1, <1>2, <1>3 DEF Resume

\* What the chains decide keeps the types.
LEMMA FatesTyped ==
    ASSUME TypeOK, PayoutFates \/ NoteFates
    PROVE  TypeOK'
<1> USE DEF TypeOK
<1> USE DEF HoldsNote
<1>0. \A fate \in {"committed", "discarded"} : fate \in Fates
  BY DEF Fates
<1>1. ASSUME NEW q \in Quotes, NEW i \in 1..Len(payouts[q]), PayoutCommits(q, i) PROVE TypeOK'
  BY <1>0, <1>1, PayoutFateTyped
     DEF PayoutCommits, StoreOK, ChainsOK, ProcessOK, TasksOK, store, rows, process
<1>2. ASSUME NEW q \in Quotes, NEW i \in 1..Len(payouts[q]), PayoutDiscarded(q, i) PROVE TypeOK'
  <2>1. failures' \in 0..MaxFailures
    BY <1>2, ConstantsAssumption DEF PayoutDiscarded, ProcessOK
  <2> QED BY <1>0, <1>2, <2>1, PayoutFateTyped
          DEF PayoutDiscarded, StoreOK, ChainsOK, ProcessOK, TasksOK, store, rows, process
<1>3. ASSUME NEW n \in Notes, ConsumeCommits(n) PROVE TypeOK'
  BY <1>0, <1>3 DEF ConsumeCommits, StoreOK, ChainsOK, ProcessOK, TasksOK, store, rows, process
<1>4. ASSUME NEW n \in Notes, ConsumeDiscards(n) PROVE TypeOK'
  <2>1. failures' \in 0..MaxFailures
    BY <1>4, ConstantsAssumption DEF ConsumeDiscards, ProcessOK
  <2> QED BY <1>0, <1>4, <2>1
          DEF ConsumeDiscards, StoreOK, ChainsOK, ProcessOK, TasksOK, store, rows, process
<1> QED BY <1>1, <1>2, <1>3, <1>4 DEF PayoutFates, NoteFates

\* Crashes and failed calls keep the types.
LEMMA FailuresTyped ==
    ASSUME TypeOK, Failures
    PROVE  TypeOK'
<1> USE DEF TypeOK
<1>1. CASE Crash
  <2>1. failures' \in 0..MaxFailures
    BY <1>1, ConstantsAssumption DEF Crash, ProcessOK
  <2>2. TasksOK'
    BY <1>1, NoJobTyped DEF Crash, TasksOK, HoldsNote, Labels, NoteLabels
  <2> QED BY <1>1, <2>1, <2>2 DEF Crash, StoreOK, ChainsOK, ProcessOK, store, rows, chains
<1>2. ASSUME NEW t \in Tasks, Fault(t) PROVE TypeOK'
  <2>1. failures' \in 0..MaxFailures
    BY <1>2, ConstantsAssumption DEF Fault, ProcessOK
  <2> QED BY <1>2, <2>1, AbortTyped DEF Fault, StoreOK, ChainsOK, store, rows, chains
<1> QED BY <1>1, <1>2 DEF Failures

\* Every step keeps the types, as long as tasks append only what they decided to.
LEMMA StepTyped ==
    ASSUME TypeOK, Justified, [Next]_vars
    PROVE  TypeOK'
<1>1. ASSUME NEW t \in Tasks, Step(t) PROVE TypeOK'
  BY <1>1, ApplyTyped, RefundTyped, SettleTyped, MintTyped, TakeNoteTyped, ReleaseTyped,
     NoteRefundTyped DEF Step
<1>2. CASE UNCHANGED vars
  BY <1>2 DEF TypeOK, StoreOK, ChainsOK, ProcessOK, TasksOK, HoldsNote, vars, store, rows, chains,
     process
<1> QED BY <1>1, <1>2, UsersTyped, WatcherTyped, PollerTyped, ScannerTyped, ResumeTyped,
           FatesTyped, FailuresTyped DEF Next
=============================================================================
