---------------------------- MODULE BridgeCalmProofs ----------------------------
(***************************************************************************)
(* Theorems about what Bridge does as long as nothing has failed, for every   *)
(* number of quotes, transactions, notes and handlers: the order of consume   *)
(* and release, and of mint and SUCCESS, that the docs state; and, where      *)
(* nothing ever fails and a quote is paid once, the swap they promise:        *)
(* Bridge implements SwapPromise.                                             *)
(***************************************************************************)
EXTENDS BridgePaymentProofs, BridgeSmooth

-----------------------------------------------------------------------------
(***************************************************************************)
(* What a step without failure has to show.                                   *)
(***************************************************************************)
\* The state a step without failure starts from.
AtPeace == PaymentsGrounded /\ Calm

\* What a step may rely on.
LEMMA PeaceKnown ==
    ASSUME AtPeace
    PROVE  /\ OneOwnerPerEvent /\ WellGrounded /\ OneSettler /\ TypeOK
           /\ \A t \in Tasks : CalmAt(pc[t], job[t]) /\ job[t] \in Jobs /\ job[t].q \in Quotes
           /\ \A q \in Quotes : CalmRows(q) /\ \A key \in keys[q] : CalmKey(q, key)
           /\ CalmChains
BY OwnersKnown DEF AtPeace, PaymentsGrounded, Calm

\* The labels CalmAt speaks of, and the ones a task leaves with something settled.
Telltale == {"settle", "verify", "releaseAppend", "releaseWait", "consumeSubmit"}
Pending  == Consuming \cup {"mintWait"}

\* A task that moves leaves no mint and no note behind unsettled.
MovesCalmly(t) ==
    /\ CalmAt(pc[t], job[t])'
    /\ pc[t] = "mintWait" => Committed(job[t].q)
    /\ t = "poller" /\ pc[t] \in Consuming =>
         \/ pc'[t] \in Consuming /\ job'[t].note = job[t].note
         \/ consumes[job[t].note] = "committed"

\* Every task stays where it is or moves calmly.
TasksCalm == \A t \in Tasks : Still(t) \/ MovesCalmly(t)

\* Keys stay burned, and a new one stands for what it says.
KeysCalm ==
    \A q \in Quotes : /\ keys[q] \subseteq keys'[q]
                      /\ \A key \in keys'[q] : key \in keys[q] \/ CalmKey(q, key)'

\* A row of an EVM-origin quote gets SUCCESS, or the id of a mint, only with the mint.
RowsCalm ==
    \A q \in Quotes : Origin[q] = "evm" =>
        /\ status'[q] = "SUCCESS" => status[q] = "SUCCESS" \/ Committed(q)
        /\ payoutIds'[q] # <<>> => payoutIds[q] # <<>> \/ Committed(q) \/ AwaitsMint(q)'

\* What is committed stays so, nothing is discarded, and no note is consumed without its key.
ChainsCalm ==
    /\ \A q \in Quotes :
         /\ Committed(q) => Committed(q)'
         /\ payouts'[q] # <<>> => payouts[q] # <<>> \/ Initiated \in keys[q]
         /\ \A i \in 1..Len(payouts'[q]) : payouts'[q][i] # "discarded"
    /\ \A n \in Notes :
         /\ consumes[n] = "committed" => consumes'[n] = "committed"
         /\ consumes[n] = "none" /\ Still("poller") => consumes'[n] = "none"
         /\ consumes'[n] # "none" => \/ consumes[n] # "none"
                                     \/ \A q \in Quotes : PaysTo[n] = q => ConsumeKey(n) \in keys[q]
         /\ consumes'[n] # "discarded"

\* The keys of notes name notes.
LEMMA NoteKeyTyped ==
    ASSUME TypeOK, NEW q \in Quotes, NEW key \in keys[q], key.kind = "miden_consume"
    PROVE  key.datum \in Notes
<1>1. key \in Keys
  BY DEF TypeOK, StoreOK
<1>2. key \in [kind : {"miden_consume"}, datum : Notes]
  BY <1>1 DEF Keys, Events, SettlementKinds, PayoutKinds
<1> QED BY <1>2

\* A step that shows all this keeps the invariant.
LEMMA CalmKeeps ==
    ASSUME AtPeace, TasksCalm, KeysCalm, RowsCalm, ChainsCalm
    PROVE  Calm'
<1>0. /\ OneOwnerPerEvent /\ WellGrounded /\ TypeOK /\ "poller" \in Tasks
      /\ \A t \in Tasks : CalmAt(pc[t], job[t]) /\ job[t].q \in Quotes
      /\ \A q \in Quotes : CalmRows(q) /\ \A key \in keys[q] : CalmKey(q, key)
      /\ CalmChains
  BY PeaceKnown DEF Tasks, Loops
<1>1. \A q \in Quotes : (Consumed(q) => Consumed(q)') /\ (Committed(q) => Committed(q)')
  BY DEF ChainsCalm, Consumed
<1>2. ASSUME NEW t \in Tasks PROVE CalmAt(pc[t], job[t])'
  <2>1. CASE Still(t)
    <3>1. pc'[t] = "consumeSubmit" => consumes'[job'[t].note] = "none"
      <4>1. ASSUME pc[t] = "consumeSubmit" PROVE t = "poller" /\ job[t].note \in Notes
        BY <1>0, <4>1, NoteHeld, NoteSteps
      <4> QED BY <1>0, <2>1, <4>1 DEF ChainsCalm, Still, CalmAt
    <3> QED BY <1>0, <1>1, <2>1, <3>1 DEF Still, CalmAt
  <2> QED BY <2>1 DEF TasksCalm, MovesCalmly
<1>3. ASSUME NEW q \in Quotes, NEW key \in keys'[q] PROVE CalmKey(q, key)'
  <2>1. CASE key \in keys[q]
    <3>1. CalmKey(q, key)
      BY <1>0, <2>1
    <3>2. key.kind = "miden_consume" =>
            consumes'[key.datum] = "committed" \/ InHand(key.datum)'
      BY <1>0, <2>1, <3>1, NoteKeyTyped
         DEF CalmKey, InHand, TasksCalm, MovesCalmly, Still, ChainsCalm
    <3> QED BY <1>1, <3>1, <3>2 DEF CalmKey
  <2> QED BY <2>1 DEF KeysCalm
<1>4. ASSUME NEW q \in Quotes PROVE CalmRows(q)'
  <2>1. CalmRows(q)
    BY <1>0
  <2>2. AwaitsMint(q) => AwaitsMint(q)' \/ Committed(q)
    BY DEF AwaitsMint, TasksCalm, MovesCalmly, Still
  <2>3. Initiated \in keys[q] => Initiated \in keys'[q]
    BY DEF KeysCalm
  <2> QED BY <1>1, <2>1, <2>2, <2>3 DEF CalmRows, RowsCalm, ChainsCalm
<1>5. CalmChains'
  BY <1>0 DEF CalmChains, ChainsCalm, KeysCalm
<1> QED BY <1>2, <1>3, <1>4, <1>5 DEF Calm

-----------------------------------------------------------------------------
(***************************************************************************)
(* The parts of a step that change nothing of interest.                       *)
(***************************************************************************)

\* The chains stay as they are.
LEMMA ChainsStay ==
    ASSUME AtPeace, UNCHANGED <<consumes, payouts>>
    PROVE  ChainsCalm
BY PeaceKnown DEF ChainsCalm, CalmChains, Committed

\* So do the rows.
LEMMA RowsStay ==
    ASSUME UNCHANGED <<status, payoutIds>>
    PROVE  RowsCalm
BY DEF RowsCalm

\* No key is burned.
LEMMA KeysStay ==
    ASSUME keys' = keys
    PROVE  KeysCalm
BY DEF KeysCalm

\* The kinds of keys CalmKey speaks of.
ToldKinds == {"SETTLEMENT_INITIATED", "SETTLEMENT_SUCCEEDED", "miden_consume"}

\* A key that is burned has to be calm.
LEMMA KeyBurnsCalmly ==
    ASSUME TypeOK, NEW q \in Quotes, NEW key, BurnKey(q, key), CalmKey(q, key)'
    PROVE  KeysCalm
<1>1. /\ keys'[q] = keys[q] \cup {key}
      /\ \A p \in Quotes \ {q} : keys'[p] = keys[p]
  BY DEF BurnKey, TypeOK, StoreOK
<1> SUFFICES ASSUME NEW p \in Quotes, NEW k \in keys'[p], k \notin keys[p] PROVE CalmKey(p, k)'
  BY <1>1 DEF KeysCalm
<1>2. p = q /\ k = key
  BY <1>1
<1> QED BY <1>2 DEF CalmKey

\* The keys of mints, releases and refunds are.
LEMMA PlainKeyCalm ==
    ASSUME NEW q, NEW n
    PROVE  /\ CalmKey(q, MintKey)' /\ CalmKey(q, NoteRefundKey)'
           /\ CalmKey(q, RefundKey(n))' /\ CalmKey(q, ReleaseKey(n))'
BY DEF CalmKey, MintKey, NoteRefundKey, RefundKey, ReleaseKey, Event

\* What a task holds after a move.
LEMMA JobsMove ==
    ASSUME TypeOK, NEW t \in Tasks
    PROVE  /\ \A q, l : Continue(t, q, l) =>
                /\ job'[t].ret = "idle"
                /\ l # "idle" => job'[t].q = q /\ job'[t].note = job[t].note
           /\ Abort(t) => job'[t].ret = "idle"
           /\ \A id : job' = [job EXCEPT ![t].id = id] =>
                /\ job'[t].q = job[t].q /\ job'[t].ret = job[t].ret
                /\ job'[t].note = job[t].note
<1>1. job \in [Tasks -> Jobs] /\ job[t] \in Jobs
  BY DEF TypeOK, ProcessOK, TasksOK
<1>2. ASSUME NEW q, NEW l, Continue(t, q, l)
      PROVE  /\ job'[t].ret = "idle"
             /\ l # "idle" => job'[t].q = q /\ job'[t].note = job[t].note
  BY <1>1, <1>2 DEF Continue, Fresh, NoJob
<1>3. Abort(t) => job'[t].ret = "idle"
  BY <1>1 DEF Abort, NoJob
<1>4. \A id : job' = [job EXCEPT ![t].id = id] =>
         job'[t].q = job[t].q /\ job'[t].ret = job[t].ret /\ job'[t].note = job[t].note
  BY <1>1 DEF Jobs
<1> QED BY <1>2, <1>3, <1>4

\* One task moves, the rest of the step is calm.
LEMMA OneMovesCalmly ==
    ASSUME AtPeace, NEW t \in Tasks, OnlyMoves(t), MovesCalmly(t), KeysCalm, RowsCalm, ChainsCalm
    PROVE  Calm'
<1>1. TasksCalm
  BY DEF TasksCalm, OnlyMoves, Still
<1> QED BY <1>1, CalmKeeps

\* No task moves.
LEMMA NobodyMoves ==
    ASSUME AtPeace, UNCHANGED <<pc, job>>, KeysCalm, RowsCalm, ChainsCalm
    PROVE  Calm'
<1>1. TasksCalm
  BY DEF TasksCalm, Still
<1> QED BY <1>1, CalmKeeps

\* A move between labels of which nothing is to be told.
LEMMA PlainMove ==
    ASSUME NEW t \in Tasks, pc[t] \notin Pending, pc'[t] \notin Telltale,
           job'[t].ret = "settle" => Origin[job'[t].q] = "evm"
    PROVE  MovesCalmly(t)
BY DEF MovesCalmly, CalmAt, Telltale, Pending

\* A task that returns, fails or jumps to such a label.
LEMMA GoesCalmly ==
    ASSUME AtPeace, NEW t \in Tasks, pc[t] \notin Pending, NEW l, l \notin Telltale,
           \/ Return(t) \/ Abort(t) \/ Goto(t, l) \/ \E q : Continue(t, q, l)
           \/ /\ pc' = [pc EXCEPT ![t] = l]
              /\ \E id : job' = [job EXCEPT ![t].id = id],
           KeysCalm, RowsCalm, ChainsCalm
    PROVE  Calm'
<1>0. /\ TypeOK /\ CalmAt(pc[t], job[t]) /\ job[t].q \in Quotes
      /\ job[t].ret = "settle" => Origin[job[t].q] = "evm"
  BY PeaceKnown DEF CalmAt
<1>1. job[t].ret \in Returns /\ "idle" \notin Telltale
  BY <1>0, JobTyped DEF TypeOK, ProcessOK, Telltale
<1>2. OnlyMoves(t)
  BY <1>0, MovesAlone DEF Return
<1>3. CASE Return(t)
  <2>1. /\ pc'[t] = job[t].ret /\ job'[t].ret = "idle"
        /\ job[t].ret # "idle" => job'[t].q = job[t].q
    BY <1>0, <1>3, MovesAlone, JobsMove DEF Return
  <2>2. CalmAt(pc[t], job[t])'
    BY <1>0, <1>1, <2>1 DEF CalmAt, Returns
  <2>3. MovesCalmly(t)
    BY <2>2 DEF MovesCalmly, Pending
  <2> QED BY <1>2, <2>3, OneMovesCalmly
<1>4. CASE ~Return(t)
  <2>1. pc'[t] \notin Telltale
    BY <1>0, <1>1, <1>4, MovesAlone
  <2>2. job'[t].ret = "settle" => Origin[job'[t].q] = "evm"
    BY <1>0, <1>4, JobsMove, MovesAlone
  <2>3. MovesCalmly(t)
    BY <2>1, <2>2, PlainMove
  <2> QED BY <1>2, <2>3, OneMovesCalmly
<1> QED BY <1>3, <1>4

\* A call of apply: its event needs to be calm, and only the watcher goes on to settle.
LEMMA CallsCalmly ==
    ASSUME AtPeace, NEW t \in Tasks, NEW q \in Quotes, NEW ev \in Events, NEW ret \in Returns,
           CallApply(t, q, ev, ret), UNCHANGED <<rows, chains>>,
           pc[t] \notin Consuming,
           pc[t] = "mintWait" => Committed(job[t].q),
           ret = "settle" => Origin[q] = "evm",
           ev.kind = "SETTLEMENT_INITIATED" /\ Origin[q] = "miden" => Consumed(q),
           ev.kind = "SETTLEMENT_SUCCEEDED" /\ Origin[q] = "evm" => Committed(q)
    PROVE  Calm'
<1>0. TypeOK
  BY PeaceKnown
<1>1. RowsCalm /\ ChainsCalm
  BY RowsStay, ChainsStay DEF rows, chains
<1>2. ev.kind # "miden_consume"
  BY DEF Events, SettlementKinds
<1>3. CalmKey(q, ev)'
  BY <1>2 DEF CalmKey, Consumed, Committed, chains
<1>4. KeysCalm
  BY <1>0, <1>3, KeysStay, KeyBurnsCalmly DEF CallApply
<1>5. OnlyMoves(t) /\ CalmAt(pc[t], job[t])'
  <2>1. CASE ev \in keys[q]
    <3>1. Continue(t, q, ret)
      BY <2>1 DEF CallApply
    <3>2. /\ OnlyMoves(t) /\ pc'[t] = ret /\ job'[t].ret = "idle"
          /\ ret # "idle" => job'[t].q = q
      BY <1>0, <3>1, MovesAlone, JobsMove
    <3> QED BY <3>2 DEF CalmAt, Returns
  <2>2. CASE ev \notin keys[q]
    <3>1. PICK k : k = [Fresh(t, q) EXCEPT !.ev = ev, !.ret = ret]
      OBVIOUS
    <3>2. k.q = q /\ k.ret = ret
      BY <3>1 DEF Fresh, NoJob
    <3>3. pc' = [pc EXCEPT ![t] = "decide"] /\ job' = [job EXCEPT ![t] = k]
      BY <2>2, <3>1 DEF CallApply
    <3>4. OnlyMoves(t) /\ pc'[t] = "decide" /\ job'[t] = k
      BY <1>0, <3>3 DEF OnlyMoves, TypeOK, ProcessOK, TasksOK
    <3> QED BY <3>2, <3>4 DEF CalmAt
  <2> QED BY <2>1, <2>2
<1>6. MovesCalmly(t)
  BY <1>5 DEF MovesCalmly
<1> QED BY <1>1, <1>4, <1>5, <1>6, OneMovesCalmly
-----------------------------------------------------------------------------
(***************************************************************************)
(* Lifecycle::apply and the refunds.                                          *)
(***************************************************************************)

\* A payout id of an EVM-origin quote that apply adds is that of a committed mint.
LEMMA AppendCalm ==
    ASSUME AtPeace, NEW t \in Tasks, ApplyAppend(t)
    PROVE  RowsCalm
<1>0. OneOwnerPerEvent /\ WellGrounded /\ TypeOK /\ pc[t] = "append"
  BY PeaceKnown DEF ApplyAppend
<1>1. PICK q \in Quotes, ev \in Events : q = job[t].q /\ ev = job[t].ev
  BY <1>0, OwnersKnown
<1>2. status' = status
  BY DEF ApplyAppend
<1>3. CASE ev.kind = "EVM_DEPOSIT_DETECTED"
  BY <1>1, <1>2, <1>3, RowsStay DEF ApplyAppend
<1>4. CASE ev.kind # "EVM_DEPOSIT_DETECTED"
  <2>1. ev.kind = "SETTLEMENT_SUCCEEDED"
    BY <1>0, <1>1, <1>4, OwnersKnown DEF Justified
  <2>2. ev \in keys[q]
    BY <1>0, <1>1, CarriedStands DEF Holding, Applying, Decided
  <2>3. Origin[q] = "evm" => Committed(q)
    BY <2>1, <2>2, PeaceKnown DEF CalmKey
  <2>4. \A p \in Quotes \ {q} : payoutIds'[p] = payoutIds[p]
    BY <1>0, <1>1, <1>4 DEF ApplyAppend, TypeOK, StoreOK
  <2> QED BY <1>2, <2>3, <2>4 DEF RowsCalm
<1> QED BY <1>3, <1>4

\* SUCCESS is recorded for such a mint.
LEMMA RecordCalm ==
    ASSUME AtPeace, NEW t \in Tasks, ApplyRecord(t)
    PROVE  RowsCalm
<1>0. OneOwnerPerEvent /\ WellGrounded /\ TypeOK /\ pc[t] = "record"
  BY PeaceKnown DEF ApplyRecord
<1>1. PICK q \in Quotes, row \in Entries :
         q = job[t].q /\ row.to = job[t].to /\ RecordEvent(q, row)
  <2>1. Entry(job[t].ev, job[t].from, job[t].to, job[t].reason).to = job[t].to
    BY DEF Entry
  <2> QED BY <1>0, <2>1, RecordShape
<1>2. payoutIds' = payoutIds /\ \A p \in Quotes \ {q} : status'[p] = status[p]
  BY <1>0, <1>1, RecordGrows DEF ApplyRecord
<1>3. status'[q] = job[t].to
  BY <1>0, <1>1, RecordGrows
<1>4. ASSUME status'[q] = "SUCCESS", Origin[q] = "evm" PROVE Committed(q)
  <2>1. PICK ev : ev = job[t].ev /\ ev.kind = "SETTLEMENT_SUCCEEDED"
    BY <1>0, <1>3, <1>4, RecordedKind
  <2>2. ev \in keys[q]
    BY <1>0, <1>1, <2>1, CarriedStands DEF Holding, Applying, Decided
  <2> QED BY <1>4, <2>1, <2>2, PeaceKnown DEF CalmKey
<1> QED BY <1>2, <1>4 DEF RowsCalm

\* The labels the steps below go to.
LEMMA QuietLabels ==
    /\ (Applying \cup Refunding \cup {"refundCheck"}) \cap (Telltale \cup Pending) = {}
    /\ {"idle", "reload", "confirm", "consume", "payout", "mintSubmit", "mintAppend", "mintWait",
        "consumeAppend", "consumeWait", "detect"} \cap Telltale = {}
    /\ {"settle", "reload", "payout", "mintSubmit", "mintAppend", "releaseAppend",
        "releaseWait", "detect", "confirm", "consume", "verify", "idle"} \cap Pending = {}
BY DEF Applying, Decided, Refunding, Telltale, Pending, Consuming

\* The steps of apply.
LEMMA ApplyCalm ==
    ASSUME AtPeace, NEW t \in Tasks, Apply(t)
    PROVE  Calm'
<1>0. TypeOK /\ job[t] \in Jobs /\ CalmAt(pc[t], job[t])
  BY PeaceKnown
<1>1. KeysCalm /\ ChainsCalm
  BY KeysStay, ChainsStay
     DEF Apply, ApplyIgnored, ApplyRejected, ApplyAccepted, Decide, ApplyReason, ApplyAppend,
         ApplyRecord, RefundNotOwed, store, chains
<1>2. CASE ApplyIgnored(t) \/ RefundNotOwed(t) \/ ApplyRejected(t)
  <2>1. /\ pc[t] \in Applying \cup {"refundCheck"} /\ (Return(t) \/ Abort(t))
        /\ UNCHANGED <<status, payoutIds>>
    BY <1>2 DEF ApplyIgnored, RefundNotOwed, ApplyRejected, Applying, store, rows
  <2>2. pc[t] \notin Pending /\ "idle" \notin Telltale
    BY <2>1, QuietLabels
  <2> QED BY <1>1, <2>1, <2>2, RowsStay, GoesCalmly
<1>3. CASE Decides(t)
  <2>1. /\ pc[t] \notin Pending /\ pc'[t] \notin Telltale
        /\ job'[t].q = job[t].q /\ OnlyMoves(t)
    BY <1>0, <1>3, DecideShape, QuietLabels DEF Applying
  <2>2. job'[t].ret = job[t].ret
    <3>1. CASE ApplyAccepted(t)
      BY <1>0, <3>1 DEF ApplyAccepted, Decide, TypeOK, ProcessOK, TasksOK, Jobs
    <3>2. CASE ApplyReason(t)
      BY <1>0, <3>2 DEF ApplyReason, TypeOK, ProcessOK, TasksOK, Jobs
    <3>3. CASE ApplyAppend(t)
      BY <3>3 DEF ApplyAppend, Goto
    <3> QED BY <1>3, <3>1, <3>2, <3>3 DEF Decides
  <2>3. MovesCalmly(t)
    BY <1>0, <2>1, <2>2, PlainMove DEF CalmAt
  <2>4. RowsCalm
    <3>1. CASE ApplyAccepted(t) \/ ApplyReason(t)
      BY <3>1, RowsStay DEF ApplyAccepted, Decide, ApplyReason, store, rows
    <3> QED BY <1>3, <3>1, AppendCalm DEF Decides
  <2> QED BY <1>1, <2>1, <2>3, <2>4, OneMovesCalmly
<1>4. CASE ApplyRecord(t)
  <2>1. PICK l \in {"refundSend", "refundCheck"} : Goto(t, l) \/ Return(t)
    BY <1>4 DEF ApplyRecord
  <2>2. pc[t] \in Applying /\ l \notin Telltale
    BY <1>4, QuietLabels DEF ApplyRecord, Applying, Decided, Refunding
  <2>3. pc[t] \notin Pending
    BY <2>2, QuietLabels
  <2> QED BY <1>1, <1>4, <2>1, <2>2, <2>3, RecordCalm, GoesCalmly
<1> QED BY <1>2, <1>3, <1>4 DEF Apply, Decides

\* The steps of a refund on either chain.
LEMMA RefundCalm ==
    ASSUME AtPeace, NEW t \in Tasks, Refund(t) \/ NoteRefund(t)
    PROVE  Calm'
<1>0. TypeOK /\ job[t].q \in Quotes
  BY PeaceKnown
<1>1. /\ pc[t] \in Refunding \cup {"refundCheck"}
      /\ UNCHANGED <<status, payoutIds, consumes, payouts>>
  BY DEF Refund, RefundSend, RefundAppend, RefundConfirm, RefundsNow, Refunding, store, rows, chains,
         NoteRefund, NoteRefundKeyed, NoteRefundPoll, NoteRefundSubmit, NoteRefundAppend,
         NoteRefundCommitted
<1>2. KeysCalm
  <2>1. CASE keys' = keys
    BY <2>1, KeysStay
  <2>2. CASE RefundAppend(t)
    BY <1>0, <2>2, PlainKeyCalm, KeyBurnsCalmly DEF RefundAppend
  <2>3. CASE NoteRefundKeyed(t)
    BY <1>0, <2>3, PlainKeyCalm, KeyBurnsCalmly DEF NoteRefundKeyed
  <2> QED BY <2>1, <2>2, <2>3
          DEF Refund, RefundSend, RefundConfirm, NoteRefund, NoteRefundPoll, NoteRefundSubmit,
              NoteRefundAppend, NoteRefundCommitted, store
<1>3. PICK l \in Refunding :
         \/ Return(t) \/ Goto(t, l)
         \/ pc' = [pc EXCEPT ![t] = l] /\ \E id : job' = [job EXCEPT ![t].id = id]
  <2>1. CASE Refund(t)
    BY <2>1 DEF Refund, RefundSend, RefundAppend, RefundConfirm, Refunding
  <2>2. CASE NoteRefundKeyed(t) \/ NoteRefundSubmit(t)
    BY <2>2 DEF NoteRefundKeyed, NoteRefundSubmit, Refunding
  <2>3. CASE NoteRefundPoll(t)
    <3>1. PICK l \in Refunding : pc' = [pc EXCEPT ![t] = l]
      BY <2>3 DEF NoteRefundPoll, Refunding
    <3>2. \E id : job' = [job EXCEPT ![t].id = id]
      BY <2>3 DEF NoteRefundPoll
    <3> QED BY <3>1, <3>2
  <2>4. CASE NoteRefundAppend(t) \/ NoteRefundCommitted(t)
    BY <2>4 DEF NoteRefundAppend, NoteRefundCommitted, Refunding
  <2> QED BY <2>1, <2>2, <2>3, <2>4 DEF NoteRefund
<1>4. pc[t] \notin Pending /\ l \notin Telltale
  BY <1>1, <1>3, QuietLabels
<1> QED BY <1>1, <1>2, <1>3, <1>4, RowsStay, ChainsStay, GoesCalmly

-----------------------------------------------------------------------------
(***************************************************************************)
(* Settlement and the payouts.                                                *)
(***************************************************************************)

\* A task that settles a quote is the only one: nobody waits for a mint of it.
LEMMA RecordedMintCommitted ==
    ASSUME AtPeace, NEW t \in Tasks, Occupied(t), pc[t] # "mintWait",
           Origin[job[t].q] = "evm", payoutIds[job[t].q] # <<>>
    PROVE  Committed(job[t].q)
<1>1. CalmRows(job[t].q) /\ OneSettler
  BY PeaceKnown
<1>2. ~AwaitsMint(job[t].q)
  <2>1. \A u \in Tasks : pc[u] = "mintWait" => Occupied(u)
    BY DEF Occupied, Settling
  <2> QED BY <1>1, <2>1 DEF AwaitsMint, OneSettler
<1> QED BY <1>1, <1>2 DEF CalmRows

\* The steps of settle: the claim of a Miden-origin quote has a consumed note behind it.
LEMMA SettleCalm ==
    ASSUME AtPeace, NEW t \in Tasks, Settle(t)
    PROVE  Calm'
<1>0. /\ OneOwnerPerEvent /\ WellGrounded /\ TypeOK
      /\ CalmAt(pc[t], job[t]) /\ pc[t] \in {"settle", "reload"}
  BY PeaceKnown DEF Settle, SettleDone, SettleClaim, SettleRequote, Claimed
<1>1. PICK q \in Quotes : q = job[t].q
  BY PeaceKnown
<1>2. /\ pc[t] \notin Pending /\ pc[t] \notin Consuming /\ pc[t] # "mintWait" /\ Occupied(t)
      /\ {"idle", "reload"} \subseteq Returns /\ {"idle", "payout"} \cap Telltale = {}
  BY <1>0 DEF Pending, Consuming, Occupied, Settling, Returns, Telltale
<1>3. CASE SettleDone(t)
  <2>1. /\ Continue(t, q, "idle")
        /\ UNCHANGED <<status, payoutIds, keys, consumes, payouts>>
    BY <1>1, <1>3 DEF SettleDone, store, rows, chains
  <2> QED BY <1>2, <2>1, KeysStay, RowsStay, ChainsStay, GoesCalmly
<1>4. CASE SettleClaim(t)
  <2>1. /\ pc[t] = "settle" /\ CallApply(t, q, Initiated, "reload")
        /\ UNCHANGED <<rows, chains>>
    BY <1>1, <1>4 DEF SettleClaim
  <2>2. Origin[q] = "miden" => Consumed(q)
    BY <1>0, <1>1, <2>1 DEF CalmAt
  <2>3. PICK ev \in Events : ev = Initiated /\ ev.kind = "SETTLEMENT_INITIATED"
    BY EventsTyped DEF Initiated, Event
  <2> QED BY <1>2, <2>1, <2>2, <2>3, CallsCalmly
<1>5. ASSUME NEW out \in Outputs, SettleRequote(t, out) PROVE Calm'
  <2>1. UNCHANGED <<rows, chains>> /\ payoutIds[q] \in Seq(Nat)
    BY <1>0, <1>5 DEF SettleRequote, TypeOK, StoreOK
  <2>2. CASE CallApply(t, q, Slippage(out), "idle")
    <3>1. PICK ev \in Events : ev = Slippage(out) /\ ev.kind = "SLIPPAGE_EXCEEDED"
      BY ConstantsAssumption, EventsTyped DEF Slippage, Event
    <3> QED BY <1>2, <2>1, <2>2, <3>1, CallsCalmly
  <2>3. CASE payoutIds[q] # <<>> /\ CallApply(t, q, Succeeded(Last(payoutIds[q])), "idle")
    <3>1. PICK ev \in Events : /\ ev = Succeeded(Last(payoutIds[q]))
                               /\ ev.kind = "SETTLEMENT_SUCCEEDED"
      BY <2>1, <2>3, LastTyped, EventsTyped DEF Succeeded, Event
    <3>2. Origin[q] = "evm" => Committed(q)
      BY <1>1, <1>2, <2>3, RecordedMintCommitted
    <3> QED BY <1>2, <2>1, <2>3, <3>1, <3>2, CallsCalmly
  <2>4. CASE Continue(t, q, "payout") /\ UNCHANGED keys
    <3>1. UNCHANGED <<status, payoutIds, consumes, payouts>>
      BY <2>1 DEF rows, chains
    <3> QED BY <1>2, <2>4, <3>1, KeysStay, RowsStay, ChainsStay, GoesCalmly
  <2>5. \/ CallApply(t, q, Slippage(out), "idle")
        \/ payoutIds[q] # <<>> /\ CallApply(t, q, Succeeded(Last(payoutIds[q])), "idle")
        \/ Continue(t, q, "payout") /\ UNCHANGED keys
    <3>1. Terms[q].minAmountOut \in Nat /\ out \in Nat
      BY ConstantsAssumption
    <3> QED BY <1>1, <1>5, <3>1 DEF SettleRequote
  <2> QED BY <2>2, <2>3, <2>4, <2>5
<1> QED BY <1>3, <1>4, <1>5 DEF Settle
\* A payout leaves the solver for a quote that was claimed.
LEMMA PaysCalmly ==
    ASSUME AtPeace, NEW t \in Tasks, Pays(t)
    PROVE  Calm'
<1>0. /\ OneOwnerPerEvent /\ WellGrounded /\ TypeOK /\ CalmAt(pc[t], job[t])
      /\ pc[t] \in {"payout", "mintSubmit"}
  BY PeaceKnown DEF Pays, MintSubmit, ReleaseSend
<1>1. PICK q \in Quotes : q = job[t].q
  BY PeaceKnown
<1>2. Initiated \in keys[q]
  BY <1>0, <1>1, StandingAt DEF Settling
<1>3. /\ UNCHANGED <<status, payoutIds, keys, consumes>> /\ SendPayout(t)
      /\ \/ pc' = [pc EXCEPT ![t] = "mintAppend"]
         \/ pc' = [pc EXCEPT ![t] = "releaseAppend"] /\ Origin[q] = "miden"
  BY <1>1 DEF Pays, MintSubmit, ReleaseSend, store, rows
<1>4. ChainsCalm
  <2>1. payouts[q] \in Seq(Fates) /\ "pending" \in Fates
    BY <1>0 DEF TypeOK, ChainsOK, Fates
  <2>2. /\ payouts'[q] = Append(payouts[q], "pending")
        /\ \A p \in Quotes \ {q} : payouts'[p] = payouts[p]
    BY <1>0, <1>1, <1>3 DEF SendPayout, TypeOK, ChainsOK
  <2>3. /\ \A i \in 1..Len(payouts[q]) : payouts'[q][i] = payouts[q][i]
        /\ payouts'[q][Len(payouts[q]) + 1] = "pending"
        /\ 1..Len(payouts'[q]) = 1..Len(payouts[q]) \cup {Len(payouts[q]) + 1}
    BY <2>1, <2>2, AppendedRow
  <2>4. CalmChains
    BY PeaceKnown
  <2>5. ASSUME NEW p \in Quotes
        PROVE  /\ Committed(p) => Committed(p)'
               /\ payouts'[p] # <<>> => payouts[p] # <<>> \/ Initiated \in keys[p]
               /\ \A i \in 1..Len(payouts'[p]) : payouts'[p][i] # "discarded"
    <3>1. CASE p = q
      BY <1>2, <2>3, <2>4, <3>1 DEF Committed, CalmChains
    <3>2. CASE p # q
      BY <2>2, <2>4, <3>2 DEF Committed, CalmChains
    <3> QED BY <3>1, <3>2
  <2> QED BY <1>3, <2>4, <2>5 DEF ChainsCalm, CalmChains
<1>5. /\ OnlyMoves(t) /\ job'[t].q = q /\ job'[t].ret = job[t].ret
      /\ pc'[t] = "mintAppend" \/ (pc'[t] = "releaseAppend" /\ Origin[q] = "miden")
  <2>1. PICK id : job' = [job EXCEPT ![t].id = id]
    BY <1>3 DEF SendPayout
  <2> QED BY <1>0, <1>1, <1>3, <2>1, MovesAlone, JobsMove
<1>6. CalmAt(pc[t], job[t])'
  BY <1>0, <1>1, <1>5 DEF CalmAt
<1>7. MovesCalmly(t)
  BY <1>0, <1>6 DEF MovesCalmly, Consuming
<1> QED BY <1>3, <1>4, <1>5, <1>7, KeysStay, RowsStay, OneMovesCalmly

\* The task that stores the id of a mint waits for the mint next.
LEMMA StoresCalmly ==
    ASSUME AtPeace, NEW t \in Tasks, Stores(t)
    PROVE  Calm'
<1>0. /\ OneOwnerPerEvent /\ WellGrounded /\ TypeOK /\ CalmAt(pc[t], job[t])
      /\ pc[t] \in {"mintAppend", "releaseAppend"}
  BY PeaceKnown DEF Stores, MintAppend, ReleaseAppend
<1>1. PICK q \in Quotes : q = job[t].q
  BY PeaceKnown
<1>2. /\ UNCHANGED <<status, consumes, payouts>>
      /\ \A p \in Quotes \ {q} : payoutIds'[p] = payoutIds[p]
  BY <1>0, <1>1 DEF Stores, MintAppend, ReleaseAppend, chains, TypeOK, StoreOK
<1>3. KeysCalm
  <2>1. keys' = keys \/ \E id : BurnKey(q, ReleaseKey(id))
    BY <1>1 DEF Stores, MintAppend, ReleaseAppend
  <2> QED BY <1>0, <2>1, KeysStay, PlainKeyCalm, KeyBurnsCalmly
<1>4. /\ OnlyMoves(t) /\ job'[t] = job[t]
      /\ \/ pc'[t] = "mintWait"
         \/ pc'[t] = "releaseWait" /\ pc[t] = "releaseAppend"
  BY <1>0, MovesAlone DEF Stores, MintAppend, ReleaseAppend
<1>5. pc[t] = "releaseAppend" => Origin[q] = "miden"
  BY <1>0, <1>1 DEF CalmAt
<1>6. RowsCalm
  BY <1>1, <1>2, <1>4, <1>5 DEF RowsCalm, AwaitsMint
<1>7. CalmAt(pc[t], job[t])'
  BY <1>0, <1>1, <1>4, <1>5 DEF CalmAt
<1>8. MovesCalmly(t)
  BY <1>0, <1>7 DEF MovesCalmly, Consuming
<1> QED BY <1>2, <1>3, <1>4, <1>6, <1>8, ChainsStay, OneMovesCalmly

\* The steps of a mint and of a release.
LEMMA PayoutCalm ==
    ASSUME AtPeace, NEW t \in Tasks, Mint(t) \/ Release(t)
    PROVE  Calm'
<1>0. /\ OneOwnerPerEvent /\ WellGrounded /\ TypeOK /\ CalmAt(pc[t], job[t]) /\ CalmChains
      /\ job[t].id \in Nat
  BY PeaceKnown, OwnersKnown
<1>1. PICK q \in Quotes : q = job[t].q
  BY PeaceKnown
<1>2. CASE Pays(t) \/ Stores(t)
  BY <1>2, PaysCalmly, StoresCalmly
<1>3. CASE MintKeyed(t) \/ MintPoll(t)
  <2>1. /\ pc[t] = "payout"
        /\ UNCHANGED <<status, payoutIds, consumes, payouts>>
        /\ keys' = keys \/ BurnKey(q, MintKey)
    BY <1>1, <1>3 DEF MintKeyed, MintPoll, Mints, store, rows, chains
  <2>2. PICK l \in {"mintSubmit", "mintWait"} :
           \/ Goto(t, l)
           \/ pc' = [pc EXCEPT ![t] = l] /\ \E id : job' = [job EXCEPT ![t].id = id]
    BY <1>3 DEF MintKeyed, MintPoll
  <2>3. KeysCalm
    BY <1>0, <2>1, KeysStay, PlainKeyCalm, KeyBurnsCalmly
  <2>4. pc[t] \notin Pending /\ l \notin Telltale
    BY <2>1, QuietLabels
  <2> QED BY <2>1, <2>2, <2>3, <2>4, RowsStay, ChainsStay, GoesCalmly
<1>4. CASE MintCommitted(t) \/ ReleaseConfirmed(t)
  <2>1. /\ pc[t] \in PayoutOut /\ pc[t] \notin Consuming
        /\ CallApply(t, q, Succeeded(job[t].id), "idle") /\ UNCHANGED <<rows, chains>>
    BY <1>1, <1>4 DEF MintCommitted, ReleaseConfirmed, PayoutOut, Consuming
  <2>2. job[t].id \in 1..Len(payouts[q])
    BY <1>0, <1>1, <2>1, StandingAt
  <2>3. MintCommitted(t) => Committed(q)
    BY <1>1, <2>2 DEF MintCommitted, Committed
  <2>4. ReleaseConfirmed(t) => Origin[q] = "miden" /\ pc[t] # "mintWait"
    BY <1>0, <1>1 DEF ReleaseConfirmed, CalmAt
  <2>5. PICK ev \in Events : /\ ev = Succeeded(job[t].id)
                             /\ ev.kind = "SETTLEMENT_SUCCEEDED"
    BY <1>0, EventsTyped DEF Succeeded, Event
  <2> QED BY <1>1, <1>4, <2>1, <2>3, <2>4, <2>5, CallsCalmly DEF Returns
<1>5. CASE MintDiscarded(t)
  <2>1. job[t].id \in 1..Len(payouts[q]) /\ payouts[q][job[t].id] = "discarded"
    BY <1>0, <1>1, <1>5, StandingAt DEF MintDiscarded, PayoutOut
  <2> QED BY <1>0, <2>1 DEF CalmChains
<1> QED BY <1>2, <1>3, <1>4, <1>5 DEF Mint, Release, Pays, Stores

-----------------------------------------------------------------------------
(***************************************************************************)
(* The poller with a note.                                                    *)
(***************************************************************************)

\* Past the note the poller goes on with a quote whose note is consumed.
LEMMA OnwardCalm ==
    ASSUME AtPeace, NEW t \in Tasks, pc[t] \in NoteLabels,
           consumes[job[t].note] = "committed" \/ (pc[t] = "verify" /\ Consumed(job[t].q)),
           Onward(t) \/ Continue(t, job[t].q, "settle"),
           UNCHANGED <<status, payoutIds, keys, consumes, payouts>>
    PROVE  Calm'
<1>0. OneOwnerPerEvent /\ WellGrounded /\ TypeOK
  BY PeaceKnown
<1>1. PICK q \in Quotes : q = job[t].q
  BY PeaceKnown
<1>2. Consumed(q)'
  BY <1>0, <1>1, NoteHeld DEF Consumed
<1>3. PICK l \in {"verify", "settle"} : Continue(t, q, l)
  BY <1>1 DEF Onward
<1>4. OnlyMoves(t) /\ pc'[t] = l /\ job'[t].q = q /\ job'[t].ret = "idle"
  BY <1>0, <1>3, MovesAlone, JobsMove
<1>5. CalmAt(pc[t], job[t])'
  BY <1>2, <1>4 DEF CalmAt
<1>6. MovesCalmly(t)
  BY <1>5 DEF MovesCalmly, NoteLabels, Consuming
<1> QED BY <1>4, <1>6, KeysStay, RowsStay, ChainsStay, OneMovesCalmly

\* A note is consumed by one transaction, and the poller waits for it.
LEMMA TakeNoteCalm ==
    ASSUME AtPeace, NEW t \in Tasks, TakeNote(t)
    PROVE  Calm'
<1>0. /\ OneOwnerPerEvent /\ WellGrounded /\ TypeOK /\ CalmAt(pc[t], job[t]) /\ CalmChains
      /\ pc[t] \in NoteLabels
  BY PeaceKnown
     DEF TakeNote, NoteFound, NoteCounted, ConsumeKeyed, ConsumeSubmit, ConsumeAppend,
         ConsumeCommitted, ConsumeDiscarded, NoteVerified, NoteForeign, NoteLabels
<1>1. PICK q \in Quotes, n \in Notes : q = job[t].q /\ n = job[t].note
  BY <1>0, PeaceKnown, NoteHeld
<1>2. t = "poller" /\ Origin[q] = "miden" /\ PaysTo[n] = q
      /\ \A m \in Notes : ConsumeKey(m).kind = "miden_consume" /\ ConsumeKey(m).datum = m
  BY <1>0, <1>1, NoteHeld DEF ConsumeKey, Event
<1>3. CASE NoteFound(t) \/ NoteCounted(t)
  <2>1. PICK ev \in Events, ret \in {"confirm", "consume"} :
           /\ CallApply(t, q, ev, ret)
           /\ ev.kind \in {"MIDEN_DEPOSIT_DETECTED", "MIDEN_DEPOSIT_CONFIRMED"}
    BY <1>1, <1>3, EventsTyped DEF NoteFound, NoteCounted, NoteDetected, NoteConfirmed, Event
  <2>2. /\ pc[t] \notin Consuming /\ pc[t] # "mintWait" /\ ret \in Returns
        /\ UNCHANGED <<rows, chains>>
    BY <1>3 DEF NoteFound, NoteCounted, Consuming, Returns
  <2> QED BY <2>1, <2>2, CallsCalmly
<1>4. CASE ConsumeKeyed(t) /\ ~OpensNote(t)
  <2>1. /\ Onward(t) /\ pc[t] = "consume" /\ ConsumeKey(n) \in keys[q]
        /\ UNCHANGED <<status, payoutIds, keys, consumes, payouts>>
    BY <1>1, <1>4 DEF ConsumeKeyed, OpensNote, rows, chains
  <2>2. ~InHand(n)
    BY <1>2, <2>1 DEF InHand, Consuming
  <2>3. consumes[n] = "committed"
    BY <1>2, <2>1, <2>2, PeaceKnown DEF CalmKey
  <2> QED BY <1>0, <1>1, <2>1, <2>3, OnwardCalm
<1>5. CASE OpensNote(t)
  <2>1. /\ ConsumeKey(n) \notin keys[q] /\ BurnKey(q, ConsumeKey(n))
        /\ UNCHANGED <<status, payoutIds, consumes, payouts>>
    BY <1>1, <1>5 DEF OpensNote, ConsumeKeyed, rows, chains
  <2>2. pc'[t] = "consumeSubmit" /\ job'[t] = job[t] /\ OnlyMoves(t)
    BY <1>0, <1>5, ArrivalLabels
  <2>3. consumes[n] = "none"
    BY <1>0, <1>2, <2>1 DEF CalmChains
  <2>4. InHand(n)'
    BY <1>1, <1>2, <2>2 DEF InHand, Consuming
  <2>5. KeysCalm
    BY <1>0, <1>2, <2>1, <2>4, KeyBurnsCalmly DEF CalmKey
  <2>6. CalmAt(pc[t], job[t])'
    BY <1>0, <1>1, <2>1, <2>2, <2>3 DEF CalmAt
  <2>7. MovesCalmly(t)
    BY <1>5, <2>6 DEF MovesCalmly, OpensNote, ConsumeKeyed, Consuming
  <2> QED BY <2>1, <2>2, <2>5, <2>7, RowsStay, ChainsStay, OneMovesCalmly
<1>6. CASE ConsumeSubmit(t)
  <2>1. /\ pc[t] = "consumeSubmit" /\ UNCHANGED <<status, payoutIds, keys, payouts>>
        /\ consumes' = [consumes EXCEPT ![n] = "pending"]
    BY <1>1, <1>6 DEF ConsumeSubmit, store, rows
  <2>2. pc'[t] = "consumeAppend" /\ job'[t] = job[t] /\ OnlyMoves(t)
    BY <1>0, <1>6, ArrivalLabels
  <2>3. consumes[n] = "none" /\ ConsumeKey(n) \in keys[q]
    BY <1>0, <1>1, <2>1, StandingAt DEF CalmAt
  <2>4. /\ consumes'[n] = "pending"
        /\ \A m \in Notes \ {n} : consumes'[m] = consumes[m]
    BY <1>0, <2>1 DEF TypeOK, ChainsOK
  <2>5. ~Still("poller")
    BY <1>2, <2>1, <2>2 DEF Still
  <2>6. ChainsCalm
    BY <1>0, <1>2, <2>1, <2>3, <2>4, <2>5 DEF ChainsCalm, CalmChains, Committed
  <2>7. CalmAt(pc[t], job[t])'
    BY <1>0, <2>2 DEF CalmAt
  <2>8. MovesCalmly(t)
    BY <2>1, <2>2, <2>7 DEF MovesCalmly, Consuming
  <2> QED BY <2>1, <2>2, <2>6, <2>8, KeysStay, RowsStay, OneMovesCalmly
<1>7. CASE ConsumeAppend(t)
  <2>1. /\ pc[t] = "consumeAppend" /\ UNCHANGED <<status, payoutIds, keys, consumes, payouts>>
        /\ pc'[t] = "consumeWait" /\ job'[t] = job[t] /\ OnlyMoves(t)
    BY <1>0, <1>7, MovesAlone DEF ConsumeAppend, chains
  <2>2. CalmAt(pc[t], job[t])'
    BY <1>0, <2>1 DEF CalmAt
  <2>3. MovesCalmly(t)
    BY <2>1, <2>2 DEF MovesCalmly, Consuming
  <2> QED BY <2>1, <2>3, KeysStay, RowsStay, ChainsStay, OneMovesCalmly
<1>8. CASE ConsumeCommitted(t)
  BY <1>0, <1>8, OnwardCalm DEF ConsumeCommitted, store, rows, chains
<1>9. CASE ConsumeDiscarded(t)
  BY <1>0, <1>1, <1>9 DEF ConsumeDiscarded, CalmChains
<1>10. CASE NoteVerified(t)
  <2>1. Consumed(q)
    BY <1>0, <1>1, <1>2, <1>10 DEF NoteVerified, CalmAt
  <2> QED BY <1>0, <1>1, <1>10, <2>1, OnwardCalm DEF NoteVerified, store, rows, chains
<1>11. CASE NoteForeign(t)
  <2>1. /\ pc[t] \notin Pending /\ Abort(t) /\ "idle" \notin Telltale
        /\ UNCHANGED <<status, payoutIds, keys, consumes, payouts>>
    BY <1>11, QuietLabels DEF NoteForeign, store, rows, chains
  <2> QED BY <2>1, KeysStay, RowsStay, ChainsStay, GoesCalmly
<1> QED BY <1>3, <1>4, <1>5, <1>6, <1>7, <1>8, <1>9, <1>10, <1>11 DEF TakeNote, OpensNote
-----------------------------------------------------------------------------
(***************************************************************************)
(* The loops, the users and the chains.                                       *)
(***************************************************************************)

\* A quote listed as PROCESSING was claimed.
LEMMA ListedCalm ==
    ASSUME AtPeace, NEW t \in Tasks, NEW r \in todo[t], r.status = "PROCESSING",
           pc[t] = "idle", Continue(t, r.q, "settle"),
           UNCHANGED <<status, payoutIds, keys, consumes, payouts>>
    PROVE  Calm'
<1>0. OneOwnerPerEvent /\ WellGrounded /\ TypeOK
  BY PeaceKnown
<1>1. PICK q \in Quotes : q = r.q
  BY <1>0, ListedTyped
<1>2. Initiated \in keys[q]
  BY <1>0, <1>1 DEF WellGrounded, Listed
<1>3. Initiated.kind = "SETTLEMENT_INITIATED"
  BY DEF Initiated, Event
<1>4. Origin[q] = "miden" => Consumed(q)'
  BY <1>2, <1>3, PeaceKnown DEF CalmKey, Consumed
<1>5. OnlyMoves(t) /\ pc'[t] = "settle" /\ job'[t].q = q /\ job'[t].ret = "idle"
  BY <1>0, <1>1, MovesAlone, JobsMove
<1>6. CalmAt(pc[t], job[t])'
  BY <1>4, <1>5 DEF CalmAt
<1>7. MovesCalmly(t)
  BY <1>6 DEF MovesCalmly, Consuming
<1> QED BY <1>5, <1>7, KeysStay, RowsStay, ChainsStay, OneMovesCalmly

\* An idle loop that stops on an error, or passes over an entry.
LEMMA IdleCalm ==
    ASSUME AtPeace, NEW t \in Tasks, pc[t] = "idle", Abort(t) \/ UNCHANGED <<pc, job>>,
           UNCHANGED <<status, payoutIds, keys, consumes, payouts>>
    PROVE  Calm'
<1>1. pc[t] \notin Pending /\ "idle" \notin Telltale
  BY QuietLabels
<1> QED BY <1>1, KeysStay, RowsStay, ChainsStay, GoesCalmly, NobodyMoves

\* A call of apply with an event of a deposit or a deadline, and settle after it only for
\* an EVM-origin quote.
LEMMA FreeCallCalm ==
    ASSUME AtPeace, NEW t \in Tasks, pc[t] = "idle", NEW q \in Quotes, NEW ev \in Events,
           ev.kind \in Detections \cup Confirmations \cup {"DEADLINE_EXPIRED"},
           NEW ret \in {"idle", "settle"}, ret = "settle" => Origin[q] = "evm",
           CallApply(t, q, ev, ret), UNCHANGED <<rows, chains>>
    PROVE  Calm'
<1>1. /\ ev.kind # "SETTLEMENT_INITIATED" /\ ev.kind # "SETTLEMENT_SUCCEEDED"
      /\ pc[t] \notin Consuming /\ ret \in Returns
  BY DEF Detections, Confirmations, Consuming, Returns
<1> QED BY <1>1, CallsCalmly

\* The watcher settles EVM-origin quotes only.
LEMMA WatcherCalm ==
    ASSUME AtPeace, Watcher
    PROVE  Calm'
<1>0. /\ WellGrounded /\ TypeOK /\ "watcher" \in Tasks
      /\ \A r \in todo["watcher"] : r.q \in Quotes
  BY PeaceKnown, ListedTyped DEF Loops
<1>1. CASE WatcherList \/ \E r \in todo["watcher"] : WatcherSkip(r) \/ WatcherReject(r)
  <2>1. /\ pc["watcher"] = "idle" /\ (Abort("watcher") \/ UNCHANGED <<pc, job>>)
        /\ UNCHANGED <<status, payoutIds, keys, consumes, payouts>>
    BY <1>1 DEF WatcherList, TakeList, WatcherSkip, WatcherReject, Examines, AtEntry,
                store, rows, chains
  <2> QED BY <1>0, <2>1, IdleCalm
<1>2. ASSUME NEW r \in todo["watcher"], NEW tx \in Txs, WatcherDetect(r, tx) PROVE Calm'
  <2>1. PICK ev \in Events : ev = Detected(tx) /\ ev.kind \in Detections
    BY EventsTyped DEF Detected, Event, Detections
  <2>2. /\ pc["watcher"] = "idle" /\ CallApply("watcher", r.q, ev, "idle")
        /\ UNCHANGED <<rows, chains>>
    BY <1>2, <2>1 DEF WatcherDetect, AtEntry
  <2> QED BY <1>0, <2>1, <2>2, FreeCallCalm
<1>3. ASSUME NEW r \in todo["watcher"], WatcherConfirm(r) PROVE Calm'
  <2>1. /\ pc["watcher"] = "idle" /\ HasHash(r.q)
        /\ CallApply("watcher", r.q, Confirmed(FirstTx(r.q)), "settle")
        /\ UNCHANGED <<rows, chains>>
    BY <1>3 DEF WatcherConfirm, Confirm, Examines, AtEntry, Awaited
  <2>2. FirstTx(r.q) \in Txs
    BY <1>0, <2>1, FirstTxTyped DEF TypeOK
  <2>3. PICK ev \in Events : ev = Confirmed(FirstTx(r.q)) /\ ev.kind \in Confirmations
    BY <2>2, EventsTyped DEF Confirmed, Event, Confirmations
  <2>4. Origin[r.q] = "evm"
    BY <1>0 DEF WellGrounded, Listed, Serves
  <2> QED BY <1>0, <2>1, <2>3, <2>4, FreeCallCalm
<1> QED BY <1>1, <1>2, <1>3 DEF Watcher

\* The poller takes up a note, or a quote that was claimed.
LEMMA PollerCalm ==
    ASSUME AtPeace, Poller
    PROVE  Calm'
<1>0. TypeOK /\ "poller" \in Tasks
  BY PeaceKnown DEF Tasks, Loops
<1>1. CASE PollerList \/ \E r \in todo["poller"] : PollerSkip(r) \/ PollerReject(r)
  <2>1. /\ pc["poller"] = "idle" /\ (Abort("poller") \/ UNCHANGED <<pc, job>>)
        /\ UNCHANGED <<status, payoutIds, keys, consumes, payouts>>
    BY <1>1 DEF PollerList, TakeList, PollerSkip, PollerReject, Searches, AtEntry,
                store, rows, chains
  <2> QED BY <1>0, <2>1, IdleCalm
<1>2. ASSUME NEW r \in todo["poller"], PollerSettle(r) PROVE Calm'
  <2>1. /\ pc["poller"] = "idle" /\ r.status = "PROCESSING" /\ Continue("poller", r.q, "settle")
        /\ UNCHANGED <<status, payoutIds, keys, consumes, payouts>>
    BY <1>2 DEF PollerSettle, AtEntry, store, rows, chains
  <2> QED BY <1>0, <2>1, ListedCalm
<1>3. ASSUME NEW r \in todo["poller"], NEW n \in Notes, PollerFind(r, n) PROVE Calm'
  <2>1. PICK j : j = [NoJob EXCEPT !.q = r.q, !.note = n]
    OBVIOUS
  <2>2. /\ pc["poller"] = "idle" /\ pc' = [pc EXCEPT !["poller"] = "detect"]
        /\ job' = [job EXCEPT !["poller"] = j]
        /\ UNCHANGED <<status, payoutIds, keys, consumes, payouts>>
    BY <1>3, <2>1 DEF PollerFind, Searches, AtEntry, store, rows, chains
  <2>3. OnlyMoves("poller") /\ pc'["poller"] = "detect" /\ job'["poller"] = j
    BY <1>0, <2>2 DEF OnlyMoves, TypeOK, ProcessOK, TasksOK
  <2>4. j.ret = "idle"
    BY <2>1 DEF NoJob
  <2>5. MovesCalmly("poller")
    BY <1>0, <2>2, <2>3, <2>4, QuietLabels, PlainMove
  <2> QED BY <1>0, <2>2, <2>3, <2>5, KeysStay, RowsStay, ChainsStay, OneMovesCalmly
<1> QED BY <1>1, <1>2, <1>3 DEF Poller

\* The deadline scanner and the resume pass.
LEMMA LoopsCalm ==
    ASSUME AtPeace, Scanner \/ Resume
    PROVE  Calm'
<1>0. /\ TypeOK /\ "scanner" \in Tasks /\ "resume" \in Tasks
      /\ \A r \in todo["scanner"] : r.q \in Quotes
  BY PeaceKnown, ListedTyped DEF Loops
<1>1. CASE ScannerList \/ Boot \/ ResumeDone
  <2>1. UNCHANGED <<status, payoutIds, keys, consumes, payouts, pc, job>>
    BY <1>1 DEF ScannerList, TakeList, Boot, ResumeDone, store, rows, chains, process
  <2> QED BY <2>1, KeysStay, RowsStay, ChainsStay, NobodyMoves
<1>2. ASSUME NEW r \in todo["scanner"], ScannerExpire(r) PROVE Calm'
  <2>1. PICK ev \in Events : ev = Expired /\ ev.kind = "DEADLINE_EXPIRED"
    BY EventsTyped DEF Expired, Event
  <2>2. /\ pc["scanner"] = "idle" /\ CallApply("scanner", r.q, ev, "idle")
        /\ UNCHANGED <<rows, chains>>
    BY <1>2, <2>1 DEF ScannerExpire
  <2> QED BY <1>0, <2>1, <2>2, FreeCallCalm
<1>3. ASSUME NEW r \in todo["resume"], ResumeQuote(r) PROVE Calm'
  <2>1. /\ pc["resume"] = "idle" /\ UNCHANGED <<status, payoutIds, keys, consumes, payouts>>
        /\ \/ r.status = "PROCESSING" /\ Continue("resume", r.q, "settle")
           \/ UNCHANGED <<pc, job>>
    BY <1>3 DEF ResumeQuote, AtEntry, store, rows, chains
  <2> QED BY <1>0, <2>1, ListedCalm, IdleCalm
<1> QED BY <1>1, <1>2, <1>3 DEF Scanner, Resume

\* What users do.
LEMMA UsersCalm ==
    ASSUME AtPeace, Users
    PROVE  Calm'
<1>0. TypeOK
  BY PeaceKnown
<1>1. ASSUME NEW q \in Quotes, CreateQuote(q) PROVE Calm'
  <2>1. UNCHANGED <<payoutIds, keys, consumes, payouts, pc, job>>
    BY <1>1 DEF CreateQuote, chains, process
  <2>2. PICK row : row.to = "PENDING_DEPOSIT" /\ RecordEvent(q, row)
    <3>1. Entry(QuoteCreated, "NONE", "PENDING_DEPOSIT", "default").to = "PENDING_DEPOSIT"
      BY DEF Entry
    <3> QED BY <1>1, <3>1 DEF CreateQuote
  <2>3. \A p \in Quotes : status'[p] = status[p] \/ status'[p] = "PENDING_DEPOSIT"
    BY <1>0, <2>2 DEF RecordEvent, TypeOK, StoreOK
  <2>4. RowsCalm
    BY <2>1, <2>3 DEF RowsCalm
  <2> QED BY <2>1, <2>4, KeysStay, ChainsStay, NobodyMoves
<1>2. ASSUME NEW x, DeadlinePasses(x) \/ DepositLands(x) PROVE Calm'
  <2>1. UNCHANGED <<status, payoutIds, keys, consumes, payouts, pc, job>>
    BY <1>2 DEF DeadlinePasses, DepositLands, store, rows, process
  <2> QED BY <2>1, KeysStay, RowsStay, ChainsStay, NobodyMoves
<1>3. ASSUME NEW h \in Handlers, NEW s \in Submissions, SubmitDeposit(h, s[1], s[2])
      PROVE  Calm'
  <2>1. h \in Tasks /\ s[1] \in Quotes /\ s[2] \in Txs
    BY ConstantsAssumption DEF Tasks
  <2>2. PICK ev \in Events : ev = Detected(s[2]) /\ ev.kind \in Detections
    BY <2>1, EventsTyped DEF Detected, Event, Detections
  <2>3. /\ pc[h] = "idle" /\ CallApply(h, s[1], ev, "idle") /\ UNCHANGED <<rows, chains>>
    BY <1>3, <2>2 DEF SubmitDeposit
  <2> QED BY <2>1, <2>2, <2>3, FreeCallCalm
<1> QED BY <1>1, <1>2, <1>3 DEF Users

\* What the chains commit stays committed.
LEMMA FatesCalm ==
    ASSUME AtPeace, PayoutFates \/ NoteFates, failures' = failures
    PROVE  Calm'
<1>0. TypeOK /\ CalmChains /\ failures \in Nat
  BY PeaceKnown, ConstantsAssumption DEF TypeOK, ProcessOK
<1>1. ASSUME NEW q \in Quotes, NEW i \in 1..Len(payouts[q]), PayoutCommits(q, i) PROVE Calm'
  <2>1. /\ UNCHANGED <<status, payoutIds, keys, consumes, pc, job>>
        /\ payouts' = [payouts EXCEPT ![q][i] = "committed"]
    BY <1>1 DEF PayoutCommits, store, rows, process
  <2>2. \A p \in Quotes : Len(payouts'[p]) = Len(payouts[p])
    BY <1>0, <2>1, FatesKeepPlaces
  <2>3. \A p \in Quotes : \A k \in 1..Len(payouts[p]) :
           payouts'[p][k] = payouts[p][k] \/ payouts'[p][k] = "committed"
    BY <1>0, <2>1 DEF TypeOK, ChainsOK
  <2>4. \A p \in Quotes : payouts'[p] # <<>> => payouts[p] # <<>>
    <3>1. \A p \in Quotes : payouts[p] = <<>> => payouts'[p] = <<>>
      <4>1. ASSUME NEW p \in Quotes, payouts[p] = <<>> PROVE p # q
        BY <1>1, <4>1
      <4> QED BY <1>0, <2>1, <4>1 DEF TypeOK, ChainsOK
    <3> QED BY <3>1
  <2>5. ChainsCalm
    BY <1>0, <2>1, <2>2, <2>3, <2>4 DEF ChainsCalm, CalmChains, Committed
  <2> QED BY <2>1, <2>5, KeysStay, RowsStay, NobodyMoves
<1>2. ASSUME NEW n \in Notes, ConsumeCommits(n) PROVE Calm'
  <2>1. /\ UNCHANGED <<status, payoutIds, keys, payouts, pc, job>>
        /\ consumes[n] = "pending" /\ consumes' = [consumes EXCEPT ![n] = "committed"]
    BY <1>2 DEF ConsumeCommits, store, rows, process
  <2>2. /\ consumes'[n] = "committed"
        /\ \A m \in Notes \ {n} : consumes'[m] = consumes[m]
    BY <1>0, <2>1 DEF TypeOK, ChainsOK
  <2>3. ChainsCalm
    BY <1>0, <2>1, <2>2 DEF ChainsCalm, CalmChains, Committed
  <2> QED BY <2>1, <2>3, KeysStay, RowsStay, NobodyMoves
<1>3. ~ \E q \in Quotes : \E i \in 1..Len(payouts[q]) : PayoutDiscarded(q, i)
  BY <1>0 DEF PayoutDiscarded
<1>4. ~ \E n \in Notes : ConsumeDiscards(n)
  BY <1>0 DEF ConsumeDiscards
<1> QED BY <1>1, <1>2, <1>3, <1>4 DEF PayoutFates, NoteFates

-----------------------------------------------------------------------------
(***************************************************************************)
(* The invariant, and what follows from it.                                   *)
(***************************************************************************)

\* Every step but a failure keeps it.
LEMMA CalmStep ==
    ASSUME AtPeace, [Next]_vars, failures' = failures
    PROVE  Calm'
<1>0. failures \in Nat
  BY PeaceKnown, ConstantsAssumption DEF TypeOK, ProcessOK
<1>1. ASSUME NEW t \in Tasks, Step(t) PROVE Calm'
  BY <1>1, ApplyCalm, RefundCalm, SettleCalm, PayoutCalm, TakeNoteCalm DEF Step
<1>2. CASE UNCHANGED vars
  <2>1. UNCHANGED <<status, payoutIds, keys, consumes, payouts, pc, job>>
    BY <1>2 DEF vars, store, rows, chains, process
  <2> QED BY <2>1, KeysStay, RowsStay, ChainsStay, NobodyMoves
<1>3. ~Failures
  BY <1>0 DEF Failures, Crash, Fault
<1> QED BY <1>1, <1>2, <1>3, UsersCalm, WatcherCalm, PollerCalm, LoopsCalm, FatesCalm DEF Next

\* At the start it holds.
LEMMA InitCalm == Init => Calm
<1> SUFFICES ASSUME Init PROVE Calm
  OBVIOUS
<1>1. /\ \A q \in Quotes : payouts[q] = <<>> /\ payoutIds[q] = <<>> /\ keys[q] = {}
                           /\ status[q] = "NONE"
      /\ \A t \in Tasks : pc[t] = "idle" /\ job[t] = NoJob
      /\ \A n \in Notes : consumes[n] = "none"
  BY DEF Init
<1>2. NoJob.ret = "idle"
  BY DEF NoJob
<1>3. \A t \in Tasks : CalmAt(pc[t], job[t])
  BY <1>1, <1>2 DEF CalmAt
<1>4. \A q \in Quotes : CalmRows(q)
  BY <1>1 DEF CalmRows
<1>5. CalmChains
  BY <1>1 DEF CalmChains
<1> QED BY <1>1, <1>3, <1>4, <1>5 DEF Calm

\* Until the first failure, claims stand for consumed notes and recorded payouts of
\* EVM-origin quotes for mints that are committed or waited for.
THEOREM CalmKept == Spec => []CalmUntilFailure
<1>1. Init => CalmUntilFailure
  BY InitCalm DEF CalmUntilFailure
<1>2. PaymentsGrounded /\ CalmUntilFailure /\ [Next]_vars => CalmUntilFailure'
  <2> SUFFICES ASSUME PaymentsGrounded, CalmUntilFailure, [Next]_vars, failures' = 0
               PROVE  Calm'
    BY DEF CalmUntilFailure
  <2>1. TypeOK
    BY OwnersKnown DEF PaymentsGrounded
  <2>2. failures \in Nat /\ failures <= failures'
    BY <2>1, StepSorts, Writers, ConstantsAssumption DEF TypeOK, ProcessOK
  <2>3. failures = 0 /\ failures' = failures
    BY <2>2
  <2> QED BY <2>3, CalmStep DEF AtPeace, CalmUntilFailure
<1> QED BY <1>1, <1>2, PaymentsKept, PTL DEF Spec

\* As long as no call fails, no chain discards a transaction and no crash comes between, a
\* release leaves the solver's wallet only after a note of its quote is consumed, whatever
\* else the loops and handlers do in between.
THEOREM ReleasesFollowConsumes == Spec => [](failures = 0 => ReleaseAfterConsume)
<1>1. CalmUntilFailure => (failures = 0 => ReleaseAfterConsume)
  <2> SUFFICES ASSUME Calm, NEW q \in From("miden"), payouts[q] # <<>>
               PROVE  \E n \in Notes : PaysTo[n] = q /\ consumes[n] = "committed"
    BY DEF CalmUntilFailure, ReleaseAfterConsume
  <2>1. q \in Quotes /\ Origin[q] = "miden"
    BY DEF From
  <2>2. Initiated \in keys[q] /\ Initiated.kind = "SETTLEMENT_INITIATED"
    BY <2>1 DEF Calm, CalmRows, Initiated, Event
  <2> QED BY <2>1, <2>2 DEF Calm, CalmKey, Consumed
<1> QED BY <1>1, CalmKept, PTL

\* As long as nothing fails, an EVM-origin quote is SUCCESS only after a mint for it is
\* committed on Miden: the retries that take a recorded id for a payout never meet one that
\* is still pending.
THEOREM SuccessFollowsCommit == Spec => [](failures = 0 => SuccessMeansCommitted)
<1>1. CalmUntilFailure => (failures = 0 => SuccessMeansCommitted)
  BY DEF CalmUntilFailure, Calm, CalmRows, SuccessMeansCommitted, Committed, From
<1> QED BY <1>1, CalmKept, PTL
-----------------------------------------------------------------------------
(***************************************************************************)
(* The promise of SwapPromise, under Undisturbed: what a deposit is worth.    *)
(***************************************************************************)

\* No deposits are worth nothing.
LEMMA TotalOfNone == Total({}) = 0
<1> DEFINE F(sum) == [D \in SUBSET {} |-> IF D = {} THEN 0 ELSE
               Amount[CHOOSE d \in D : TRUE] + sum[D \ {CHOOSE d \in D : TRUE}]]
<1>1. Total({}) = (CHOOSE sum : sum = F(sum))[{}]
  BY DEF Total, MapThenSumSet, MapThenFoldSet
<1>2. \E sum : sum = F(sum)
  <2>1. [D \in SUBSET {} |-> 0] = F([D \in SUBSET {} |-> 0])
    OBVIOUS
  <2> QED BY <2>1
<1> QED BY <1>1, <1>2

\* One deposit is worth its amount.
LEMMA TotalOfOne ==
    ASSUME NEW d \in Deposits
    PROVE  Total({d}) = Amount[d]
<1> DEFINE F(sum) == [D \in SUBSET {d} |-> IF D = {} THEN 0 ELSE
               Amount[CHOOSE e \in D : TRUE] + sum[D \ {CHOOSE e \in D : TRUE}]]
           fixed == [D \in SUBSET {d} |-> IF D = {} THEN 0 ELSE Amount[d] + 0]
<1>1. Total({d}) = (CHOOSE sum : sum = F(sum))[{d}]
  BY DEF Total, MapThenSumSet, MapThenFoldSet
<1>2. SUBSET {d} = {{}, {d}} /\ (CHOOSE e \in {d} : TRUE) = d
  OBVIOUS
<1>3. \A sum : F(sum) = [D \in SUBSET {d} |-> IF D = {} THEN 0 ELSE Amount[d] + sum[{}]]
  <2> SUFFICES ASSUME NEW sum, NEW D \in SUBSET {d}, D # {}
               PROVE  Amount[CHOOSE e \in D : TRUE] + sum[D \ {CHOOSE e \in D : TRUE}]
                        = Amount[d] + sum[{}]
    OBVIOUS
  <2>1. D = {d} /\ {d} \ {d} = {}
    BY <1>2
  <2> QED BY <1>2, <2>1
<1>4. \E sum : sum = F(sum)
  <2>1. fixed = [D \in SUBSET {d} |-> IF D = {} THEN 0 ELSE Amount[d] + fixed[{}]]
    BY <1>2
  <2> HIDE DEF F, fixed
  <2> QED BY <1>3, <2>1
<1>5. PICK sum : sum = F(sum) /\ Total({d}) = sum[{d}]
  <2> HIDE DEF F
  <2> QED BY <1>1, <1>4
<1>6. sum = [D \in SUBSET {d} |-> IF D = {} THEN 0 ELSE Amount[d] + sum[{}]]
  <2> HIDE DEF F
  <2> QED BY <1>3, <1>5
<1>7. sum[{}] = 0 /\ sum[{d}] = Amount[d] + sum[{}] /\ Amount[d] \in Nat
  BY <1>2, <1>6, ConstantsAssumption
<1> QED BY <1>5, <1>7

-----------------------------------------------------------------------------
(***************************************************************************)
(* The promise, under Undisturbed: what a step has to show.                   *)
(***************************************************************************)
AtEase == Undisturbed /\ AtPeace /\ PaysKnown /\ Smooth

\* What a step may rely on.
LEMMA EaseKnown ==
    ASSUME AtEase
    PROVE  /\ Undisturbed /\ AtPeace /\ OneOwnerPerEvent /\ WellGrounded /\ TypeOK
           /\ phase = "up" /\ expired = {} /\ failures = 0
           /\ \A t \in Tasks : /\ SmoothAt(t, pc[t], job[t]) /\ Grounded(t, pc[t], job[t])
                               /\ pc[t] \in Labels
                               /\ job[t].q \in Quotes /\ job[t].ev \in Events /\ job[t] \in Jobs
           /\ \A q \in Quotes : SmoothRows(q) /\ \A key \in keys[q] : SmoothKey(q, key)
           /\ SmoothList("watcher") /\ SmoothList("poller")
           /\ {"watcher", "poller"} \subseteq Tasks
<1>1. /\ OneOwnerPerEvent /\ WellGrounded /\ TypeOK /\ Smooth /\ Undisturbed /\ AtPeace
      /\ \A t \in Tasks : job[t] \in Jobs /\ job[t].q \in Quotes
  BY PeaceKnown DEF AtEase
<1>2. MaxFailures = 0 /\ failures \in 0..MaxFailures
  BY <1>1 DEF Undisturbed, TypeOK, ProcessOK
<1>3. \A t \in Tasks : pc[t] \in Labels /\ job[t].ev \in Events
  BY <1>1, JobTyped DEF TypeOK, ProcessOK, TasksOK
<1> QED BY <1>1, <1>2, <1>3 DEF Smooth, WellGrounded, Tasks, Loops

\* A confirmation that counts names the one deposit the quote gets.
LEMMA TakenPays ==
    ASSUME AtEase, NEW q \in Quotes, NEW key \in keys[q], Confirms(key)
    PROVE  /\ key.datum \in landed /\ Counts(q, key.datum)
           /\ PaidIn[q] = Amount[key.datum] /\ PaidIn[q] > 0
<1>1. /\ key.datum \in landed \ (Reverted \cup Foreign) /\ PaysTo[key.datum] = q
      /\ key.datum \in Notes => Takes(q, key.datum)
      /\ Amount[key.datum] > 0
  BY EaseKnown DEF SmoothKey, Confirms
<1>2. Counts(q, key.datum)
  BY <1>1 DEF Counts
<1>3. landed \subseteq Deposits
  BY EaseKnown DEF TypeOK, ChainsOK
<1>4. Payments(q) = {key.datum}
  BY <1>1, <1>2, <1>3, EaseKnown DEF Payments, Undisturbed
<1>5. PaidIn[q] = Amount[key.datum]
  BY <1>1, <1>3, <1>4, TotalOfOne DEF PaidIn
<1> QED BY <1>1, <1>2, <1>5

\* Nothing that is said of quote q changes.
Stays(q) ==
    /\ status'[q] = status[q] /\ refunds'[q] = refunds[q]
    /\ payouts[q] = <<>> => payouts'[q] = <<>>
    /\ RefundAmount(q)' = RefundAmount(q) /\ PaidIn'[q] = PaidIn[q]
    /\ keys[q] \subseteq keys'[q]
    /\ \A key \in keys'[q] \ keys[q] : key.kind \notin FundedKinds

\* Such a step keeps what the steps are told by: what is taken, claimed, agreed and paid.
LEMMA StaysSame ==
    ASSUME NEW q, Stays(q)
    PROVE  /\ status'[q] = status[q] /\ refunds'[q] = refunds[q] /\ PaidIn'[q] = PaidIn[q]
           /\ Taken(q)' <=> Taken(q)
           /\ Awaiting(q)' <=> Awaiting(q)
           /\ Unclaimed(q)' <=> Unclaimed(q)
           /\ Unresolved(q)' <=> Unresolved(q)
           /\ Repayable(q)' <=> Repayable(q)
           /\ Agreed(q)' <=> Agreed(q)
           /\ Unpaid(q) => Unpaid(q)'
           /\ Accepted(q)' <=> Accepted(q)
           /\ TurnedDown(q)' <=> TurnedDown(q)
           /\ Processed(q)' <=> Processed(q)
           /\ \A key \in keys'[q] : Confirms(key) => key \in keys[q]
<1>1. /\ status'[q] = status[q] /\ refunds'[q] = refunds[q] /\ PaidIn'[q] = PaidIn[q]
      /\ RefundAmount(q)' = RefundAmount(q)
      /\ payouts[q] = <<>> => payouts'[q] = <<>>
  BY DEF Stays
<1>2. /\ keys[q] \subseteq keys'[q]
      /\ \A key \in keys'[q] \ keys[q] : key.kind \notin Confirmations \cup SettleKinds
  BY DEF Stays, FundedKinds
<1>3. /\ Taken(q)' <=> Taken(q)
      /\ \A key \in keys'[q] : Confirms(key) => key \in keys[q]
  BY <1>2 DEF Taken, Confirms
<1>4. Unclaimed(q)' <=> Unclaimed(q)
  BY <1>2 DEF Unclaimed, Initiated, Event, SettleKinds
<1>5. Unresolved(q)' <=> Unresolved(q)
  BY <1>2 DEF Unresolved, SettleKinds
<1>6. Repayable(q)' <=> Repayable(q)
  BY <1>1 DEF Repayable
<1>7. Covers(q, PaidIn[q])' <=> Covers(q, PaidIn[q])
  BY <1>1 DEF Covers
<1> QED BY <1>1, <1>3, <1>4, <1>5, <1>6, <1>7
        DEF Awaiting, Agreed, Unpaid, Accepted, TurnedDown, Processed

\* A task that stands still at a quote of which nothing changes.
LEMMA PositionStays ==
    ASSUME NEW t \in Tasks, Still(t), NEW q, q = job[t].q, Stays(q), landed \subseteq landed',
           SmoothAt(t, pc[t], job[t])
    PROVE  SmoothAt(t, pc[t], job[t])'
<1>3. \A x : Covers(q, x)' <=> Covers(q, x)
  BY DEF Covers
<1> QED BY <1>3, StaysSame DEF SmoothAt, Still, Asks, Confirms, Takes, Owner

\* What a key says stays true.
LEMMA KeyStays ==
    ASSUME NEW q, NEW key, SmoothKey(q, key), landed \subseteq landed'
    PROVE  SmoothKey(q, key)'
BY DEF SmoothKey, Takes, Names

\* So do the rows, as long as the loop that serves the quote does not leave it.
LEMMA RowsStaySmooth ==
    ASSUME NEW q, SmoothRows(q), Stays(q), Left(q)' => Left(q) \/ ~Taken(q)
                                                          \/ status[q] \in TerminalStatuses
    PROVE  SmoothRows(q)'
<1>1. /\ Taken(q)' <=> Taken(q)
      /\ Unclaimed(q)' <=> Unclaimed(q)
      /\ status'[q] = status[q] /\ refunds'[q] = refunds[q]
  BY StaysSame
<1>2. Detects(q) => Detects(q)'
  BY DEF Stays, Detects
<1> QED BY <1>1, <1>2 DEF SmoothRows

\* The loop that serves an EVM-origin quote and is past its detection has a confirmation
\* with a key.
LEMMA OwnerTakes ==
    ASSUME AtEase, NEW t \in Tasks, pc[t] # "idle", Origin[job[t].q] = "evm",
           ~Asks(pc[t], job[t], {"EVM_DEPOSIT_DETECTED"})
    PROVE  Taken(job[t].q)
<1>1. PICK q \in Quotes, ev \in Events, l \in Labels : q = job[t].q /\ ev = job[t].ev /\ l = pc[t]
  BY EaseKnown
<1>2. SmoothAt(t, l, job[t]) /\ Grounded(t, l, job[t])
  BY <1>1, EaseKnown
<1>3. l \notin NoteLabels /\ job[t].ret \notin NoteLabels
  BY <1>1, <1>2 DEF Grounded
<1>4. CASE l \in Applying
  <2>1. ev \in keys[q]
    BY <1>1, <1>4, EaseKnown, CarriedStands DEF Holding
  <2>2. ev.kind # "DEADLINE_EXPIRED" /\ ev.kind # "MIDEN_DEPOSIT_DETECTED"
    BY <1>1, <1>2, <1>3, <1>4 DEF SmoothAt, Asks, Holding, NoteLabels
  <2>3. CASE ev.kind \in Confirmations
    <3>1. Stands(q, ev) /\ Accounted(q)
      BY <2>1, EaseKnown DEF WellGrounded
    <3>2. Funded(q) /\ ev = Confirmed(FirstTx(q))
      BY <1>1, <2>3, <3>1 DEF Stands, FundedKinds
    <3>3. FirstTx(q) \in Txs
      BY <1>1, <3>2, EaseKnown, FirstTxTyped DEF Funded, TypeOK
    <3>4. ev.datum \notin Foreign
      BY <3>2, <3>3, EaseKnown, ConstantsAssumption DEF Undisturbed, Confirmed, Event
    <3> QED BY <1>1, <2>1, <2>3, <3>4 DEF Taken, Confirms
  <2>4. CASE ev.kind \in SettleKinds
    BY <1>1, <1>2, <1>4, <2>4 DEF SmoothAt, Asks
  <2> QED BY <1>1, <1>4, <2>2, <2>3, <2>4
          DEF Asks, Events, SettlementKinds, Confirmations, SettleKinds
<1>5. CASE l \in Settling \cup Refunding
  BY <1>1, <1>2, <1>5 DEF SmoothAt
<1>6. CASE l = "refundCheck"
  BY <1>1, <1>2, <1>6 DEF SmoothAt, Repaying
<1> QED BY <1>1, <1>3, <1>4, <1>5, <1>6 DEF Labels, Applying, Decided, Settling, Refunding

\* Nobody else works for the quote of a task.
LEMMA Alone ==
    ASSUME AtEase, NEW t \in Tasks, NEW u \in Tasks, pc[t] # "idle", pc[u] # "idle",
           job[t].q = job[u].q
    PROVE  t = u
<1>1. PICK q \in Quotes : q = job[t].q /\ q = job[u].q
  BY EaseKnown
<1> DEFINE D(v) == Asks(pc[v], job[v], {"EVM_DEPOSIT_DETECTED"})
<1>2. \A v \in {t, u} : /\ SmoothAt(v, pc[v], job[v])
                        /\ v = Owner(q) \/ (Origin[q] = "evm" /\ D(v))
  BY <1>1, EaseKnown DEF SmoothAt
<1>3. \A v \in {t, u} : Origin[q] = "evm" /\ ~D(v) => Taken(q)
  BY <1>1, OwnerTakes
<1>4. \A v \in {t, u} : D(v) => ~Taken(q)
  BY <1>1, <1>2 DEF SmoothAt, Asks, Awaiting, Detections
<1>5. CASE D(t) /\ D(u) /\ Origin[q] = "evm"
  <2>1. PICK ev \in Events, e \in Events : ev = job[t].ev /\ e = job[u].ev
    BY EaseKnown
  <2>2. /\ ev \in keys[q] /\ ev.kind = "EVM_DEPOSIT_DETECTED"
        /\ e \in keys[q] /\ e.kind = "EVM_DEPOSIT_DETECTED"
        /\ pc[t] \in Holding /\ pc[u] \in Holding
    BY <1>1, <1>5, <2>1, EaseKnown, CarriedStands DEF Asks, Holding
  <2>3. /\ Names(q, ev.datum) /\ Names(q, e.datum) /\ ev.datum \in Txs /\ e.datum \in Txs
    BY <2>1, <2>2, EaseKnown, DetectionsDiffer DEF SmoothKey
  <2>4. ev = e
    BY <1>5, <2>1, <2>2, <2>3, EaseKnown, DetectionsDiffer DEF Undisturbed
  <2> QED BY <1>1, <2>1, <2>2, <2>4, EaseKnown, OneCarrier
<1> QED BY <1>2, <1>3, <1>4, <1>5

\* What the step of a task for quote q has to show.
LEMMA SmoothKeeps ==
    ASSUME AtEase, NEW t \in Tasks, OnlyMoves(t), NEW q \in Quotes,
           \A u \in Tasks \ {t} : pc[u] # "idle" => job[u].q # q,
           pc[t] # "idle" => job[t].q = q, pc'[t] # "idle" => job'[t].q = q,
           \A p \in Quotes \ {q} : Stays(p),
           landed \subseteq landed', UNCHANGED <<phase, expired>>,
           \A u \in Tasks : todo'[u] \subseteq todo[u],
           \A r \in todo'[t] : t \in {"watcher", "poller"} => r.q # q,
           t = Owner(q) \/ Stays(q) \/ (Origin[q] = "evm" /\ status[q] # "KNOWN_DEPOSIT_TX"),
           SmoothAt(t, pc[t], job[t])',
           SmoothRows(q)',
           \A key \in keys'[q] : key \in keys[q] \/ SmoothKey(q, key)',
           \A p \in Quotes \ {q} : \A key \in keys'[p] : key \in keys[p] \/ SmoothKey(p, key)'
    PROVE  Smooth'
<1>0. /\ {"watcher", "poller"} \subseteq Tasks
      /\ \A u \in Tasks : SmoothAt(u, pc[u], job[u]) /\ job[u].q \in Quotes
      /\ \A p \in Quotes : SmoothRows(p) /\ \A key \in keys[p] : SmoothKey(p, key)
      /\ \A u \in Tasks : \A r \in todo[u] : r.q \in Quotes
  BY EaseKnown, ListedTyped
<1>1. ASSUME NEW u \in Tasks PROVE SmoothAt(u, pc[u], job[u])'
  <2>1. CASE u = t
    BY <2>1
  <2>2. CASE u # t /\ pc[u] = "idle"
    BY <2>2 DEF OnlyMoves, SmoothAt
  <2>3. CASE u # t /\ pc[u] # "idle"
    <3>1. PICK p \in Quotes : p = job[u].q /\ p # q
      BY <1>0, <2>3
    <3>2. Still(u)
      BY <2>3 DEF OnlyMoves, Still
    <3> QED BY <1>0, <3>1, <3>2, PositionStays
  <2> QED BY <2>1, <2>2, <2>3
<1>2. ASSUME NEW p \in Quotes PROVE SmoothRows(p)' /\ \A key \in keys'[p] : SmoothKey(p, key)'
  <2>1. \A key \in keys'[p] : SmoothKey(p, key)'
    BY <1>0, KeyStays
  <2>2. CASE p = q
    BY <2>1, <2>2
  <2>3. CASE p # q
    <3>1. Left(p)' => Left(p)
      BY <1>0, <2>3 DEF Left, OnlyMoves, Owner
    <3> QED BY <1>0, <2>1, <2>3, <3>1, RowsStaySmooth
  <2> QED BY <2>2, <2>3
<1>3. ASSUME NEW u \in {"watcher", "poller"} PROVE SmoothList(u)'
  <2>1. SmoothList(u) /\ u \in Tasks /\ todo'[u] \subseteq todo[u]
    BY <1>0, EaseKnown
  <2>2. ASSUME NEW r \in todo'[u]
        PROVE  /\ pc'[u] # "idle" => job'[u].q # r.q
               /\ u = "watcher" /\ r.status = "KNOWN_DEPOSIT_TX" =>
                    Awaiting(r.q)' /\ status'[r.q] = "KNOWN_DEPOSIT_TX"
               /\ u = "poller" => Awaiting(r.q)' /\ r.status # "PROCESSING"
    <3>1. r \in todo[u] /\ r.q \in Quotes
      BY <1>0, <2>1
    <3>2. pc'[u] # "idle" => job'[u].q # r.q
      BY <2>1, <3>1 DEF SmoothList, OnlyMoves
    <3>3. CASE Stays(r.q)
      <4>1. (Awaiting(r.q)' <=> Awaiting(r.q)) /\ status'[r.q] = status[r.q]
        BY <3>3, StaysSame
      <4> QED BY <2>1, <3>1, <3>2, <4>1 DEF SmoothList
    <3>4. CASE ~Stays(r.q)
      <4>1. r.q = q /\ u # t
        BY <3>1, <3>4
      <4>2. Serves(u, q)
        BY <2>1, <3>1, <4>1, EaseKnown DEF WellGrounded, Listed
      <4>3. Origin[q] = "evm" /\ status[q] # "KNOWN_DEPOSIT_TX" /\ u = "watcher"
        BY <3>4, <4>1, <4>2 DEF Serves, Owner
      <4> QED BY <2>1, <3>1, <3>2, <4>1, <4>3 DEF SmoothList
    <3> QED BY <3>3, <3>4
  <2> QED BY <2>1, <2>2 DEF SmoothList
<1>4. phase' = "up" /\ expired' = {} /\ todo'["scanner"] = {}
  BY EaseKnown DEF AtEase, Smooth, Tasks, Loops
<1> QED BY <1>1, <1>2, <1>3, <1>4 DEF Smooth

\* The step of a task that is at work.
LEMMA WorksSmoothly ==
    ASSUME AtEase, NEW t \in Tasks, pc[t] # "idle", NEW q \in Quotes, q = job[t].q,
           OnlyMoves(t), pc'[t] # "idle" => job'[t].q = q,
           \A p \in Quotes \ {q} : Stays(p) /\ keys'[p] = keys[p],
           UNCHANGED <<landed, phase, expired>>, \A u \in Tasks : todo'[u] \subseteq todo[u],
           SmoothAt(t, pc[t], job[t])', SmoothRows(q)',
           \A key \in keys'[q] : key \in keys[q] \/ SmoothKey(q, key)'
    PROVE  Smooth'
<1>1. \A u \in Tasks \ {t} : pc[u] # "idle" => job[u].q # q
  BY Alone
<1>2. \A r \in todo'[t] : t \in {"watcher", "poller"} => r.q # q
  BY EaseKnown DEF SmoothList
<1>3. t = Owner(q) \/ (Origin[q] = "evm" /\ status[q] # "KNOWN_DEPOSIT_TX")
  BY EaseKnown DEF SmoothAt, Asks
<1> QED BY <1>1, <1>2, <1>3, SmoothKeeps

\* Such a step that leaves the rows as they are, but for a key of no interest.
LEMMA WorksQuietly ==
    ASSUME AtEase, NEW t \in Tasks, pc[t] # "idle", NEW q \in Quotes, q = job[t].q,
           OnlyMoves(t), pc'[t] # "idle" => job'[t].q = q,
           \A p \in Quotes : Stays(p) /\ (p # q => keys'[p] = keys[p]),
           UNCHANGED <<landed, phase, expired>>, \A u \in Tasks : todo'[u] \subseteq todo[u],
           SmoothAt(t, pc[t], job[t])',
           pc'[t] = "idle" => t # Owner(q) \/ ~Taken(q) \/ status[q] \in TerminalStatuses,
           \A key \in keys'[q] \ keys[q] : key.kind # "EVM_DEPOSIT_DETECTED"
    PROVE  Smooth'
<1>1. SmoothRows(q)'
  <2>1. Left(q)' => Left(q) \/ ~Taken(q) \/ status[q] \in TerminalStatuses
    <3>1. Owner(q) \in Tasks
      BY DEF Owner, Tasks, Loops
    <3> QED BY <3>1 DEF Left, OnlyMoves, Owner
  <2> QED BY <2>1, EaseKnown, RowsStaySmooth
<1>2. \A key \in keys'[q] : key \in keys[q] \/ SmoothKey(q, key)'
  BY DEF Stays, SmoothKey, FundedKinds
<1> QED BY <1>1, <1>2, WorksSmoothly

\* What is said of a quote stays when its rows, refunds and deposits stay, it is not paid out,
\* and no key of a claim or a confirmation is burned.
LEMMA StaysPut ==
    ASSUME NEW p \in Quotes, landed' = landed,
           status'[p] = status[p], log'[p] = log[p], refunds'[p] = refunds[p],
           payouts[p] = <<>> => payouts'[p] = <<>>, keys[p] \subseteq keys'[p],
           \A key \in keys'[p] \ keys[p] : key.kind \notin FundedKinds
    PROVE  Stays(p)
<1>1. ConfirmedEntries(p)' = ConfirmedEntries(p)
  BY DEF ConfirmedEntries
<1>2. RefundAmount(p)' = RefundAmount(p)
  BY <1>1 DEF RefundAmount, HasConfirmed
<1>3. Payments(p)' = Payments(p)
  BY DEF Payments, Counts, Takes
<1>4. PaidIn'[p] = PaidIn[p]
  BY <1>3 DEF PaidIn
<1> QED BY <1>2, <1>4 DEF Stays

\* A step that leaves all that as it is, for every quote.
LEMMA AllStay ==
    ASSUME UNCHANGED <<status, log, refunds, payouts, landed>>,
           \A p \in Quotes : keys[p] \subseteq keys'[p] /\
             \A key \in keys'[p] \ keys[p] : key.kind \notin FundedKinds
    PROVE  \A p \in Quotes : Stays(p)
BY StaysPut

\* A key that is burned.
LEMMA KeyBurns ==
    ASSUME TypeOK, NEW q \in Quotes, NEW key, BurnKey(q, key)
    PROVE  /\ keys'[q] = keys[q] \cup {key}
           /\ \A p \in Quotes \ {q} : keys'[p] = keys[p]
BY DEF BurnKey, TypeOK, StoreOK

\* A task that goes on with another id.
LEMMA IdMoves ==
    ASSUME TypeOK, NEW t \in Tasks, NEW l, pc' = [pc EXCEPT ![t] = l],
           NEW id, job' = [job EXCEPT ![t].id = id]
    PROVE  /\ OnlyMoves(t) /\ pc'[t] = l
           /\ job'[t].q = job[t].q /\ job'[t].ret = job[t].ret /\ job'[t].ev = job[t].ev
           /\ job'[t].note = job[t].note /\ job'[t].id = id
<1>1. job \in [Tasks -> Jobs] /\ job[t] \in Jobs
  BY DEF TypeOK, ProcessOK, TasksOK
<1>2. OnlyMoves(t) /\ pc'[t] = l
  BY MovesAlone
<1> QED BY <1>1, <1>2 DEF Jobs

-----------------------------------------------------------------------------
(***************************************************************************)
(* The refunds.                                                               *)
(***************************************************************************)

\* The refund is sent, on either chain, for a quote that was not paid out.
LEMMA RepaysSmoothly ==
    ASSUME AtEase, NEW t \in Tasks, Repays(t)
    PROVE  Smooth'
<1>0. /\ TypeOK /\ SmoothAt(t, pc[t], job[t]) /\ OneOwnerPerEvent
      /\ pc[t] \in {"refundSend", "refundSubmit"}
  BY EaseKnown DEF Repays, RefundSend, RefundsNow, NoteRefundSubmit, SmoothAt, Repaying
<1>1. PICK q, pay : /\ q \in Quotes /\ q = job[t].q
                    /\ refunds' = [refunds EXCEPT ![q] = Append(@, pay)]
  BY <1>0, RepayShape
<1>2. /\ UNCHANGED <<status, log, keys, payouts, landed, expired, phase, todo>>
      /\ pc'[t] \in {"refundAppend", "refundStore"} /\ OnlyMoves(t)
      /\ job'[t].q = q /\ job'[t].ret = job[t].ret /\ job'[t].note = job[t].note
  <2>1. /\ UNCHANGED <<status, log, keys, payouts, landed, expired, phase, todo>>
    BY DEF Repays, RefundSend, NoteRefundSubmit, store, rows
  <2>2. PICK l, id :
           /\ l \in {"refundAppend", "refundStore"}
           /\ pc' = [pc EXCEPT ![t] = l] /\ job' = [job EXCEPT ![t].id = id]
    BY DEF Repays, RefundSend, NoteRefundSubmit
  <2> QED BY <1>0, <1>1, <2>1, <2>2, IdMoves
<1>3. \A p \in Quotes \ {q} : Stays(p) /\ keys'[p] = keys[p]
  BY <1>0, <1>1, <1>2, StaysPut DEF TypeOK, ChainsOK
<1>4. /\ t = Owner(q) /\ Taken(q) /\ SmoothRows(q)
      /\ status[q] \in {"INCOMPLETE_DEPOSIT", "REFUNDED"}
      /\ job[t].ret = "idle" \/ (TurnedDown(q) /\ job[t].ret \in {"settle", "consume"})
      /\ job[t].ret = "consume" => job[t].note \notin Foreign
      /\ job[t].ret \in NoteLabels => job[t].note \in landed /\ Takes(q, job[t].note)
  BY <1>0, <1>1, EaseKnown DEF SmoothAt, Asks, Applying, Decided, Refunding
<1>5. Taken(q)' /\ (TurnedDown(q) => TurnedDown(q)') /\ (Detects(q) => Detects(q)')
  BY <1>2, <1>4 DEF Taken, TurnedDown, Unclaimed, Detects
<1>6. SmoothAt(t, pc[t], job[t])'
  BY <1>2, <1>4, <1>5
     DEF SmoothAt, Asks, Holding, Applying, Decided, Repaying, NoteLabels, Keeping, Consuming,
         Settling, Refunding, Owner, Takes
<1>7. SmoothRows(q)'
  BY <1>2, <1>4, <1>5 DEF SmoothRows, Left, Owner
<1> QED BY <1>0, <1>1, <1>2, <1>3, <1>6, <1>7, WorksSmoothly

\* The other steps of a refund.
LEMMA RefundSmooth ==
    ASSUME AtEase, NEW t \in Tasks, Refund(t) \/ NoteRefund(t)
    PROVE  Smooth'
<1>0. TypeOK /\ SmoothAt(t, pc[t], job[t]) /\ job[t] \in Jobs
  BY EaseKnown
<1>1. PICK q \in Quotes : q = job[t].q
  BY EaseKnown
<1>2. CASE Repays(t)
  BY <1>2, RepaysSmoothly
<1>3. CASE ~Repays(t)
  <2>1. /\ UNCHANGED <<status, log, refunds, payouts, landed, expired, phase, todo>>
        /\ pc[t] \in Refunding \cup {"refundCheck"}
    BY <1>3 DEF Refund, RefundAppend, RefundConfirm, RefundsNow, Refunding, store, rows, chains,
                NoteRefund, NoteRefundKeyed, NoteRefundPoll, NoteRefundAppend, Repays,
                NoteRefundCommitted, Return, Goto
  <2>2. pc[t] \in Refunding
    BY <1>0, <2>1 DEF SmoothAt, Repaying, Refunding
  <2>3. \/ keys' = keys
        \/ \E key : BurnKey(q, key) /\ key.kind \in {"evm_refund", "miden_refund"}
    BY <1>1, <1>3 DEF Refund, RefundAppend, RefundConfirm, NoteRefund, NoteRefundKeyed, NoteRefundPoll,
                NoteRefundAppend, NoteRefundCommitted, Repays, store, RefundKey, NoteRefundKey, Event
  <2>4. /\ \A p \in Quotes \ {q} : keys'[p] = keys[p]
        /\ keys[q] \subseteq keys'[q]
        /\ \A key \in keys'[q] \ keys[q] : key.kind \in {"evm_refund", "miden_refund"}
    BY <1>0, <2>3, KeyBurns
  <2>5. \A p \in Quotes : keys[p] \subseteq keys'[p] /\
             \A key \in keys'[p] \ keys[p] : key.kind \notin FundedKinds
    BY <2>4 DEF FundedKinds, SettleKinds, Confirmations
  <2>6. \A p \in Quotes : Stays(p)
    BY <2>1, <2>5, AllStay
  <2>7. /\ t = Owner(q) /\ Taken(q)
        /\ status[q] \in {"INCOMPLETE_DEPOSIT", "REFUNDED"}
        /\ job[t].ret = "idle" \/ (TurnedDown(q) /\ job[t].ret \in {"settle", "consume"})
        /\ job[t].ret = "consume" => job[t].note \notin Foreign
        /\ job[t].ret \in NoteLabels => job[t].note \in landed /\ Takes(q, job[t].note)
        /\ pc[t] \in Repaying =>
             Repayable(q) /\ Unpaid(q) /\ job[t].ev.kind # "DEADLINE_EXPIRED"
    BY <1>0, <1>1, <2>2 DEF SmoothAt, Asks, Holding, Applying, Decided, Refunding
  <2>8. /\ Taken(q)' /\ status'[q] = status[q]
        /\ TurnedDown(q) => TurnedDown(q)'
        /\ Repayable(q) => Repayable(q)' /\ PaidIn'[q] = PaidIn[q]
        /\ Unpaid(q) => Unpaid(q)'
    BY <2>1, <2>6, <2>7, StaysSame
  <2>9. OnlyMoves(t) /\ SmoothAt(t, pc[t], job[t])' /\ (pc'[t] # "idle" => job'[t].q = q)
    <3>1. CASE Return(t)
      <4>1. /\ OnlyMoves(t) /\ pc'[t] = job[t].ret /\ job'[t].ret = "idle"
            /\ job[t].ret # "idle" => job'[t].q = q /\ job'[t].note = job[t].note
        BY <1>0, <1>1, <3>1, MovesAlone, JobsMove DEF Return
      <4> QED BY <2>1, <2>7, <2>8, <4>1
              DEF SmoothAt, Asks, Holding, Applying, Decided, Repaying, NoteLabels, Keeping,
                  Consuming, Settling, Refunding, Owner, Takes, TurnedDown, SettleKinds
    <3>2. CASE ~Return(t)
      <4>1. /\ OnlyMoves(t) /\ pc'[t] \in Refunding \ {"refundSend"}
            /\ job'[t].q = q /\ job'[t].ret = job[t].ret /\ job'[t].note = job[t].note
            /\ pc'[t] = "refundSubmit" => /\ pc[t] \in Repaying /\ job'[t].ev = job[t].ev
                                          /\ job'[t].id = RefundAmount(q)
        <5>1. CASE \E l \in {"refundConfirm", "refundWait"} : Goto(t, l)
          BY <1>0, <1>1, <5>1, MovesAlone DEF Refunding
        <5>2. CASE \E l \in {"refundSubmit", "refundWait"} : \E id :
                      /\ pc' = [pc EXCEPT ![t] = l] /\ job' = [job EXCEPT ![t].id = id]
                      /\ pc[t] \in {"refundSend", "refundCheck"}
                      /\ l = "refundSubmit" => id = RefundAmount(q)
          <6>1. PICK l \in {"refundSubmit", "refundWait"} : \E id :
                   /\ pc' = [pc EXCEPT ![t] = l] /\ job' = [job EXCEPT ![t].id = id]
                   /\ pc[t] \in {"refundSend", "refundCheck"}
                   /\ l = "refundSubmit" => id = RefundAmount(q)
            BY <5>2
          <6>2. PICK id : /\ pc' = [pc EXCEPT ![t] = l] /\ job' = [job EXCEPT ![t].id = id]
                          /\ pc[t] \in {"refundSend", "refundCheck"}
                          /\ l = "refundSubmit" => id = RefundAmount(q)
            BY <6>1
          <6>3. /\ OnlyMoves(t) /\ pc'[t] = l
                /\ job'[t].q = job[t].q /\ job'[t].ret = job[t].ret
                /\ job'[t].note = job[t].note /\ job'[t].id = id /\ job'[t].ev = job[t].ev
            BY <1>0, <6>1, <6>2, IdMoves
          <6> QED BY <1>1, <6>1, <6>2, <6>3 DEF Refunding, Repaying
        <5>3. CASE NoteRefundKeyed(t) \/ NoteRefundPoll(t)
          <6>1. CASE NoteRefundKeyed(t)
            BY <1>1, <5>2, <6>1 DEF NoteRefundKeyed, RefundsNow
          <6>2. CASE NoteRefundPoll(t) /\ refundIds[q] = <<>>
            BY <1>1, <5>2, <6>2 DEF NoteRefundPoll, RefundsNow
          <6>3. CASE NoteRefundPoll(t) /\ refundIds[q] # <<>>
            BY <1>1, <5>2, <6>3 DEF NoteRefundPoll, RefundsNow
          <6> QED BY <5>3, <6>1, <6>2, <6>3
        <5> QED BY <1>3, <3>2, <5>1, <5>3
                DEF Refund, RefundAppend, RefundConfirm, NoteRefund, NoteRefundAppend, Repays,
                    NoteRefundCommitted
      <4>2. pc'[t] = "refundSubmit" => job'[t].id = PaidIn'[q]
        BY <2>7, <2>8, <4>1 DEF Repayable
      <4> QED BY <2>1, <2>7, <2>8, <4>1, <4>2
              DEF SmoothAt, Asks, Holding, Applying, Decided, Repaying, NoteLabels, Keeping,
                  Consuming, Settling, Refunding, Owner, Takes
    <3> QED BY <3>1, <3>2
  <2>10. pc[t] # "idle" /\ status[q] \in TerminalStatuses
    BY <2>2, <2>7 DEF Refunding, TerminalStatuses
  <2> QED BY <1>1, <2>1, <2>4, <2>6, <2>9, <2>10, WorksQuietly
<1> QED BY <1>2, <1>3

-----------------------------------------------------------------------------
(***************************************************************************)
(* Settlement and the payouts.                                                *)
(***************************************************************************)

\* What the refunds and deposits say of a quote does not depend on its keys.
LEMMA ReckoningStays ==
    ASSUME NEW p \in Quotes, landed' = landed, log'[p] = log[p], refunds'[p] = refunds[p]
    PROVE  /\ RefundAmount(p)' = RefundAmount(p) /\ PaidIn'[p] = PaidIn[p]
           /\ Repayable(p)' <=> Repayable(p)
           /\ Agreed(p)' <=> Agreed(p)
<1>1. ConfirmedEntries(p)' = ConfirmedEntries(p)
  BY DEF ConfirmedEntries
<1>2. RefundAmount(p)' = RefundAmount(p)
  BY <1>1 DEF RefundAmount, HasConfirmed
<1>3. Payments(p)' = Payments(p)
  BY DEF Payments, Counts, Takes
<1>4. PaidIn'[p] = PaidIn[p]
  BY <1>3 DEF PaidIn
<1>5. Repayable(p)' <=> Repayable(p)
  BY <1>2, <1>4 DEF Repayable
<1>6. Covers(p, PaidIn[p])' <=> Covers(p, PaidIn[p])
  BY <1>4 DEF Covers
<1> QED BY <1>2, <1>4, <1>5, <1>6 DEF Agreed

\* A call of apply with a new key.
LEMMA CallsAnew ==
    ASSUME TypeOK, NEW t \in Tasks, NEW q \in Quotes, NEW ev, NEW ret, ev \notin keys[q],
           CallApply(t, q, ev, ret)
    PROVE  /\ OnlyMoves(t) /\ pc'[t] = "decide"
           /\ job'[t].q = q /\ job'[t].ev = ev /\ job'[t].ret = ret /\ job'[t].note = job[t].note
           /\ keys'[q] = keys[q] \cup {ev}
           /\ \A p \in Quotes \ {q} : keys'[p] = keys[p]
<1>1. PICK k : k = [Fresh(t, q) EXCEPT !.ev = ev, !.ret = ret]
  OBVIOUS
<1>2. k.q = q /\ k.ev = ev /\ k.ret = ret /\ k.note = job[t].note
  BY <1>1 DEF Fresh, NoJob
<1>3. BurnKey(q, ev) /\ pc' = [pc EXCEPT ![t] = "decide"] /\ job' = [job EXCEPT ![t] = k]
  BY <1>1 DEF CallApply
<1>4. OnlyMoves(t) /\ pc'[t] = "decide" /\ job'[t] = k
  BY <1>3 DEF OnlyMoves, TypeOK, ProcessOK, TasksOK
<1> QED BY <1>2, <1>3, <1>4, KeyBurns

\* The task that settles a quote raises an event it has not raised before.
LEMMA SettlerCallsSmoothly ==
    ASSUME AtEase, NEW t \in Tasks, pc[t] \in Settling, NEW q \in Quotes, q = job[t].q,
           NEW ev, ev.kind \in SettleKinds, ev \notin keys[q], NEW ret,
           CallApply(t, q, ev, ret), UNCHANGED <<rows, chains, phase, todo>>,
           ret = IF ev.kind = "SETTLEMENT_INITIATED" THEN "reload" ELSE "idle",
           IF ev.kind = "SETTLEMENT_INITIATED" THEN Accepted(q) /\ Unpaid(q) /\ Unresolved(q)
                                               ELSE Processed(q),
           ev.kind = "SLIPPAGE_EXCEEDED" => Agreed(q) /\ Unpaid(q)
    PROVE  Smooth'
<1>0. TypeOK /\ SmoothAt(t, pc[t], job[t])
  BY EaseKnown
<1>1. /\ t = Owner(q) /\ Taken(q) /\ SmoothRows(q) /\ pc[t] # "idle"
  BY <1>0, EaseKnown DEF SmoothAt, Asks, Applying, Decided, Settling
<1>2. /\ OnlyMoves(t) /\ pc'[t] = "decide"
      /\ job'[t].q = q /\ job'[t].ev = ev /\ job'[t].ret = ret
      /\ keys'[q] = keys[q] \cup {ev}
      /\ \A p \in Quotes \ {q} : keys'[p] = keys[p]
  BY <1>0, CallsAnew
<1>3. UNCHANGED <<status, log, refunds, payouts, landed, expired, phase, todo>>
  BY DEF rows, chains
<1>4. \A p \in Quotes \ {q} : Stays(p) /\ keys'[p] = keys[p]
  BY <1>2, <1>3, StaysPut
<1>5. /\ Taken(q)' /\ (Agreed(q) => Agreed(q)') /\ (Unpaid(q) => Unpaid(q)')
      /\ Processed(q) => Processed(q)'
      /\ ev.kind = "SETTLEMENT_INITIATED" => Agreed(q)
      /\ ev.kind = "SETTLEMENT_INITIATED" /\ Unresolved(q) => Unresolved(q)'
      /\ Detects(q) => Detects(q)'
  BY <1>1, <1>2, <1>3, ReckoningStays DEF Taken, Unpaid, Processed, Accepted, Unresolved, Detects
<1>6. SmoothAt(t, pc[t], job[t])'
  BY <1>1, <1>2, <1>3, <1>5
     DEF SmoothAt, Asks, Holding, Applying, Decided, Repaying, NoteLabels, Keeping, Consuming,
         Settling, Refunding, Owner, SettleKinds, Detections, Confirmations, Accepted
<1>7. SmoothRows(q)'
  BY <1>1, <1>2, <1>3, <1>5 DEF SmoothRows, Left, Owner
<1>8. \A key \in keys'[q] : key \in keys[q] \/ SmoothKey(q, key)'
  BY <1>2 DEF SmoothKey, SettleKinds, Confirmations
<1> QED BY <1>1, <1>2, <1>3, <1>4, <1>6, <1>7, <1>8, WorksSmoothly

\* The steps of settle.
LEMMA SettleSmooth ==
    ASSUME AtEase, NEW t \in Tasks, Settle(t)
    PROVE  Smooth'
<1>0. /\ TypeOK /\ SmoothAt(t, pc[t], job[t]) /\ WellGrounded
      /\ pc[t] \in {"settle", "reload"}
  BY EaseKnown DEF Settle, SettleDone, SettleClaim, SettleRequote, Claimed
<1>1. PICK q \in Quotes : q = job[t].q
  BY EaseKnown
<1>2. /\ pc[t] \in Settling /\ pc[t] # "idle" /\ Taken(q)
      /\ pc[t] = "settle" => Accepted(q) \/ TurnedDown(q)
      /\ pc[t] = "reload" => Processed(q) /\ Agreed(q) /\ Unpaid(q) /\ Unresolved(q)
      /\ t = Owner(q)
  BY <1>0, <1>1 DEF SmoothAt, Asks, Applying, Decided, Settling
<1>3. /\ UNCHANGED <<status, log, refunds, payouts, landed, expired, phase, todo>>
      /\ UNCHANGED <<rows, chains>>
  BY DEF Settle, SettleDone, SettleClaim, SettleRequote, store, rows, chains
<1>4. CASE SettleDone(t)
  <2>1. /\ keys' = keys /\ status[q] \in TerminalStatuses
        /\ OnlyMoves(t) /\ pc'[t] = "idle"
    BY <1>0, <1>1, <1>4, MovesAlone DEF SettleDone, store
  <2>2. \A p \in Quotes : Stays(p)
    BY <1>3, <2>1, AllStay
  <2>3. SmoothAt(t, pc[t], job[t])'
    BY <2>1 DEF SmoothAt
  <2> QED BY <1>1, <1>2, <1>3, <2>1, <2>2, <2>3, WorksQuietly
<1>5. CASE SettleClaim(t)
  <2>1. /\ status[q] \notin TerminalStatuses /\ CallApply(t, q, Initiated, "reload")
        /\ pc[t] = "settle"
    BY <1>1, <1>5 DEF SettleClaim
  <2>2. Accepted(q)
    BY <1>2, <2>1 DEF TurnedDown, TerminalStatuses
  <2>3. Unpaid(q) /\ Initiated \notin keys[q]
    <3>1. CalmRows(q)
      BY PeaceKnown DEF AtEase
    <3> QED BY <2>2, <3>1 DEF CalmRows, Accepted, Unclaimed, Unpaid
  <2>4. Unresolved(q)
    BY <1>0, <2>3 DEF WellGrounded, Stands, Unresolved, SettleKinds
  <2>5. PICK ev \in Events : ev = Initiated /\ ev.kind = "SETTLEMENT_INITIATED"
    BY EventsTyped DEF Initiated, Event
  <2> QED BY <1>1, <1>2, <1>3, <2>1, <2>2, <2>3, <2>4, <2>5, SettlerCallsSmoothly
          DEF SettleKinds
<1>6. ASSUME NEW out \in Outputs, SettleRequote(t, out) PROVE Smooth'
  <2>1. /\ pc[t] = "reload" /\ Processed(q) /\ Agreed(q) /\ Unpaid(q) /\ Unresolved(q)
    <3>1. status[q] = "PROCESSING" => ~Accepted(q) /\ ~TurnedDown(q)
      BY DEF Accepted, TurnedDown
    <3>2. pc[t] = "reload" \/ (pc[t] = "settle" /\ status[q] = "PROCESSING")
      BY <1>1, <1>6 DEF SettleRequote, Claimed
    <3> QED BY <1>2, <3>1, <3>2
  <2>2. payoutIds[q] = <<>>
    <3>1. Range(payoutIds[q]) \subseteq 1..Len(payouts[q]) /\ payoutIds[q] \in Seq(Nat)
      <4>1. Accounted(q)
        BY <1>0 DEF WellGrounded
      <4> QED BY <1>0, <4>1 DEF Accounted, TypeOK, StoreOK
    <3>2. Range(payoutIds[q]) = {}
      BY <2>1, <3>1 DEF Unpaid
    <3> QED BY <3>1, <3>2, LastInRange
  <2>3. CASE CallApply(t, q, Slippage(out), "idle")
    <3>1. PICK ev \in Events : ev = Slippage(out) /\ ev.kind = "SLIPPAGE_EXCEEDED"
      BY ConstantsAssumption, EventsTyped DEF Slippage, Event
    <3>2. ev \notin keys[q]
      BY <2>1, <3>1 DEF Unresolved
    <3> QED BY <1>1, <1>2, <1>3, <2>1, <2>3, <3>1, <3>2, SettlerCallsSmoothly DEF SettleKinds
  <2>4. CASE Continue(t, q, "payout") /\ UNCHANGED keys
    <3>1. /\ OnlyMoves(t) /\ pc'[t] = "payout" /\ job'[t].ret = "idle" /\ job'[t].q = q
      BY <1>0, <2>4, MovesAlone, JobsMove
    <3>2. \A p \in Quotes : Stays(p)
      BY <1>3, <2>4, AllStay
    <3>3. Taken(q)' /\ Processed(q)' /\ Agreed(q)' /\ Unpaid(q)' /\ Unresolved(q)'
      BY <1>2, <2>1, <3>2, StaysSame
    <3>4. SmoothAt(t, pc[t], job[t])'
      BY <1>2, <3>1, <3>3
         DEF SmoothAt, Asks, Holding, Applying, Decided, Repaying, NoteLabels, Keeping, Consuming,
             Settling, Refunding, Owner
    <3> QED BY <1>1, <1>2, <1>3, <2>4, <3>1, <3>2, <3>4, WorksQuietly
  <2>5. \/ CallApply(t, q, Slippage(out), "idle")
        \/ Continue(t, q, "payout") /\ UNCHANGED keys
    <3>1. Terms[q].minAmountOut \in Nat /\ out \in Nat
      BY ConstantsAssumption
    <3> QED BY <1>1, <1>6, <2>2, <3>1 DEF SettleRequote
  <2> QED BY <2>3, <2>4, <2>5
<1> QED BY <1>4, <1>5, <1>6 DEF Settle

\* A payout leaves the solver.
LEMMA PaysSmoothly ==
    ASSUME AtEase, NEW t \in Tasks, Pays(t)
    PROVE  Smooth'
<1>0. /\ TypeOK /\ SmoothAt(t, pc[t], job[t]) /\ pc[t] \in {"payout", "mintSubmit"}
  BY EaseKnown DEF Pays, MintSubmit, ReleaseSend
<1>1. PICK q \in Quotes : q = job[t].q
  BY EaseKnown
<1>2. /\ UNCHANGED <<status, log, keys, refunds, landed, expired, phase, todo>>
      /\ \A p \in Quotes \ {q} : payouts'[p] = payouts[p]
  BY <1>0, <1>1 DEF Pays, MintSubmit, ReleaseSend, SendPayout, store, rows, TypeOK, ChainsOK
<1>3. PICK l, id :
         /\ l \in {"mintAppend", "releaseAppend"}
         /\ pc' = [pc EXCEPT ![t] = l] /\ job' = [job EXCEPT ![t].id = id]
  BY DEF Pays, MintSubmit, ReleaseSend, SendPayout
<1>4. /\ OnlyMoves(t) /\ pc'[t] = l
      /\ job'[t].q = q /\ job'[t].ret = job[t].ret /\ job'[t].note = job[t].note
  BY <1>0, <1>1, <1>3, IdMoves
<1>5. \A p \in Quotes \ {q} : Stays(p) /\ keys'[p] = keys[p]
  BY <1>2, StaysPut
<1>6. /\ Taken(q) /\ Processed(q) /\ Unresolved(q) /\ t = Owner(q) /\ job[t].ret = "idle"
      /\ SmoothRows(q)
  BY <1>0, <1>1, EaseKnown DEF SmoothAt, Asks, Applying, Decided, Settling
<1>7. Taken(q)' /\ Processed(q)' /\ Unresolved(q)' /\ (Detects(q) => Detects(q)')
  BY <1>2, <1>6 DEF Taken, Processed, Unresolved, Detects
<1>8. SmoothAt(t, pc[t], job[t])'
  BY <1>3, <1>4, <1>6, <1>7
     DEF SmoothAt, Asks, Holding, Applying, Decided, Repaying, NoteLabels, Keeping, Consuming,
         Settling, Refunding, Owner
<1>9. SmoothRows(q)'
  BY <1>2, <1>3, <1>4, <1>6, <1>7 DEF SmoothRows, Left, Owner
<1> QED BY <1>0, <1>1, <1>2, <1>4, <1>5, <1>8, <1>9, WorksSmoothly

\* The steps of a mint and of a release.
LEMMA PayoutSmooth ==
    ASSUME AtEase, NEW t \in Tasks, Mint(t) \/ Release(t)
    PROVE  Smooth'
<1>0. /\ TypeOK /\ SmoothAt(t, pc[t], job[t]) /\ WellGrounded /\ CalmChains
      /\ pc[t] \in Settling \ {"settle"} /\ job[t].id \in Nat
  BY EaseKnown, PeaceKnown, OwnersKnown
     DEF AtEase, Mint, MintKeyed, MintPoll, Mints, MintSubmit, MintAppend, MintCommitted,
         MintDiscarded, Release, ReleaseSend, ReleaseAppend, ReleaseConfirmed, Settling
<1>1. PICK q \in Quotes : q = job[t].q
  BY EaseKnown
<1>2. /\ Taken(q) /\ Processed(q) /\ Unresolved(q) /\ t = Owner(q) /\ job[t].ret = "idle"
      /\ pc[t] \in {"reload", "payout", "mintSubmit"} => Agreed(q)
  BY <1>0, <1>1 DEF SmoothAt, Asks, Applying, Decided, Settling
<1>3. CASE Pays(t)
  BY <1>3, PaysSmoothly
<1>4. CASE MintKeyed(t) \/ MintPoll(t) \/ Stores(t)
  <2>1. UNCHANGED <<status, log, refunds, payouts, landed, expired, phase, todo>>
    BY <1>4 DEF MintKeyed, MintPoll, Stores, MintAppend, ReleaseAppend, store, rows, chains, Goto
  <2>2. \/ keys' = keys
        \/ \E key : BurnKey(q, key) /\ key.kind \in {"miden_mint", "evm_release"}
    BY <1>1, <1>4 DEF MintKeyed, MintPoll, Stores, MintAppend, ReleaseAppend, store,
                      MintKey, ReleaseKey, Event
  <2>3. /\ \A p \in Quotes \ {q} : keys'[p] = keys[p]
        /\ keys[q] \subseteq keys'[q]
        /\ \A key \in keys'[q] \ keys[q] : key.kind \in {"miden_mint", "evm_release"}
    BY <1>0, <2>2, KeyBurns
  <2>4. \A p \in Quotes : keys[p] \subseteq keys'[p] /\
             \A key \in keys'[p] \ keys[p] : key.kind \notin FundedKinds
    BY <2>3 DEF FundedKinds, SettleKinds, Confirmations
  <2>5. \A p \in Quotes : Stays(p)
    BY <2>1, <2>4, AllStay
  <2>6. /\ OnlyMoves(t) /\ pc'[t] \in {"mintSubmit", "mintWait", "releaseWait"}
        /\ job'[t].q = q /\ job'[t].ret = job[t].ret /\ job'[t].note = job[t].note
        /\ pc'[t] = "mintSubmit" => pc[t] = "payout"
    <3>1. CASE MintKeyed(t) \/ (MintPoll(t) /\ payoutIds[q] = <<>>)
      <4>1. Goto(t, "mintSubmit") /\ pc[t] = "payout"
        BY <1>1, <3>1 DEF MintKeyed, MintPoll, Mints
      <4> QED BY <1>0, <1>1, <4>1, MovesAlone
    <3>2. CASE Stores(t)
      <4>1. PICK l \in {"mintWait", "releaseWait"} : Goto(t, l)
        BY <3>2 DEF Stores, MintAppend, ReleaseAppend
      <4> QED BY <1>0, <1>1, <4>1, MovesAlone
    <3>3. CASE MintPoll(t) /\ payoutIds[q] # <<>>
      <4>1. PICK id : pc' = [pc EXCEPT ![t] = "mintWait"] /\ job' = [job EXCEPT ![t].id = id]
        BY <1>1, <3>3 DEF MintPoll
      <4>2. /\ OnlyMoves(t) /\ pc'[t] = "mintWait" /\ job'[t].q = job[t].q
            /\ job'[t].ret = job[t].ret /\ job'[t].note = job[t].note
        BY <1>0, <4>1, IdMoves
      <4> QED BY <1>1, <4>2
    <3> QED BY <1>4, <3>1, <3>2, <3>3
  <2>7. /\ Taken(q)' /\ Processed(q)' /\ Unresolved(q)' /\ (Agreed(q) => Agreed(q)')
    BY <1>2, <2>5, StaysSame
  <2>8. SmoothAt(t, pc[t], job[t])'
    BY <1>2, <2>6, <2>7
       DEF SmoothAt, Asks, Holding, Applying, Decided, Repaying, NoteLabels, Keeping, Consuming,
           Settling, Refunding, Owner
  <2>9. pc[t] # "idle"
    BY <1>0 DEF Settling
  <2> QED BY <1>1, <2>1, <2>3, <2>5, <2>6, <2>8, <2>9, WorksQuietly
<1>5. CASE MintCommitted(t) \/ ReleaseConfirmed(t)
  <2>1. /\ CallApply(t, q, Succeeded(job[t].id), "idle")
        /\ UNCHANGED <<rows, chains, phase, todo>>
    BY <1>1, <1>5 DEF MintCommitted, ReleaseConfirmed
  <2>2. PICK ev \in Events : /\ ev = Succeeded(job[t].id)
                             /\ ev.kind = "SETTLEMENT_SUCCEEDED"
    BY <1>0, EventsTyped DEF Succeeded, Event
  <2>3. ev \notin keys[q]
    BY <1>2, <2>2 DEF Unresolved
  <2> QED BY <1>0, <1>1, <1>2, <2>1, <2>2, <2>3, SettlerCallsSmoothly DEF SettleKinds
<1>6. CASE MintDiscarded(t)
  <2>1. job[t].id \in 1..Len(payouts[q]) /\ payouts[q][job[t].id] = "discarded"
    BY <1>0, <1>1, <1>6, StandingAt DEF MintDiscarded, PayoutOut
  <2> QED BY <1>0, <2>1 DEF CalmChains
<1> QED BY <1>3, <1>4, <1>5, <1>6 DEF Mint, Release, Pays, Stores

-----------------------------------------------------------------------------
(***************************************************************************)
(* Lifecycle::apply.                                                          *)
(***************************************************************************)

\* The largest of some numbers up to n + 1, of which n + 1 is one.
LEMMA MaxIsLast ==
    ASSUME NEW n \in Nat, NEW S \in SUBSET (1..n)
    PROVE  Max(S \cup {n + 1}) = n + 1
<1> DEFINE T == S \cup {n + 1}
<1>1. n + 1 \in T /\ \A y \in T : n + 1 >= y /\ y \in Nat
  OBVIOUS
<1>2. Max(T) \in T /\ \A y \in T : Max(T) >= y
  <2>1. \E x \in T : \A y \in T : x >= y
    BY <1>1
  <2> HIDE DEF T
  <2> QED BY <2>1 DEF Max
<1>3. Max(T) = n + 1
  <2> HIDE DEF T
  <2>1. Max(T) >= n + 1 /\ n + 1 >= Max(T) /\ Max(T) \in Nat
    BY <1>1, <1>2
  <2> QED BY <2>1
<1> QED BY <1>3

\* The amount to refund after another row is recorded.
LEMMA RefundAmountAfter ==
    ASSUME TypeOK, NEW q \in Quotes, NEW row \in Entries, log'[q] = Append(log[q], row)
    PROVE  RefundAmount(q)' = IF row.ev.kind \in Confirmations THEN Amount[row.ev.datum]
                                                               ELSE RefundAmount(q)
<1> DEFINE n == Len(log[q])
           S == ConfirmedEntries(q)
<1>1. /\ n \in Nat /\ \A i \in 1..n : log'[q][i] = log[q][i]
      /\ log'[q][n + 1] = row /\ 1..Len(log'[q]) = 1..n \cup {n + 1}
  <2>1. log[q] \in Seq(Entries)
    BY DEF TypeOK, StoreOK
  <2> QED BY <2>1, AppendedRow
<1>2. S \in SUBSET (1..n) /\ S = {i \in 1..n : log[q][i].ev.kind \in Confirmations}
  BY DEF ConfirmedEntries
<1>3. ConfirmedEntries(q)' = {i \in 1..Len(log'[q]) : log'[q][i].ev.kind \in Confirmations}
  BY DEF ConfirmedEntries
<1> HIDE DEF n, S
<1>4. CASE row.ev.kind \in Confirmations
  <2>1. ConfirmedEntries(q)' = S \cup {n + 1}
    BY <1>1, <1>2, <1>3, <1>4
  <2>2. Max(ConfirmedEntries(q)') = n + 1
    BY <1>1, <1>2, <2>1, MaxIsLast
  <2> QED BY <1>1, <1>4, <2>1, <2>2 DEF RefundAmount, HasConfirmed
<1>5. CASE row.ev.kind \notin Confirmations
  <2>1. ConfirmedEntries(q)' = S
    BY <1>1, <1>2, <1>3, <1>5
  <2>2. CASE S = {}
    BY <1>5, <2>1, <2>2 DEF RefundAmount, HasConfirmed, S
  <2>3. CASE S # {}
    <3>1. Max(S) \in 1..n
      BY <1>1, <1>2, <2>3, MaxOfBounded
    <3>2. log'[q][Max(S)] = log[q][Max(S)]
      BY <1>1, <3>1
    <3> QED BY <1>5, <2>1, <2>3, <3>2 DEF RefundAmount, HasConfirmed, S
  <2> QED BY <2>2, <2>3
<1> QED BY <1>4, <1>5

\* The deposit covers what the quote asks for exactly when lifecycle's bounds do not find
\* that it falls short.
LEMMA CoversIs ==
    ASSUME NEW q \in Quotes, NEW amount \in Nat
    PROVE  Covers(q, amount) <=> ~FallsShort(Terms[q], amount)
<1>1. Terms[q] \in [swapType : {"EXACT_INPUT", "FLEX_INPUT", "EXACT_OUTPUT", "ANY_INPUT"},
                    amountIn : Nat, minAmountIn : Nat, minAmountOut : Nat]
  BY ConstantsAssumption
<1>2. CASE Terms[q].swapType = "EXACT_INPUT"
  BY <1>1, <1>2 DEF Covers, FallsShort
<1>3. CASE Terms[q].swapType = "FLEX_INPUT"
  BY <1>1, <1>3 DEF Covers, FallsShort
<1>4. CASE Terms[q].swapType = "EXACT_OUTPUT"
  BY <1>1, <1>4 DEF Covers, FallsShort
<1>5. CASE Terms[q].swapType = "ANY_INPUT"
  BY <1>1, <1>5 DEF Covers, FallsShort
<1> QED BY <1>1, <1>2, <1>3, <1>4, <1>5

\* What apply makes of an event that it decides about: every edge is legal.
LEMMA Answered ==
    ASSUME AtEase, NEW t \in Tasks, pc[t] = "decide", NEW q \in Quotes, q = job[t].q,
           NEW ev \in Events, ev = job[t].ev
    PROVE  /\ Target(t) # NoTarget /\ MayRecord(status[q], Target(t))
           /\ ev.kind \in Confirmations =>
                Target(t) = IF Covers(q, Amount[ev.datum]) THEN "PENDING_DEPOSIT"
                                                           ELSE "INCOMPLETE_DEPOSIT"
<1>1. /\ ev.kind # "DEADLINE_EXPIRED"
      /\ ev.kind \in Detections \cup Confirmations
           => status[q] \in {"PENDING_DEPOSIT", "KNOWN_DEPOSIT_TX"}
      /\ ev.kind = "SETTLEMENT_INITIATED" => status[q] = "PENDING_DEPOSIT"
      /\ ev.kind \in {"SETTLEMENT_SUCCEEDED", "SLIPPAGE_EXCEEDED"} => status[q] = "PROCESSING"
  <2>1. SmoothAt(t, "decide", job[t])
    BY EaseKnown
  <2> QED BY <2>1 DEF SmoothAt, Asks, Holding, Applying, Awaiting, Processed
<1>2. ev.kind \in Detections \cup Confirmations \cup
                  {"SETTLEMENT_INITIATED", "SETTLEMENT_SUCCEEDED", "SLIPPAGE_EXCEEDED"}
  BY <1>1 DEF Events, SettlementKinds, Detections, Confirmations
<1>3. CASE ev.kind \in Detections
  <2>1. Target(t) = "KNOWN_DEPOSIT_TX"
    BY <1>3 DEF Target, TargetStatus, Detections, Confirmations
  <2> QED BY <1>1, <1>3, <2>1 DEF NoTarget, MayRecord, ValidTransitions, Detections, Confirmations
<1>4. CASE ev.kind \in Confirmations
  <2>1. ev.datum \in Deposits
    BY <1>4 DEF Events, SettlementKinds, Confirmations, Deposits
  <2>2. Covers(q, Amount[ev.datum]) <=> ~FallsShort(Terms[q], Amount[ev.datum])
    BY <2>1, CoversIs, ConstantsAssumption
  <2>3. Target(t) = IF Covers(q, Amount[ev.datum]) THEN "PENDING_DEPOSIT"
                                                   ELSE "INCOMPLETE_DEPOSIT"
    BY <1>4, <2>2 DEF Target, TargetStatus, Detections, Confirmations
  <2> QED BY <1>1, <1>4, <2>3 DEF NoTarget, MayRecord, ValidTransitions
<1>5. CASE ev.kind = "SETTLEMENT_INITIATED"
  <2>1. Target(t) = "PROCESSING"
    BY <1>5 DEF Target, TargetStatus, Detections, Confirmations
  <2> QED BY <1>1, <1>5, <2>1 DEF NoTarget, MayRecord, ValidTransitions, Confirmations
<1>6. CASE ev.kind = "SETTLEMENT_SUCCEEDED"
  <2>1. Target(t) = "SUCCESS"
    BY <1>6 DEF Target, TargetStatus, Detections, Confirmations
  <2> QED BY <1>1, <1>6, <2>1 DEF NoTarget, MayRecord, ValidTransitions, Confirmations
<1>7. CASE ev.kind = "SLIPPAGE_EXCEEDED"
  <2>1. Target(t) = "REFUNDED"
    BY <1>7 DEF Target, TargetStatus, Detections, Confirmations
  <2> QED BY <1>1, <1>7, <2>1 DEF NoTarget, MayRecord, ValidTransitions, Confirmations
<1> QED BY <1>2, <1>3, <1>4, <1>5, <1>6, <1>7

\* The steps of apply that leave the rows as they are go on with the same event.
LEMMA DecidesOnward ==
    ASSUME AtEase, NEW t \in Tasks, NEW q \in Quotes, q = job[t].q,
           NEW ev \in Events, ev = job[t].ev, ApplyAccepted(t) \/ ApplyAppend(t)
    PROVE  /\ OnlyMoves(t) /\ pc'[t] \in {"append", "record"} /\ pc[t] \in Applying
           /\ job'[t].q = q /\ job'[t].ev = ev
           /\ job'[t].ret = job[t].ret /\ job'[t].note = job[t].note
           /\ ev.kind \in Confirmations =>
                job'[t].to = IF Covers(q, Amount[ev.datum]) THEN "PENDING_DEPOSIT"
                                                            ELSE "INCOMPLETE_DEPOSIT"
<1>0. /\ TypeOK /\ SmoothAt(t, pc[t], job[t]) /\ job[t] \in Jobs
      /\ job \in [Tasks -> Jobs] /\ pc \in [Tasks -> Labels]
  BY EaseKnown DEF TypeOK, ProcessOK, TasksOK
<1>1. CASE ApplyAccepted(t)
  <2>1. /\ pc[t] = "decide" /\ ev.kind # "DEADLINE_EXPIRED"
    BY <1>0, <1>1 DEF ApplyAccepted, Decide, SmoothAt, Holding, Applying
  <2>2. /\ job' = [job EXCEPT ![t].from = status[q], ![t].to = Target(t)]
        /\ \E l \in {"append", "record"} : pc' = [pc EXCEPT ![t] = l]
    BY <1>1, <2>1 DEF ApplyAccepted, Decide
  <2>3. /\ OnlyMoves(t) /\ pc'[t] \in {"append", "record"}
        /\ job'[t].q = q /\ job'[t].ev = ev /\ job'[t].to = Target(t)
        /\ job'[t].ret = job[t].ret /\ job'[t].note = job[t].note
    BY <1>0, <2>2 DEF OnlyMoves, Jobs
  <2> QED BY <2>1, <2>3, Answered DEF Applying
<1>2. CASE ApplyAppend(t)
  <2>1. pc[t] = "append" /\ Goto(t, "record")
    BY <1>2 DEF ApplyAppend
  <2>2. OnlyMoves(t) /\ pc'[t] = "record" /\ job'[t] = job[t]
    BY <1>0, <2>1, MovesAlone
  <2> QED BY <1>0, <2>1, <2>2 DEF SmoothAt, Asks, Applying, Decided
<1> QED BY <1>1, <1>2

\* So they leave things smooth.
LEMMA DecidesSmoothly ==
    ASSUME AtEase, NEW t \in Tasks, ApplyAccepted(t) \/ ApplyAppend(t)
    PROVE  Smooth'
<1>1. PICK q \in Quotes, ev \in Events : q = job[t].q /\ ev = job[t].ev
  BY EaseKnown
<1>2. /\ OnlyMoves(t) /\ pc'[t] \in {"append", "record"} /\ pc[t] \in Applying
      /\ job'[t].q = q /\ job'[t].ev = ev
      /\ job'[t].ret = job[t].ret /\ job'[t].note = job[t].note
      /\ ev.kind \in Confirmations =>
           job'[t].to = IF Covers(q, Amount[ev.datum]) THEN "PENDING_DEPOSIT"
                                                       ELSE "INCOMPLETE_DEPOSIT"
  BY <1>1, DecidesOnward
<1>3. UNCHANGED <<status, log, keys, refunds, payouts, landed, expired, phase, todo>>
  BY DEF ApplyAccepted, Decide, ApplyAppend, store, rows, chains, Goto
<1>4. \A p \in Quotes : Stays(p)
  BY <1>3, AllStay
<1>5. SmoothAt(t, pc[t], job[t])
  BY EaseKnown
<1>6. /\ status'[q] = status[q] /\ refunds'[q] = refunds[q]
      /\ Taken(q)' <=> Taken(q)
      /\ Awaiting(q)' <=> Awaiting(q)
      /\ Unclaimed(q)' <=> Unclaimed(q)
      /\ Unresolved(q)' <=> Unresolved(q)
      /\ Agreed(q)' <=> Agreed(q)
      /\ Unpaid(q) => Unpaid(q)'
      /\ Processed(q)' <=> Processed(q)
      /\ \A key \in keys'[q] : Confirms(key) => key \in keys[q]
  BY <1>4, StaysSame
<1>7. SmoothAt(t, pc[t], job[t])'
  <2>1. Covers(q, Amount[ev.datum])' <=> Covers(q, Amount[ev.datum])
    BY DEF Covers
  <2>2. pc[t] \notin {"detect", "confirm"} /\ pc[t] # "idle"
    BY <1>2 DEF Applying, Decided
  <2>3. /\ t = Owner(q) \/ (Origin[q] = "evm" /\ ev.kind = "EVM_DEPOSIT_DETECTED")
        /\ ev.kind # "DEADLINE_EXPIRED"
        /\ job[t].ret \in NoteLabels => job[t].note \in landed /\ Takes(q, job[t].note)
        /\ ev.kind \in Detections => Awaiting(q)
        /\ ev.kind = "EVM_DEPOSIT_DETECTED" => status[q] = "PENDING_DEPOSIT" /\ job[t].ret = "idle"
        /\ ev.kind = "MIDEN_DEPOSIT_DETECTED" => job[t].ret = "confirm"
    BY <1>1, <1>2, <1>5, <2>2 DEF SmoothAt, Asks, Holding
  <2>4. ev.kind \in Confirmations =>
         /\ status[q] \in {"PENDING_DEPOSIT", "KNOWN_DEPOSIT_TX"}
         /\ Unclaimed(q) /\ refunds[q] = <<>>
         /\ \A key \in keys[q] : Confirms(key) => key = ev
         /\ ev.datum \in Foreign => Covers(q, Amount[ev.datum])
         /\ job[t].ret = "settle" \/ (job[t].ret = "consume" /\ ev.datum = job[t].note)
    BY <1>1, <1>2, <1>5, <2>2 DEF SmoothAt, Asks
  <2>5. /\ ev.kind = "SETTLEMENT_INITIATED" =>
             status[q] = "PENDING_DEPOSIT" /\ Agreed(q) /\ Unpaid(q) /\ job[t].ret = "reload"
        /\ ev.kind \in SettleKinds => Taken(q)
        /\ ev.kind \in {"SETTLEMENT_SUCCEEDED", "SLIPPAGE_EXCEEDED"}
             => Processed(q) /\ job[t].ret = "idle"
        /\ ev.kind = "SETTLEMENT_INITIATED" => Unresolved(q)
        /\ ev.kind = "SLIPPAGE_EXCEEDED" => Agreed(q) /\ Unpaid(q)
    BY <1>1, <1>2, <1>5, <2>2 DEF SmoothAt, Asks
  <2>6. Takes(q, job[t].note)' <=> Takes(q, job[t].note)
    BY <1>2 DEF Takes
  <2> QED BY <1>2, <1>3, <1>6, <2>1, <2>3, <2>4, <2>5, <2>6
          DEF SmoothAt, Asks, Holding, Applying, Decided, Repaying, NoteLabels, Keeping, Consuming,
              Settling, Refunding, Owner
<1> QED BY <1>1, <1>2, <1>3, <1>4, <1>7, WorksQuietly DEF Applying, Decided

\* The status each kind of event asks for.
LEMMA StatusAsked ==
    ASSUME NEW kind, NEW from, NEW short
    PROVE  LET to == TargetStatus(kind, from, short) IN
           /\ kind \in Detections => to = "KNOWN_DEPOSIT_TX"
           /\ kind = "SETTLEMENT_INITIATED" => to = "PROCESSING"
           /\ kind = "SETTLEMENT_SUCCEEDED" => to = "SUCCESS"
           /\ kind = "SLIPPAGE_EXCEEDED" => to = "REFUNDED"
BY DEF TargetStatus, Detections, Confirmations

\* What apply records, and where it goes on.
LEMMA RecordsRow ==
    ASSUME AtEase, NEW t \in Tasks, ApplyRecord(t), NEW q \in Quotes, q = job[t].q,
           NEW ev \in Events, ev = job[t].ev
    PROVE  /\ OnlyMoves(t) /\ pc[t] = "record" /\ ev \in keys[q] /\ ev.kind # "DEADLINE_EXPIRED"
           /\ UNCHANGED <<keys, refunds, payouts, landed, expired, phase, todo>>
           /\ \A p \in Quotes \ {q} : Stays(p) /\ keys'[p] = keys[p]
           /\ RefundAmount(q)' = IF ev.kind \in Confirmations THEN Amount[ev.datum]
                                                              ELSE RefundAmount(q)
           /\ status'[q] = job[t].to
           /\ ev.kind \in Detections => job[t].to = "KNOWN_DEPOSIT_TX"
           /\ ev.kind \in Confirmations =>
                job[t].to = IF Covers(q, Amount[ev.datum]) THEN "PENDING_DEPOSIT"
                                                           ELSE "INCOMPLETE_DEPOSIT"
           /\ ev.kind = "SETTLEMENT_INITIATED" => job[t].to = "PROCESSING"
           /\ ev.kind = "SETTLEMENT_SUCCEEDED" => job[t].to = "SUCCESS"
           /\ ev.kind = "SLIPPAGE_EXCEEDED" => job[t].to = "REFUNDED"
           /\ IF OwesRefund(ev.kind, job[t].to)
                THEN pc'[t] = "refundSend" /\ job'[t] = job[t]
                ELSE /\ pc'[t] = job[t].ret /\ job'[t].ret = "idle"
                     /\ job[t].ret # "idle" => job'[t].q = q /\ job'[t].note = job[t].note
<1>0. /\ TypeOK /\ WellGrounded /\ OneOwnerPerEvent
      /\ SmoothAt(t, pc[t], job[t])
  BY EaseKnown
<1>1. PICK row \in Entries : row.ev = ev /\ row.to = job[t].to /\ RecordEvent(q, row)
  <2>1. /\ Entry(job[t].ev, job[t].from, job[t].to, job[t].reason) \in Entries
        /\ RecordEvent(q, Entry(job[t].ev, job[t].from, job[t].to, job[t].reason))
    BY <1>0, RecordShape
  <2> QED BY <2>1 DEF Entry
<1>2. /\ pc[t] = "record" /\ OnlyMoves(t)
      /\ UNCHANGED <<keys, refunds, payouts, landed, expired, phase>>
  BY <1>0, RecordShape DEF ApplyRecord, chains
<1>3. /\ status'[q] = job[t].to /\ log'[q] = Append(log[q], row)
      /\ \A p \in Quotes \ {q} : log'[p] = log[p] /\ status'[p] = status[p]
  BY <1>0, <1>1, RecordGrows
<1>4. ev \in keys[q] /\ ev.kind # "DEADLINE_EXPIRED"
  BY <1>0, <1>2, CarriedStands DEF SmoothAt, Holding, Applying, Decided
<1>5. \A p \in Quotes \ {q} : Stays(p) /\ keys'[p] = keys[p]
  BY <1>2, <1>3, StaysPut
<1>6. RefundAmount(q)' = IF ev.kind \in Confirmations THEN Amount[ev.datum] ELSE RefundAmount(q)
  BY <1>0, <1>1, <1>3, RefundAmountAfter
<1>7. /\ ev.kind \in Detections => job[t].to = "KNOWN_DEPOSIT_TX"
      /\ ev.kind = "SETTLEMENT_INITIATED" => job[t].to = "PROCESSING"
      /\ ev.kind = "SETTLEMENT_SUCCEEDED" => job[t].to = "SUCCESS"
      /\ ev.kind = "SLIPPAGE_EXCEEDED" => job[t].to = "REFUNDED"
  <2>1. PICK short \in BOOLEAN : job[t].to = TargetStatus(ev.kind, job[t].from, short)
    BY <1>0, <1>2, OwnersKnown DEF Justified, Decided
  <2> QED BY <2>1, StatusAsked
<1>8. ev.kind \in Confirmations =>
        job[t].to = IF Covers(q, Amount[ev.datum]) THEN "PENDING_DEPOSIT"
                                                   ELSE "INCOMPLETE_DEPOSIT"
  BY <1>0, <1>2 DEF SmoothAt, Asks, Applying, Decided
<1>9. /\ todo' = todo
      /\ IF OwesRefund(ev.kind, job[t].to)
           THEN pc'[t] = "refundSend" /\ job'[t] = job[t]
           ELSE /\ pc'[t] = job[t].ret /\ job'[t].ret = "idle"
                /\ job[t].ret # "idle" => job'[t].q = q /\ job'[t].note = job[t].note
  <2>1. CASE OwesRefund(ev.kind, job[t].to)
    <3>1. Goto(t, "refundSend")
      BY <2>1, <1>4 DEF ApplyRecord
    <3> QED BY <1>0, <2>1, <3>1, MovesAlone DEF Goto
  <2>2. CASE ~OwesRefund(ev.kind, job[t].to)
    <3>1. Return(t)
      BY <2>2, <1>4 DEF ApplyRecord
    <3> QED BY <1>0, <2>2, <3>1, MovesAlone, JobsMove DEF Return
  <2> QED BY <2>1, <2>2
<1> QED BY <1>2, <1>3, <1>4, <1>5, <1>6, <1>7, <1>8, <1>9

\* What a row changes of a quote whose keys, refunds and deposits stay.
LEMMA RowChanges ==
    ASSUME NEW q \in Quotes, UNCHANGED <<keys, refunds, payouts, landed>>
    PROVE  /\ PaidIn'[q] = PaidIn[q] /\ refunds'[q] = refunds[q]
           /\ Taken(q)' <=> Taken(q)
           /\ Unclaimed(q)' <=> Unclaimed(q)
           /\ Unresolved(q)' <=> Unresolved(q)
           /\ Unpaid(q)' <=> Unpaid(q)
           /\ Detects(q)' <=> Detects(q)
           /\ Covers(q, PaidIn[q])' <=> Covers(q, PaidIn[q])
<1>1. PaidIn'[q] = PaidIn[q]
  <2>1. Payments(q)' = Payments(q)
    BY DEF Payments, Counts, Takes
  <2> QED BY <2>1 DEF PaidIn
<1> QED BY <1>1 DEF Taken, Unclaimed, Unresolved, Unpaid, Detects, Covers

\* The row of a detected deposit.
LEMMA DetectionRecorded ==
    ASSUME AtEase, NEW t \in Tasks, ApplyRecord(t), job[t].ev.kind \in Detections
    PROVE  Smooth'
<1>1. PICK q \in Quotes, ev \in Events : q = job[t].q /\ ev = job[t].ev
  BY EaseKnown
<1>2. /\ OnlyMoves(t) /\ pc[t] = "record" /\ ev \in keys[q]
      /\ UNCHANGED <<keys, refunds, payouts, landed, expired, phase, todo>>
      /\ \A p \in Quotes \ {q} : Stays(p) /\ keys'[p] = keys[p]
      /\ status'[q] = "KNOWN_DEPOSIT_TX"
      /\ ~OwesRefund(ev.kind, job[t].to)
      /\ pc'[t] = job[t].ret /\ job'[t].ret = "idle"
      /\ job[t].ret # "idle" => job'[t].q = q /\ job'[t].note = job[t].note
  <2>1. ~OwesRefund(ev.kind, job[t].to)
    BY <1>1 DEF OwesRefund, Detections, Confirmations
  <2> QED BY <1>1, <2>1, RecordsRow
<1>3. /\ SmoothAt(t, "record", job[t]) /\ Grounded(t, "record", job[t]) /\ SmoothRows(q)
  BY <1>2, EaseKnown
<1>4. /\ Awaiting(q) /\ ~Taken(q)
      /\ ev.kind = "EVM_DEPOSIT_DETECTED" => job[t].ret = "idle"
      /\ ev.kind = "MIDEN_DEPOSIT_DETECTED" =>
           job[t].ret = "confirm" /\ t = Owner(q) /\ Origin[q] = "miden"
      /\ job[t].ret \in NoteLabels => job[t].note \in landed /\ Takes(q, job[t].note)
  BY <1>1, <1>3 DEF SmoothAt, Grounded, Asks, Applying, Decided, NoteLabels, Awaiting, Detections
<1>5. /\ ~Taken(q)' /\ Unclaimed(q)' /\ refunds'[q] = <<>> /\ Awaiting(q)'
      /\ Origin[q] = "evm" => Detects(q)'
  <2>1. (Taken(q)' <=> Taken(q)) /\ (Unclaimed(q)' <=> Unclaimed(q)) /\ refunds'[q] = refunds[q]
    BY <1>2, RowChanges
  <2>2. Origin[q] = "evm" => ev.kind = "EVM_DEPOSIT_DETECTED"
    BY <1>1, <1>4 DEF Detections
  <2> QED BY <1>2, <1>3, <1>4, <2>1, <2>2 DEF SmoothRows, Awaiting, Detects
<1>6. SmoothRows(q)'
  BY <1>2, <1>5 DEF SmoothRows
<1>7. SmoothAt(t, pc[t], job[t])'
  <2>1. CASE ev.kind = "EVM_DEPOSIT_DETECTED"
    BY <1>2, <1>4, <2>1 DEF SmoothAt
  <2>2. CASE ev.kind = "MIDEN_DEPOSIT_DETECTED"
    BY <1>2, <1>4, <1>5, <2>2
       DEF SmoothAt, Asks, Holding, Applying, Decided, Repaying, NoteLabels, Keeping, Consuming,
           Settling, Refunding, Owner, Takes
  <2> QED BY <1>1, <2>1, <2>2 DEF Detections
<1> QED BY <1>1, <1>2, <1>6, <1>7, WorksSmoothly

\* The row of a confirmed deposit.
LEMMA ConfirmationRecorded ==
    ASSUME AtEase, NEW t \in Tasks, ApplyRecord(t), job[t].ev.kind \in Confirmations
    PROVE  Smooth'
<1>1. PICK q \in Quotes, ev \in Events : q = job[t].q /\ ev = job[t].ev
  BY EaseKnown
<1> DEFINE covers == Covers(q, Amount[ev.datum])
<1>2. /\ OnlyMoves(t) /\ pc[t] = "record" /\ ev \in keys[q] /\ ev.kind # "DEADLINE_EXPIRED"
      /\ UNCHANGED <<keys, refunds, payouts, landed, expired, phase, todo>>
      /\ \A p \in Quotes \ {q} : Stays(p) /\ keys'[p] = keys[p]
      /\ RefundAmount(q)' = Amount[ev.datum]
      /\ status'[q] = IF covers THEN "PENDING_DEPOSIT" ELSE "INCOMPLETE_DEPOSIT"
  BY <1>1, RecordsRow
<1>3. IF covers THEN /\ pc'[t] = job[t].ret /\ job'[t].ret = "idle"
                     /\ job[t].ret # "idle" => job'[t].q = q /\ job'[t].note = job[t].note
                ELSE pc'[t] = "refundSend" /\ job'[t] = job[t]
  <2>1. OwesRefund(ev.kind, job[t].to) <=> ~covers
    <3>1. job[t].to = IF covers THEN "PENDING_DEPOSIT" ELSE "INCOMPLETE_DEPOSIT"
      BY <1>1, RecordsRow
    <3> QED BY <1>1, <3>1 DEF OwesRefund, Confirmations
  <2> QED BY <1>1, <2>1, RecordsRow
<1>4. /\ SmoothAt(t, "record", job[t]) /\ Grounded(t, "record", job[t]) /\ SmoothRows(q)
      /\ CalmAt("record", job[t]) /\ CalmRows(q) /\ Stands(q, ev)
  BY <1>1, <1>2, EaseKnown, PeaceKnown DEF AtEase, WellGrounded
<1>5. /\ t = Owner(q) /\ Unclaimed(q) /\ refunds[q] = <<>>
      /\ \A key \in keys[q] : Confirms(key) => key = ev
      /\ ev.datum \in Foreign => covers
      /\ job[t].ret = "settle" \/ (job[t].ret = "consume" /\ ev.datum = job[t].note)
      /\ job[t].ret \in NoteLabels => job[t].note \in landed /\ Takes(q, job[t].note)
  BY <1>1, <1>4 DEF SmoothAt, Asks, Applying, Decided, Confirmations
<1>6. /\ PaidIn'[q] = PaidIn[q] /\ refunds'[q] = <<>> /\ Unclaimed(q)'
      /\ Taken(q)' <=> Taken(q)
      /\ Detects(q)' <=> Detects(q)
      /\ Unpaid(q)' /\ (Covers(q, PaidIn[q])' <=> Covers(q, PaidIn[q]))
  <2>1. Unpaid(q)
    BY <1>4, <1>5 DEF CalmRows, Unclaimed, Unpaid
  <2> QED BY <1>2, <1>5, <2>1, RowChanges
<1>7. CASE ev.datum \notin Foreign
  <2>1. Confirms(ev) /\ Taken(q) /\ Taken(q)'
    BY <1>1, <1>2, <1>6, <1>7 DEF Confirms, Taken
  <2>2. PaidIn[q] = Amount[ev.datum]
    BY <1>2, <2>1, TakenPays
  <2>3. Repayable(q)' /\ (covers => Agreed(q)')
    BY <1>2, <1>6, <2>2 DEF Repayable, Agreed
  <2>4. covers => Accepted(q)'
    BY <1>2, <1>6, <2>3 DEF Accepted
  <2>5. ~covers => TurnedDown(q)'
    BY <1>2, <1>6 DEF TurnedDown
  <2>6. SmoothAt(t, pc[t], job[t])'
    <3>1. CASE covers /\ job[t].ret = "settle"
      BY <1>2, <1>3, <1>5, <2>1, <2>4, <3>1
         DEF SmoothAt, Asks, Holding, Applying, Decided, Repaying, NoteLabels, Keeping, Consuming,
             Settling, Refunding, Owner
    <3>2. CASE covers /\ job[t].ret = "consume"
      BY <1>2, <1>3, <1>5, <1>7, <2>1, <2>4, <3>2
         DEF SmoothAt, Asks, Holding, Applying, Decided, Repaying, NoteLabels, Keeping, Consuming,
             Settling, Refunding, Owner, Takes
    <3>3. CASE ~covers
      BY <1>1, <1>2, <1>3, <1>5, <1>6, <1>7, <2>1, <2>3, <2>5, <3>3
         DEF SmoothAt, Asks, Holding, Applying, Decided, Repaying, NoteLabels, Keeping, Consuming,
             Settling, Refunding, Owner, Takes
    <3> QED BY <1>5, <3>1, <3>2, <3>3
  <2>7. SmoothRows(q)'
    <3>1. /\ ~(Left(q)' /\ pc'[t] # "idle" /\ job'[t].q = q)
      BY <1>5 DEF Left, Owner
    <3>2. Detects(q) => Detects(q)'
      BY <1>6
    <3> QED BY <1>1, <1>3, <1>4, <1>5, <1>6, <2>1, <3>1, <3>2 DEF SmoothRows
  <2>8. pc'[t] # "idle" => job'[t].q = q
    BY <1>1, <1>3
  <2> QED BY <1>1, <1>2, <2>6, <2>7, <2>8, WorksSmoothly
<1>8. CASE ev.datum \in Foreign
  <2>1. covers /\ job[t].ret # "settle"
    <3>1. Origin[q] = "evm" => FALSE
      <4> SUFFICES ASSUME Origin[q] = "evm" PROVE FALSE
        OBVIOUS
      <4>1. Funded(q) /\ ev = Confirmed(FirstTx(q))
        BY <1>1, <1>4 DEF Stands, FundedKinds
      <4>2. FirstTx(q) \in Txs
        BY <4>1, EaseKnown, FirstTxTyped DEF Funded, TypeOK
      <4> QED BY <1>8, <4>1, <4>2, EaseKnown, ConstantsAssumption DEF Undisturbed, Confirmed, Event
    <3> QED BY <1>1, <1>4, <1>5, <1>8, <3>1 DEF CalmAt
  <2>2. ~Taken(q) /\ Awaiting(q)'
    BY <1>2, <1>5, <1>6, <1>8, <2>1 DEF Taken, Confirms, Awaiting
  <2>3. SmoothAt(t, pc[t], job[t])'
    BY <1>2, <1>3, <1>5, <1>8, <2>1, <2>2
       DEF SmoothAt, Asks, Holding, Applying, Decided, Repaying, NoteLabels, Keeping, Consuming,
           Settling, Refunding, Owner, Takes
  <2>4. SmoothRows(q)'
    <3>1. Origin[q] = "miden"
      BY <1>1, <1>4, <1>5, <2>1 DEF Grounded, NoteLabels
    <3> QED BY <1>2, <1>6, <2>1, <2>2, <3>1 DEF SmoothRows
  <2> QED BY <1>1, <1>2, <1>3, <1>5, <2>1, <2>3, <2>4, WorksSmoothly
<1> QED BY <1>7, <1>8

\* The rows of settlement: the claim, the payout and the refund of a price that moved.
LEMMA SettlementRecorded ==
    ASSUME AtEase, NEW t \in Tasks, ApplyRecord(t), job[t].ev.kind \in SettleKinds
    PROVE  Smooth'
<1>1. PICK q \in Quotes, ev \in Events : q = job[t].q /\ ev = job[t].ev
  BY EaseKnown
<1>2. /\ OnlyMoves(t) /\ pc[t] = "record" /\ ev \in keys[q] /\ ev.kind # "DEADLINE_EXPIRED"
      /\ UNCHANGED <<keys, refunds, payouts, landed, expired, phase, todo>>
      /\ \A p \in Quotes \ {q} : Stays(p) /\ keys'[p] = keys[p]
      /\ RefundAmount(q)' = RefundAmount(q)
      /\ ev.kind = "SETTLEMENT_INITIATED" => status'[q] = "PROCESSING"
      /\ ev.kind = "SETTLEMENT_SUCCEEDED" => status'[q] = "SUCCESS"
      /\ ev.kind = "SLIPPAGE_EXCEEDED" => status'[q] = "REFUNDED"
  BY <1>1, RecordsRow DEF SettleKinds, Confirmations
<1>3. IF ev.kind = "SLIPPAGE_EXCEEDED"
        THEN pc'[t] = "refundSend" /\ job'[t] = job[t]
        ELSE /\ pc'[t] = job[t].ret /\ job'[t].ret = "idle"
             /\ job[t].ret # "idle" => job'[t].q = q
  <2>1. OwesRefund(ev.kind, job[t].to) <=> ev.kind = "SLIPPAGE_EXCEEDED"
    BY <1>1 DEF OwesRefund, Confirmations, SettleKinds
  <2> QED BY <1>1, <2>1, RecordsRow
<1>4. SmoothAt(t, "record", job[t]) /\ SmoothRows(q)
  BY <1>1, <1>2, EaseKnown
<1>5. /\ t = Owner(q) /\ Taken(q)
      /\ ev.kind = "SETTLEMENT_INITIATED" =>
           Agreed(q) /\ Unpaid(q) /\ Unresolved(q) /\ job[t].ret = "reload"
      /\ ev.kind \in {"SETTLEMENT_SUCCEEDED", "SLIPPAGE_EXCEEDED"} => job[t].ret = "idle"
      /\ ev.kind = "SLIPPAGE_EXCEEDED" => Agreed(q) /\ Unpaid(q)
  BY <1>1, <1>4 DEF SmoothAt, Asks, Applying, Decided, SettleKinds
<1>6. /\ PaidIn'[q] = PaidIn[q] /\ refunds'[q] = refunds[q]
      /\ Taken(q)' /\ (Detects(q)' <=> Detects(q))
      /\ Unresolved(q)' <=> Unresolved(q)
      /\ Unpaid(q)' <=> Unpaid(q)
      /\ Covers(q, PaidIn[q])' <=> Covers(q, PaidIn[q])
  BY <1>2, <1>5, RowChanges
<1>7. (Agreed(q)' <=> Agreed(q)) /\ (Agreed(q) => Repayable(q)')
  BY <1>2, <1>6 DEF Agreed, Repayable
<1>8. SmoothRows(q)'
  <2>1. ~(Left(q)' /\ pc'[t] # "idle" /\ job'[t].q = q)
    BY <1>5 DEF Left, Owner
  <2>2. pc'[t] = "idle" => status'[q] \in TerminalStatuses
    BY <1>1, <1>2, <1>3, <1>5 DEF SettleKinds, TerminalStatuses
  <2>3. pc'[t] # "idle" => job'[t].q = q
    BY <1>1, <1>3
  <2> QED BY <1>4, <1>5, <1>6, <2>1, <2>2, <2>3 DEF SmoothRows
<1>9. SmoothAt(t, pc[t], job[t])'
  <2>1. CASE ev.kind = "SETTLEMENT_INITIATED"
    <3>1. Processed(q)' /\ Agreed(q)' /\ Unpaid(q)' /\ Unresolved(q)'
      BY <1>2, <1>5, <1>6, <1>7, <2>1 DEF Processed
    <3> QED BY <1>2, <1>3, <1>5, <1>6, <2>1, <3>1
            DEF SmoothAt, Asks, Holding, Applying, Decided, Repaying, NoteLabels, Keeping,
                Consuming, Settling, Refunding, Owner
  <2>2. CASE ev.kind = "SETTLEMENT_SUCCEEDED"
    BY <1>3, <1>5, <2>2 DEF SmoothAt
  <2>3. CASE ev.kind = "SLIPPAGE_EXCEEDED"
    <3>1. Repayable(q)' /\ Unpaid(q)' /\ job'[t].ev.kind = "SLIPPAGE_EXCEEDED"
      BY <1>1, <1>3, <1>5, <1>6, <1>7, <2>3
    <3> QED BY <1>1, <1>2, <1>3, <1>5, <1>6, <2>3, <3>1
            DEF SmoothAt, Asks, Holding, Applying, Decided, Repaying, NoteLabels, Keeping,
                Consuming, Settling, Refunding, Owner
  <2> QED BY <1>1, <2>1, <2>2, <2>3 DEF SettleKinds
<1> QED BY <1>1, <1>2, <1>3, <1>5, <1>8, <1>9, WorksSmoothly

\* The steps of apply.
LEMMA ApplySmooth ==
    ASSUME AtEase, NEW t \in Tasks, Apply(t)
    PROVE  Smooth'
<1>0. /\ SmoothAt(t, pc[t], job[t]) /\ Grounded(t, pc[t], job[t])
      /\ job[t].q \in Quotes /\ job[t].ev \in Events
  BY EaseKnown
<1>1. CASE pc[t] = "decide"
  <2>1. Target(t) # NoTarget /\ MayRecord(status[job[t].q], Target(t))
    BY <1>0, <1>1, Answered
  <2> QED BY <1>1, <2>1, DecidesSmoothly
          DEF Apply, ApplyIgnored, ApplyRejected, ApplyReason, ApplyAppend, ApplyRecord,
              RefundNotOwed
<1>2. CASE pc[t] = "append"
  BY <1>2, DecidesSmoothly
     DEF Apply, ApplyIgnored, ApplyRejected, ApplyReason, ApplyAccepted, Decide, ApplyRecord,
         RefundNotOwed
<1>3. CASE pc[t] = "record"
  <2>1. job[t].ev.kind # "DEADLINE_EXPIRED"
    BY <1>0, <1>3 DEF SmoothAt, Holding, Applying, Decided
  <2>2. job[t].ev.kind \in Detections \cup Confirmations \cup SettleKinds
    BY <1>0, <2>1 DEF Events, SettlementKinds, Detections, Confirmations, SettleKinds
  <2>3. ApplyRecord(t)
    BY <1>3 DEF Apply, ApplyIgnored, ApplyRejected, ApplyReason, ApplyAccepted, Decide,
                ApplyAppend, RefundNotOwed
  <2> QED BY <2>2, <2>3, DetectionRecorded, ConfirmationRecorded, SettlementRecorded
<1>4. CASE pc[t] \in {"reason", "refundCheck"}
  BY <1>0, <1>4 DEF SmoothAt, Grounded, Holding, Applying, Decided, Repaying
<1> QED BY <1>1, <1>2, <1>3, <1>4
        DEF Apply, ApplyIgnored, ApplyRejected, ApplyAccepted, Decide, ApplyReason, ApplyAppend,
            ApplyRecord, RefundNotOwed

-----------------------------------------------------------------------------
(***************************************************************************)
(* The steps with a note.                                                     *)
(***************************************************************************)

\* The poller at a step with a note.
LEMMA NoteKnown ==
    ASSUME AtEase, NEW t \in Tasks, pc[t] \in NoteLabels, NEW q \in Quotes, q = job[t].q,
           NEW n, n = job[t].note
    PROVE  /\ t = "poller" /\ t = Owner(q) /\ Origin[q] = "miden" /\ PaysTo[n] = q
           /\ n \in Notes \cap landed /\ Takes(q, n)
           /\ pc[t] \in {"detect", "confirm"} => Awaiting(q)
           /\ pc[t] \in Keeping => IF n \in Foreign
                                     THEN Awaiting(q)
                                     ELSE Taken(q) /\ (Accepted(q) \/ TurnedDown(q))
           /\ pc[t] # "idle" /\ pc[t] \notin Applying
<1>1. /\ t = "poller" /\ Origin[q] = "miden" /\ PaysTo[n] = q /\ n \in Notes
  BY EaseKnown, NoteHeld
<1>2. pc[t] # "idle" /\ pc[t] \notin Applying
  BY DEF NoteLabels, Applying, Decided
<1>3. SmoothAt(t, pc[t], job[t])
  BY EaseKnown
<1> QED BY <1>1, <1>2, <1>3 DEF SmoothAt, Owner

\* With a note in hand the poller goes on to another step, or settles when it is the quote's.
LEMMA KeepsNote ==
    ASSUME AtEase, NEW t \in Tasks, pc[t] \in Keeping, NEW q \in Quotes, q = job[t].q,
           OnlyMoves(t), pc'[t] \in Keeping \cup {"settle"}, job'[t].q = q,
           job'[t].note = job[t].note, pc'[t] = "settle" => job[t].note \notin Foreign,
           UNCHANGED <<status, log, refunds, payouts, landed, expired, phase, todo>>,
           keys' = keys \/ BurnKey(q, ConsumeKey(job[t].note))
    PROVE  Smooth'
<1>1. PICK n : n = job[t].note
  OBVIOUS
<1>2. /\ t = "poller" /\ t = Owner(q) /\ n \in landed /\ Takes(q, n) /\ pc[t] # "idle"
      /\ IF n \in Foreign THEN Awaiting(q) ELSE Taken(q) /\ (Accepted(q) \/ TurnedDown(q))
  <2>1. pc[t] \in NoteLabels
    BY DEF Keeping, Consuming, NoteLabels
  <2> QED BY <1>1, <2>1, NoteKnown
<1>3. /\ \A p \in Quotes \ {q} : keys'[p] = keys[p]
      /\ keys[q] \subseteq keys'[q]
      /\ \A key \in keys'[q] \ keys[q] : key.kind = "miden_consume"
  <2>1. ConsumeKey(n).kind = "miden_consume"
    BY DEF ConsumeKey, Event
  <2> QED BY <1>1, <2>1, EaseKnown, KeyBurns
<1>4. \A p \in Quotes : keys[p] \subseteq keys'[p] /\
           \A key \in keys'[p] \ keys[p] : key.kind \notin FundedKinds
  BY <1>3 DEF FundedKinds, SettleKinds, Confirmations
<1>5. \A p \in Quotes : Stays(p)
  BY <1>4, AllStay
<1>6. IF n \in Foreign THEN Awaiting(q)' ELSE Taken(q)' /\ (Accepted(q)' \/ TurnedDown(q)')
  BY <1>2, <1>5, StaysSame
<1>7. SmoothAt(t, pc[t], job[t])'
  BY <1>1, <1>2, <1>6
     DEF SmoothAt, Asks, Holding, Applying, Decided, Repaying, NoteLabels, Keeping, Consuming,
         Settling, Refunding, Owner, Takes
<1>8. /\ pc'[t] # "idle"
      /\ \A key \in keys'[q] \ keys[q] : key.kind # "EVM_DEPOSIT_DETECTED"
  BY <1>3 DEF Keeping, Consuming
<1> QED BY <1>2, <1>3, <1>5, <1>7, <1>8, WorksQuietly

\* A found note is told to apply, once.
LEMMA FoundSmoothly ==
    ASSUME AtEase, NEW t \in Tasks, NoteFound(t)
    PROVE  Smooth'
<1>1. PICK q \in Quotes, n \in {job[t].note} : q = job[t].q
  BY EaseKnown
<1>2. pc[t] = "detect" /\ pc[t] \in NoteLabels
  BY DEF NoteFound, NoteLabels
<1>3. /\ t = "poller" /\ t = Owner(q) /\ Origin[q] = "miden"
      /\ n \in Notes \cap landed /\ Takes(q, n) /\ Awaiting(q) /\ pc[t] # "idle"
  BY <1>1, <1>2, NoteKnown
<1>4. PICK ev \in Events : ev = NoteDetected(n) /\ ev.kind = "MIDEN_DEPOSIT_DETECTED"
  BY <1>3, EventsTyped DEF NoteDetected, Event
<1>5. /\ CallApply(t, q, ev, "confirm")
      /\ UNCHANGED <<status, log, refunds, payouts, landed, expired, phase, todo>>
  BY <1>1, <1>4 DEF NoteFound, rows, chains
<1>6. /\ OnlyMoves(t) /\ job'[t].q = q /\ job'[t].note = n
      /\ \A p \in Quotes \ {q} : keys'[p] = keys[p]
      /\ \/ pc'[t] = "confirm" /\ keys' = keys
         \/ pc'[t] = "decide" /\ job'[t].ev = ev /\ job'[t].ret = "confirm"
              /\ keys'[q] = keys[q] \cup {ev}
  <2>1. CASE ev \in keys[q]
    <3>1. Continue(t, q, "confirm") /\ keys' = keys
      BY <1>5, <2>1 DEF CallApply
    <3> QED BY <1>1, <3>1, EaseKnown, MovesAlone, JobsMove
  <2>2. CASE ev \notin keys[q]
    BY <1>1, <1>5, <2>2, EaseKnown, CallsAnew
  <2> QED BY <2>1, <2>2
<1>7. \A p \in Quotes : keys[p] \subseteq keys'[p] /\
           \A key \in keys'[p] \ keys[p] : key.kind = "MIDEN_DEPOSIT_DETECTED"
  BY <1>4, <1>6
<1>8. \A p \in Quotes : Stays(p)
  <2>1. \A p \in Quotes : keys[p] \subseteq keys'[p] /\
             \A key \in keys'[p] \ keys[p] : key.kind \notin FundedKinds
    BY <1>7 DEF FundedKinds, SettleKinds, Confirmations
  <2> QED BY <1>5, <2>1, AllStay
<1>9. Awaiting(q)'
  BY <1>3, <1>8, StaysSame
<1>10. SmoothAt(t, pc[t], job[t])'
  BY <1>3, <1>4, <1>5, <1>6, <1>9
     DEF SmoothAt, Asks, Holding, Applying, Decided, Repaying, NoteLabels, Keeping, Consuming,
         Settling, Refunding, Owner, Takes, SettleKinds, Confirmations
<1> QED BY <1>1, <1>3, <1>5, <1>6, <1>7, <1>8, <1>10, WorksQuietly

\* Then it is confirmed, once.
LEMMA CountedSmoothly ==
    ASSUME AtEase, NEW t \in Tasks, NoteCounted(t)
    PROVE  Smooth'
<1>1. PICK q \in Quotes, n \in {job[t].note} : q = job[t].q
  BY EaseKnown
<1>2. pc[t] = "confirm" /\ pc[t] \in NoteLabels
  BY DEF NoteCounted, NoteLabels
<1>3. /\ t = "poller" /\ t = Owner(q) /\ Origin[q] = "miden" /\ PaysTo[n] = q
      /\ n \in Notes \cap landed /\ Takes(q, n) /\ Awaiting(q) /\ pc[t] # "idle"
  BY <1>1, <1>2, NoteKnown
<1>4. PICK ev \in Events : ev = NoteConfirmed(n) /\ ev.kind \in Confirmations /\ ev.datum = n
                           /\ ev.kind = "MIDEN_DEPOSIT_CONFIRMED"
  BY <1>3, EventsTyped DEF NoteConfirmed, Event, Confirmations
<1>5. /\ CallApply(t, q, ev, "consume")
      /\ UNCHANGED <<status, log, refunds, payouts, landed, expired, phase, todo>>
  BY <1>1, <1>4 DEF NoteCounted, rows, chains
<1>6. SmoothRows(q) /\ ~Taken(q) /\ Unclaimed(q) /\ refunds[q] = <<>>
  BY <1>3, EaseKnown DEF SmoothRows, Awaiting
<1>7. CASE ev \in keys[q]
  <2>1. n \in Foreign
    BY <1>4, <1>6, <1>7 DEF Taken, Confirms
  <2>2. /\ OnlyMoves(t) /\ pc'[t] = "consume" /\ keys' = keys
        /\ job'[t].q = q /\ job'[t].note = n
    <3>1. Continue(t, q, "consume") /\ keys' = keys
      BY <1>5, <1>7 DEF CallApply
    <3> QED BY <1>1, <3>1, EaseKnown, MovesAlone, JobsMove
  <2>3. \A p \in Quotes : Stays(p)
    BY <1>5, <2>2, AllStay
  <2>4. Awaiting(q)'
    BY <1>3, <2>3, StaysSame
  <2>5. SmoothAt(t, pc[t], job[t])'
    BY <1>3, <1>5, <2>1, <2>2, <2>4
       DEF SmoothAt, Asks, Holding, Applying, Decided, Repaying, NoteLabels, Keeping, Consuming,
           Settling, Refunding, Owner, Takes
  <2> QED BY <1>1, <1>3, <1>5, <2>2, <2>3, <2>5, WorksQuietly
<1>8. CASE ev \notin keys[q]
  <2>1. /\ OnlyMoves(t) /\ pc'[t] = "decide"
        /\ job'[t].q = q /\ job'[t].ev = ev /\ job'[t].ret = "consume" /\ job'[t].note = n
        /\ keys'[q] = keys[q] \cup {ev}
        /\ \A p \in Quotes \ {q} : keys'[p] = keys[p]
    BY <1>1, <1>5, <1>8, EaseKnown, CallsAnew
  <2>2. \A p \in Quotes \ {q} : Stays(p) /\ keys'[p] = keys[p]
    BY <1>5, <2>1, StaysPut
  <2>3. n \in Foreign => Covers(q, Amount[n])
    BY <1>3, EaseKnown DEF Undisturbed, Takes
  <2>4. /\ status'[q] \in {"PENDING_DEPOSIT", "KNOWN_DEPOSIT_TX"}
        /\ Unclaimed(q)' /\ refunds'[q] = <<>>
        /\ \A key \in keys'[q] : Confirms(key) => key = ev
    BY <1>3, <1>4, <1>5, <1>6, <2>1
       DEF Awaiting, Unclaimed, Taken, Initiated, Event, Confirmations
  <2>5. SmoothAt(t, pc[t], job[t])'
    <3>1. Covers(q, Amount[n])' <=> Covers(q, Amount[n])
      BY DEF Covers
    <3> QED BY <1>3, <1>4, <1>5, <2>1, <2>3, <2>4, <3>1
            DEF SmoothAt, Asks, Holding, Applying, Decided, Repaying, NoteLabels, Keeping,
                Consuming, Settling, Refunding, Owner, Takes, SettleKinds, Detections,
                Confirmations, Confirms
  <2>6. SmoothRows(q)'
    <3>1. ~Left(q)'
      BY <1>3, <2>1 DEF Left, Owner
    <3> QED BY <1>3, <1>5, <1>6, <2>4, <3>1 DEF SmoothRows
  <2>7. SmoothKey(q, ev)'
    <3>1. n \notin Reverted
      BY <1>3, EaseKnown, ConstantsAssumption DEF Undisturbed
    <3>2. n \notin Foreign => Amount[n] > 0
      BY <1>3, <3>1, EaseKnown DEF Undisturbed, Counts
    <3> QED BY <1>3, <1>4, <1>5, <3>1, <3>2 DEF SmoothKey, Takes
  <2> QED BY <1>1, <1>3, <1>5, <2>1, <2>2, <2>5, <2>6, <2>7, WorksSmoothly
<1> QED BY <1>7, <1>8

\* The steps of the poller with a note.
LEMMA TakeNoteSmooth ==
    ASSUME AtEase, NEW t \in Tasks, TakeNote(t)
    PROVE  Smooth'
<1>0. TypeOK /\ CalmChains
  BY EaseKnown, PeaceKnown DEF AtEase
<1>1. PICK q \in Quotes, n \in {job[t].note} : q = job[t].q
  BY EaseKnown
<1>2. pc[t] \in NoteLabels
  BY DEF TakeNote, NoteFound, NoteCounted, ConsumeKeyed, ConsumeSubmit, ConsumeAppend,
         ConsumeCommitted, ConsumeDiscarded, NoteVerified, NoteForeign, NoteLabels
<1>3. /\ t = "poller" /\ t = Owner(q) /\ n \in Notes \cap landed /\ Takes(q, n) /\ pc[t] # "idle"
      /\ pc[t] \in Keeping => IF n \in Foreign
                                THEN Awaiting(q)
                                ELSE Taken(q) /\ (Accepted(q) \/ TurnedDown(q))
  BY <1>1, <1>2, NoteKnown
<1>4. CASE NoteFound(t) \/ NoteCounted(t)
  BY <1>4, FoundSmoothly, CountedSmoothly
<1>5. CASE \/ ConsumeKeyed(t) \/ ConsumeSubmit(t) \/ ConsumeAppend(t)
           \/ ConsumeCommitted(t) \/ NoteVerified(t)
  <2>1. /\ UNCHANGED <<status, log, refunds, payouts, landed, expired, phase, todo>>
        /\ (keys' = keys \/ BurnKey(q, ConsumeKey(n))) /\ pc[t] \in Keeping
    BY <1>1, <1>5 DEF ConsumeKeyed, ConsumeSubmit, ConsumeAppend, ConsumeCommitted, NoteVerified,
                      Onward, Goto, rows, store, chains, Keeping, Consuming
  <2>2. \/ \E l \in Consuming : Goto(t, l)
        \/ Onward(t)
        \/ Continue(t, q, "settle") /\ n \notin Foreign
    BY <1>1, <1>5 DEF ConsumeKeyed, ConsumeSubmit, ConsumeAppend, ConsumeCommitted, NoteVerified,
                      Consuming
  <2>3. /\ OnlyMoves(t) /\ pc'[t] \in Keeping \cup {"settle"} /\ job'[t].q = q
        /\ job'[t].note = n /\ (pc'[t] = "settle" => n \notin Foreign)
    <3>1. ASSUME NEW l \in Consuming, Goto(t, l)
          PROVE  /\ OnlyMoves(t) /\ pc'[t] \in Keeping \ {"settle"} /\ job'[t] = job[t]
      BY <1>0, <3>1, MovesAlone DEF Keeping, Consuming
    <3>2. ASSUME NEW l \in {"verify", "settle"}, Continue(t, q, l)
          PROVE  /\ OnlyMoves(t) /\ pc'[t] = l /\ job'[t].q = q /\ job'[t].note = n
      BY <1>0, <1>1, <3>2, MovesAlone, JobsMove
    <3>3. CASE Onward(t)
      <4>1. /\ q \in OwnAccount => Continue(t, q, "verify")
            /\ q \notin OwnAccount => Continue(t, q, "settle") /\ n \notin Foreign
        BY <1>1, <1>3, <3>3 DEF Onward, Takes
      <4> QED BY <3>2, <4>1 DEF Keeping
    <3> QED BY <1>1, <2>2, <3>1, <3>2, <3>3
  <2> QED BY <1>1, <2>1, <2>3, KeepsNote DEF ConsumeKeyed, ConsumeSubmit, ConsumeAppend,
             ConsumeCommitted, NoteVerified
<1>6. CASE NoteForeign(t)
  <2>1. /\ n \in Foreign /\ Abort(t) /\ pc[t] = "verify" /\ UNCHANGED <<store, chains>>
    BY <1>1, <1>6 DEF NoteForeign
  <2>2. ~Taken(q)
    BY <1>3, <2>1 DEF Keeping, Awaiting
  <2>3. /\ UNCHANGED <<status, log, refunds, payouts, landed, expired, phase, keys>>
        /\ \A u \in Tasks : todo'[u] \subseteq todo[u]
    BY <1>0, <1>3, <2>1 DEF Abort, store, rows, chains, TypeOK, ProcessOK
  <2>4. OnlyMoves(t) /\ pc'[t] = "idle"
    BY <1>0, <2>1, MovesAlone
  <2>5. \A p \in Quotes : Stays(p)
    BY <2>3, AllStay
  <2>6. SmoothAt(t, pc[t], job[t])'
    BY <2>4 DEF SmoothAt
  <2> QED BY <1>1, <1>3, <2>2, <2>3, <2>4, <2>5, <2>6, WorksQuietly
<1>7. CASE ConsumeDiscarded(t)
  BY <1>0, <1>1, <1>3, <1>7 DEF ConsumeDiscarded, CalmChains
<1> QED BY <1>4, <1>5, <1>6, <1>7 DEF TakeNote

-----------------------------------------------------------------------------
(***************************************************************************)
(* The loops, the users and the chains.                                       *)
(***************************************************************************)

\* No task is at work that was not, and what is at work stays where it is.
Rests ==
    \A u \in Tasks : Still(u) \/ (pc[u] = "idle" /\ pc'[u] = "idle")

\* What a step at rest has to show.
LEMMA RestSmooth ==
    ASSUME AtEase, Rests, UNCHANGED <<phase, expired>>, landed \subseteq landed', keys' = keys,
           \A u \in Tasks : todo'[u] \subseteq todo[u],
           \A u \in Tasks : pc[u] # "idle" => SmoothAt(u, pc[u], job[u])',
           \A q \in Quotes : SmoothRows(q)',
           \A q \in Quotes : Awaiting(q) => Awaiting(q)' /\ status'[q] = status[q]
    PROVE  Smooth'
<1>0. /\ {"watcher", "poller"} \subseteq Tasks
      /\ \A p \in Quotes : \A key \in keys[p] : SmoothKey(p, key)
      /\ \A u \in Tasks : \A r \in todo[u] : r.q \in Quotes
  BY EaseKnown, ListedTyped
<1>1. \A u \in Tasks : SmoothAt(u, pc[u], job[u])'
  BY DEF Rests, Still, SmoothAt
<1>2. \A q \in Quotes : \A key \in keys'[q] : SmoothKey(q, key)'
  BY <1>0, KeyStays
<1>3. ASSUME NEW u \in {"watcher", "poller"} PROVE SmoothList(u)'
  <2>1. SmoothList(u) /\ u \in Tasks /\ todo'[u] \subseteq todo[u]
    BY <1>0, EaseKnown
  <2>2. pc'[u] # "idle" => pc[u] # "idle" /\ job'[u] = job[u]
    BY <2>1 DEF Rests, Still
  <2>3. \A r \in todo'[u] : r \in todo[u] /\ r.q \in Quotes
    BY <1>0, <2>1
  <2> QED BY <2>1, <2>2, <2>3 DEF SmoothList
<1>4. phase' = "up" /\ expired' = {} /\ todo'["scanner"] = {}
  BY EaseKnown DEF AtEase, Smooth, Tasks, Loops
<1> QED BY <1>1, <1>2, <1>3, <1>4 DEF Smooth

\* A step at rest of which no quote notices anything.
LEMMA RestQuiet ==
    ASSUME AtEase, Rests, UNCHANGED <<phase, expired, keys>>, landed \subseteq landed',
           \A u \in Tasks : todo'[u] \subseteq todo[u], \A q \in Quotes : Stays(q)
    PROVE  Smooth'
<1>1. ASSUME NEW u \in Tasks, pc[u] # "idle" PROVE SmoothAt(u, pc[u], job[u])'
  <2>1. PICK q \in Quotes : q = job[u].q
    BY EaseKnown
  <2>2. Still(u) /\ SmoothAt(u, pc[u], job[u])
    BY <1>1, EaseKnown DEF Rests
  <2> QED BY <2>1, <2>2, PositionStays
<1>2. ASSUME NEW q \in Quotes PROVE SmoothRows(q)'
  <2>1. Left(q)' => Left(q)
    <3>1. Owner(q) \in Tasks
      BY DEF Owner, Tasks, Loops
    <3> QED BY <3>1 DEF Left, Rests, Still, Owner
  <2> QED BY <2>1, EaseKnown, RowsStaySmooth
<1>3. \A q \in Quotes : Awaiting(q) => Awaiting(q)' /\ status'[q] = status[q]
  BY StaysSame
<1> QED BY <1>1, <1>2, <1>3, RestSmooth

\* A task that finds nothing to do, or stops at an entry, while the rows stay.
LEMMA IdlesSmoothly ==
    ASSUME AtEase, NEW t \in Tasks, pc[t] = "idle", pc'[t] = "idle", OnlyMoves(t),
           UNCHANGED <<status, log, keys, refunds, payouts, landed, expired, phase>>,
           \A u \in Tasks : todo'[u] \subseteq todo[u]
    PROVE  Smooth'
<1>1. Rests
  BY DEF Rests, OnlyMoves, Still
<1>2. \A q \in Quotes : Stays(q)
  BY AllStay
<1> QED BY <1>1, <1>2, RestQuiet

\* Somebody is at work for a quote only when it was asked for.
LEMMA WorkedOn ==
    ASSUME AtEase, NEW t \in Tasks, pc[t] # "idle"
    PROVE  Taken(job[t].q) \/ status[job[t].q] # "NONE"
<1>1. PICK q \in Quotes, ev \in Events, l \in Labels : q = job[t].q /\ ev = job[t].ev /\ l = pc[t]
  BY EaseKnown
<1>2. SmoothAt(t, l, job[t]) /\ Grounded(t, l, job[t])
  BY <1>1, EaseKnown
<1>3. CASE l \in Applying
  <2>1. ev.kind # "DEADLINE_EXPIRED"
    BY <1>1, <1>2, <1>3 DEF SmoothAt, Holding, Applying
  <2>2. CASE ev.kind \in Detections
    BY <1>1, <1>2, <1>3, <2>2 DEF SmoothAt, Asks, Awaiting, Applying, Decided
  <2>3. CASE ev.kind \in Confirmations
    BY <1>1, <1>2, <1>3, <2>3 DEF SmoothAt, Asks, Applying, Decided
  <2>4. CASE ev.kind \in SettleKinds
    BY <1>1, <1>2, <1>3, <2>4 DEF SmoothAt, Asks, Applying, Decided
  <2> QED BY <2>1, <2>2, <2>3, <2>4
          DEF Events, SettlementKinds, Detections, Confirmations, SettleKinds
<1>4. CASE l \in Settling \cup Refunding
  BY <1>1, <1>2, <1>4 DEF SmoothAt, Settling, Refunding
<1>5. CASE l \in NoteLabels
  <2>1. l \in {"detect", "confirm"} \/ l \in Keeping
    BY <1>5 DEF NoteLabels, Keeping, Consuming
  <2> QED BY <1>1, <1>2, <2>1 DEF SmoothAt, Awaiting, Keeping, Consuming
<1>6. CASE l = "refundCheck"
  BY <1>1, <1>2, <1>6 DEF SmoothAt, Repaying
<1> QED BY <1>1, <1>3, <1>4, <1>5, <1>6 DEF Labels, Applying, Decided, Settling, Refunding

\* The chains decide.
LEMMA FatesSmooth ==
    ASSUME AtEase, PayoutFates \/ NoteFates
    PROVE  Smooth'
<1>0. TypeOK /\ failures = 0 /\ MaxFailures = 0
  BY EaseKnown DEF Undisturbed
<1>1. ~ \E q \in Quotes : \E i \in 1..Len(payouts[q]) : PayoutDiscarded(q, i)
  BY <1>0 DEF PayoutDiscarded
<1>2. ~ \E n \in Notes : ConsumeDiscards(n)
  BY <1>0 DEF ConsumeDiscards
<1>3. /\ UNCHANGED <<store, landed, refunds, expired, phase, process>>
      /\ \A p \in Quotes : payouts[p] = <<>> => payouts'[p] = <<>>
  <2>1. ASSUME NEW q \in Quotes, NEW i \in 1..Len(payouts[q]), PayoutCommits(q, i)
        PROVE  \A p \in Quotes : payouts[p] = <<>> => payouts'[p] = <<>>
    <3>1. ASSUME NEW p \in Quotes, payouts[p] = <<>> PROVE p # q
      BY <3>1
    <3>2. payouts' = [payouts EXCEPT ![q][i] = "committed"]
      BY <2>1 DEF PayoutCommits
    <3> QED BY <1>0, <3>1, <3>2 DEF TypeOK, ChainsOK
  <2> QED BY <1>1, <1>2, <2>1
          DEF PayoutFates, NoteFates, PayoutCommits, ConsumeCommits
<1>4. \A q \in Quotes : Stays(q)
  BY <1>3, StaysPut DEF store, rows
<1>5. Rests /\ todo' = todo
  BY <1>3 DEF Rests, Still, process
<1> QED BY <1>3, <1>4, <1>5, RestQuiet DEF store

\* A quote nobody asked for has no confirmed deposit, and nobody is at work for it.
LEMMA NotAskedFor ==
    ASSUME AtEase, NEW q \in Quotes, status[q] = "NONE"
    PROVE  ~Taken(q) /\ \A t \in Tasks : pc[t] # "idle" => job[t].q # q
<1>1. ~Taken(q)
  <2>1. ASSUME NEW key \in keys[q], Confirms(key) PROVE FALSE
    <3>1. key.datum \in landed /\ PaysTo[key.datum] = q
      BY <2>1, EaseKnown DEF SmoothKey, Confirms
    <3>2. q # None
      BY DEF Quotes, None
    <3> QED BY <3>1, <3>2 DEF AtEase, PaysKnown
  <2> QED BY <2>1 DEF Taken
<1> QED BY <1>1, WorkedOn

\* A quote is asked for.
LEMMA CreateSmooth ==
    ASSUME AtEase, NEW q \in Quotes, CreateQuote(q)
    PROVE  Smooth'
<1>0. TypeOK /\ SmoothRows(q) /\ status[q] = "NONE"
  BY EaseKnown DEF CreateQuote
<1>1. ~Taken(q) /\ \A t \in Tasks : pc[t] # "idle" => job[t].q # q
  BY <1>0, NotAskedFor
<1>2. /\ UNCHANGED <<keys, refunds, payouts, landed, expired, phase, pc, job, todo>>
      /\ \A p \in Quotes \ {q} : log'[p] = log[p] /\ status'[p] = status[p]
      /\ status'[q] = "PENDING_DEPOSIT"
  BY <1>0 DEF CreateQuote, RecordEvent, Entry, chains, process, TypeOK, StoreOK
<1>3. \A p \in Quotes \ {q} : Stays(p)
  BY <1>2, StaysPut
<1>4. Rests
  BY <1>2 DEF Rests, Still
<1>5. ASSUME NEW u \in Tasks, pc[u] # "idle" PROVE SmoothAt(u, pc[u], job[u])'
  <2>1. PICK p \in Quotes : p = job[u].q /\ p # q
    BY <1>1, <1>5, EaseKnown
  <2>2. Still(u) /\ SmoothAt(u, pc[u], job[u])
    BY <1>2, EaseKnown DEF Still
  <2> QED BY <1>2, <1>3, <2>1, <2>2, PositionStays
<1>6. ASSUME NEW p \in Quotes PROVE SmoothRows(p)'
  <2>1. CASE p = q
    <3>1. ~Taken(q)' /\ (Unclaimed(q)' <=> Unclaimed(q))
      BY <1>1, <1>2 DEF Taken, Unclaimed
    <3> QED BY <1>0, <1>1, <1>2, <2>1, <3>1 DEF SmoothRows
  <2>2. CASE p # q
    <3>1. Left(p)' => Left(p)
      BY <1>2 DEF Left, Owner
    <3> QED BY <1>3, <2>2, <3>1, EaseKnown, RowsStaySmooth
  <2> QED BY <2>1, <2>2
<1>7. \A p \in Quotes : Awaiting(p) => Awaiting(p)' /\ status'[p] = status[p]
  <2>1. ~Awaiting(q)
    BY <1>0 DEF Awaiting
  <2> QED BY <1>3, <2>1, StaysSame
<1> QED BY <1>2, <1>4, <1>5, <1>6, <1>7, RestSmooth

\* A deposit is worth something only to a quote whose deposit is not yet confirmed.
LEMMA PaidOnce ==
    ASSUME AtEase, NEW d \in Deposits, landed' = landed \cup {d}, NEW q \in Quotes, Taken(q)
    PROVE  PaidIn'[q] = PaidIn[q]
<1>1. PICK key \in keys[q] : key.datum \in landed /\ Counts(q, key.datum)
  BY TakenPays DEF Taken
<1>2. landed \subseteq Deposits
  BY EaseKnown DEF TypeOK, ChainsOK
<1>3. Counts(q, d) => d = key.datum
  BY <1>1, <1>2, EaseKnown DEF Undisturbed
<1>4. {e \in landed \cup {d} : Counts(q, e)} = {e \in landed : Counts(q, e)}
  BY <1>1, <1>3
<1>5. Payments(q)' = Payments(q)
  <2>1. \A e : Counts(q, e)' <=> Counts(q, e)
    BY DEF Counts, Takes
  <2> QED BY <1>4, <2>1 DEF Payments
<1> QED BY <1>5 DEF PaidIn

\* Somebody pays.
LEMMA LandsSmoothly ==
    ASSUME AtEase, NEW d \in Deposits, DepositLands(d)
    PROVE  Smooth'
<1>1. /\ UNCHANGED <<status, log, keys, refunds, payouts, expired, phase, pc, job, todo>>
      /\ landed' = landed \cup {d}
  BY DEF DepositLands, store, rows, process
<1>2. ASSUME NEW q \in Quotes
      PROVE  /\ Taken(q)' <=> Taken(q)
             /\ Awaiting(q)' <=> Awaiting(q)
             /\ Unclaimed(q)' <=> Unclaimed(q)
             /\ Taken(q) => Stays(q)
  <2>1. /\ Taken(q)' <=> Taken(q)
        /\ Awaiting(q)' <=> Awaiting(q)
        /\ Unclaimed(q)' <=> Unclaimed(q)
    BY <1>1 DEF Taken, Awaiting, Unclaimed
  <2>2. RefundAmount(q)' = RefundAmount(q)
    BY <1>1 DEF RefundAmount, HasConfirmed, ConfirmedEntries
  <2>3. Taken(q) => Stays(q)
    BY <1>1, <2>2, PaidOnce DEF Stays
  <2> QED BY <2>1, <2>3
<1>3. Rests
  BY <1>1 DEF Rests, Still
<1>4. ASSUME NEW u \in Tasks, pc[u] # "idle" PROVE SmoothAt(u, pc[u], job[u])'
  <2>1. PICK q \in Quotes : q = job[u].q
    BY EaseKnown
  <2>2. Still(u) /\ SmoothAt(u, pc[u], job[u])
    BY <1>1, EaseKnown DEF Still
  <2>3. CASE Taken(q)
    BY <1>1, <1>2, <2>1, <2>2, <2>3, PositionStays
  <2>4. CASE ~Taken(q)
    <3>1. /\ pc[u] \notin Settling \cup Refunding \cup Repaying
          /\ ~Asks(pc[u], job[u], SettleKinds)
      <4>1. pc[u] \notin Settling \cup Refunding /\ ~Asks(pc[u], job[u], SettleKinds)
        BY <1>4, <2>1, <2>2, <2>4 DEF SmoothAt
      <4>2. pc[u] # "refundCheck"
        BY <2>2 DEF SmoothAt, Repaying
      <4> QED BY <4>1, <4>2 DEF Repaying, Refunding
    <3>2. pc[u] \notin {"settle", "reload", "payout", "mintSubmit", "refundSubmit"}
      BY <3>1 DEF Settling, Refunding
    <3>3. \A kinds : Asks(pc[u], job[u], kinds)' <=> Asks(pc[u], job[u], kinds)
      BY <2>2 DEF Asks, Still
    <3>4. /\ ~Asks(pc[u], job[u], {"SETTLEMENT_INITIATED"})
          /\ ~Asks(pc[u], job[u], {"SETTLEMENT_SUCCEEDED", "SLIPPAGE_EXCEEDED"})
          /\ ~Asks(pc[u], job[u], {"SLIPPAGE_EXCEEDED"})
      BY <3>1 DEF Asks, SettleKinds
    <3>5. \A x : Covers(q, x)' <=> Covers(q, x)
      BY DEF Covers
    <3>6. \A key : key \in keys'[q] <=> key \in keys[q]
      BY <1>1
    <3> QED BY <1>1, <1>2, <2>1, <2>2, <2>4, <3>1, <3>2, <3>3, <3>4, <3>5, <3>6
            DEF SmoothAt, Still, Takes, Owner, Confirms
  <2> QED BY <2>3, <2>4
<1>5. ASSUME NEW q \in Quotes PROVE SmoothRows(q)'
  <2>1. (Left(q)' <=> Left(q)) /\ (Detects(q)' <=> Detects(q))
    BY <1>1 DEF Left, Detects, Owner
  <2>2. SmoothRows(q)
    BY EaseKnown
  <2> QED BY <1>1, <1>2, <2>1, <2>2 DEF SmoothRows
<1>6. \A q \in Quotes : Awaiting(q) => Awaiting(q)' /\ status'[q] = status[q]
  BY <1>1, <1>2
<1> QED BY <1>1, <1>3, <1>4, <1>5, <1>6, RestSmooth

\* A quote gets one detection: as long as its hash is new, nobody is at work for it.
LEMMA NotDetected ==
    ASSUME AtEase, NEW q \in Quotes, Origin[q] = "evm", NEW tx \in Txs, Names(q, tx),
           Detected(tx) \notin keys[q]
    PROVE  /\ ~Detects(q) /\ ~Taken(q) /\ status[q] \in {"NONE", "PENDING_DEPOSIT"}
           /\ \A t \in Tasks : pc[t] # "idle" => job[t].q # q
<1>1. ~Detects(q)
  <2>1. ASSUME NEW key \in keys[q], key.kind = "EVM_DEPOSIT_DETECTED" PROVE FALSE
    <3>1. key \in Keys
      BY EaseKnown DEF TypeOK, StoreOK
    <3>2. key \in Events
      BY <2>1, <3>1 DEF Keys, PayoutKinds
    <3>3. /\ Detected(tx) \in Events /\ Detected(tx).kind = "EVM_DEPOSIT_DETECTED"
          /\ Detected(tx).datum = tx
      BY EventsTyped DEF Detected, Event
    <3>4. Names(q, key.datum) /\ key.datum \in Txs
      BY <2>1, <3>2, EaseKnown, DetectionsDiffer DEF SmoothKey
    <3>5. key.datum = tx
      BY <3>4, EaseKnown DEF Undisturbed
    <3>6. key = Detected(tx)
      BY <2>1, <3>2, <3>3, <3>5, DetectionsDiffer
    <3> QED BY <2>1, <3>6
  <2> QED BY <2>1 DEF Detects
<1>2. ~Taken(q) /\ status[q] \in {"NONE", "PENDING_DEPOSIT"}
  BY <1>1, EaseKnown DEF SmoothRows
<1>3. ASSUME NEW t \in Tasks, pc[t] # "idle", job[t].q = q PROVE FALSE
  <2>1. Asks(pc[t], job[t], {"EVM_DEPOSIT_DETECTED"})
    BY <1>2, <1>3, OwnerTakes
  <2>2. job[t].ev \in keys[q] /\ job[t].ev.kind = "EVM_DEPOSIT_DETECTED"
    BY <1>3, <2>1, EaseKnown, CarriedStands DEF Asks, Holding
  <2> QED BY <1>1, <2>2 DEF Detects
<1> QED BY <1>1, <1>2, <1>3

\* A hash is told to apply, by a handler or by the watcher.
LEMMA RaisesDetection ==
    ASSUME AtEase, NEW t \in Tasks, t # "poller", pc[t] = "idle", NEW q \in Quotes,
           Origin[q] = "evm", status[q] # "NONE", NEW tx \in Txs, Names(q, tx),
           CallApply(t, q, Detected(tx), "idle"), UNCHANGED <<rows, chains, phase>>,
           \A u \in Tasks : todo'[u] \subseteq todo[u],
           \A r \in todo'[t] : t = "watcher" => r.q # q
    PROVE  Smooth'
<1>0. TypeOK
  BY EaseKnown
<1>1. PICK ev \in Events : /\ ev = Detected(tx) /\ ev.datum = tx
                           /\ ev.kind = "EVM_DEPOSIT_DETECTED"
  BY EventsTyped DEF Detected, Event
<1>2. UNCHANGED <<status, log, refunds, payouts, landed, expired, phase>>
  BY DEF rows, chains
<1>3. CASE ev \in keys[q]
  <2>1. Continue(t, q, "idle") /\ keys' = keys
    BY <1>1, <1>3 DEF CallApply
  <2>2. OnlyMoves(t) /\ pc'[t] = "idle"
    BY <1>0, <2>1, MovesAlone
  <2> QED BY <1>2, <2>1, <2>2, IdlesSmoothly
<1>4. CASE ev \notin keys[q]
  <2>1. /\ ~Taken(q) /\ status[q] = "PENDING_DEPOSIT"
        /\ \A u \in Tasks : pc[u] # "idle" => job[u].q # q
    BY <1>1, <1>4, NotDetected
  <2>2. /\ OnlyMoves(t) /\ pc'[t] = "decide"
        /\ job'[t].q = q /\ job'[t].ev = ev /\ job'[t].ret = "idle"
        /\ keys'[q] = keys[q] \cup {ev}
        /\ \A p \in Quotes \ {q} : keys'[p] = keys[p]
    BY <1>0, <1>1, <1>4, CallsAnew
  <2>3. \A p \in Quotes : Stays(p)
    <3>1. \A p \in Quotes : keys[p] \subseteq keys'[p] /\
               \A key \in keys'[p] \ keys[p] : key.kind \notin FundedKinds
      BY <1>1, <2>2 DEF FundedKinds, SettleKinds, Confirmations
    <3> QED BY <1>2, <3>1, AllStay
  <2>4. Awaiting(q)' /\ status'[q] = "PENDING_DEPOSIT"
    BY <1>2, <2>1, <2>3, StaysSame DEF Awaiting
  <2>5. SmoothAt(t, pc[t], job[t])'
    BY <1>1, <2>2, <2>4
       DEF SmoothAt, Asks, Holding, Applying, Decided, Repaying, NoteLabels, Keeping, Consuming,
           Settling, Refunding, Owner, SettleKinds, Confirmations, Detections
  <2>6. SmoothRows(q)'
    BY <2>1, <2>3, EaseKnown, RowsStaySmooth
  <2>7. SmoothKey(q, ev)'
    BY <1>1 DEF SmoothKey, Confirmations, Names
  <2> QED BY <1>2, <2>1, <2>2, <2>3, <2>5, <2>6, <2>7, SmoothKeeps
<1> QED BY <1>3, <1>4

\* The users.
LEMMA UsersSmooth ==
    ASSUME AtEase, Users
    PROVE  Smooth'
<1>1. ASSUME NEW q \in Quotes, DeadlinePasses(q) PROVE FALSE
  BY <1>1, EaseKnown DEF DeadlinePasses, Undisturbed
<1>2. ASSUME NEW h \in Handlers, NEW s \in Submissions, SubmitDeposit(h, s[1], s[2])
      PROVE  Smooth'
  <2>1. PICK q \in Quotes, tx \in Txs : s = <<q, tx>>
    BY ConstantsAssumption
  <2>2. SubmitDeposit(h, q, tx) /\ <<q, tx>> \in Submissions
    BY <1>2, <2>1
  <2>3. h \in Tasks /\ h \notin {"poller", "watcher"}
    BY ConstantsAssumption DEF Tasks, Loops
  <2>4. Origin[q] = "evm" /\ Names(q, tx)
    BY <2>2, EaseKnown DEF Undisturbed, Names
  <2> QED BY <2>2, <2>3, <2>4, RaisesDetection DEF SubmitDeposit
<1> QED BY <1>1, <1>2, CreateSmooth, LandsSmoothly DEF Users

\* A loop takes its list.
LEMMA ListsSmoothly ==
    ASSUME AtEase, NEW t \in {"watcher", "poller"}, NEW Q \in SUBSET Tracked, TakeList(t, Q),
           \A q \in Q : Owner(q) = t /\ (t = "poller" => Origin[q] = "miden")
    PROVE  Smooth'
<1>1. /\ UNCHANGED <<status, log, keys, refunds, payouts, landed, expired, phase, pc, job>>
      /\ pc[t] = "idle" /\ todo'[t] = Snapshot(Q)
      /\ \A u \in Tasks \ {t} : todo'[u] = todo[u]
  BY EaseKnown DEF TakeList, store, rows, chains, TypeOK, ProcessOK
<1>2. \A q \in Quotes : Stays(q)
  BY <1>1, AllStay
<1>3. ASSUME NEW u \in Tasks PROVE SmoothAt(u, pc[u], job[u])'
  <2>1. PICK q \in Quotes : q = job[u].q
    BY EaseKnown
  <2>2. Still(u) /\ SmoothAt(u, pc[u], job[u])
    BY <1>1, EaseKnown DEF Still
  <2> QED BY <1>1, <1>2, <2>1, <2>2, PositionStays
<1>4. ASSUME NEW q \in Quotes PROVE SmoothRows(q)' /\ \A key \in keys'[q] : SmoothKey(q, key)'
  <2>1. Left(q)' => Left(q)
    BY <1>1 DEF Left, Owner
  <2> QED BY <1>1, <1>2, <2>1, EaseKnown, RowsStaySmooth, KeyStays
<1>5. SmoothList(t)'
  <2>1. \A r \in todo'[t] : r.q \in Q /\ r.status = status[r.q] /\ r = [q |-> r.q, status |-> status[r.q]]
    BY <1>1 DEF Snapshot
  <2>2. ASSUME NEW q \in Q PROVE Awaiting(q)' /\ status[q] # "PROCESSING"
    <3>1. /\ q \in Quotes /\ status[q] \in TrackedStatuses /\ Left(q)
      BY <1>1 DEF Tracked, Left
    <3>2. ~Taken(q) /\ Awaiting(q)
      BY <3>1, EaseKnown DEF SmoothRows, Awaiting, TrackedStatuses, TerminalStatuses
    <3> QED BY <1>2, <3>1, <3>2, StaysSame DEF Awaiting
  <2>3. \A r, o \in todo'[t] : r.q = o.q => r = o
    BY <2>1
  <2> QED BY <1>1, <2>1, <2>2, <2>3 DEF SmoothList
<1>6. ASSUME NEW u \in {"watcher", "poller"}, u # t PROVE SmoothList(u)'
  <2>1. SmoothList(u) /\ u \in Tasks /\ todo'[u] = todo[u] /\ \A r \in todo[u] : r.q \in Quotes
    BY <1>1, <1>6, EaseKnown, ListedTyped
  <2>2. \A r \in todo[u] : (Awaiting(r.q)' <=> Awaiting(r.q)) /\ status'[r.q] = status[r.q]
    BY <1>2, <2>1, StaysSame
  <2> QED BY <1>1, <2>1, <2>2 DEF SmoothList
<1>7. phase' = "up" /\ expired' = {} /\ todo'["scanner"] = {}
  BY <1>1, EaseKnown DEF AtEase, Smooth, Tasks, Loops
<1> QED BY <1>3, <1>4, <1>5, <1>6, <1>7 DEF Smooth

\* The watcher takes up an entry: what it knows of it.
LEMMA WatcherEntry ==
    ASSUME AtEase, NEW r \in todo["watcher"], AtEntry("watcher", r)
    PROVE  /\ r.q \in Quotes /\ Origin[r.q] = "evm" /\ pc["watcher"] = "idle"
           /\ CrossOff("watcher", r) =>
                /\ \A u \in Tasks : todo'[u] \subseteq todo[u]
                /\ \A o \in todo'["watcher"] : o.q # r.q
<1>1. /\ r.q \in Quotes /\ Serves("watcher", r.q) /\ pc["watcher"] = "idle"
      /\ todo \in [Tasks -> SUBSET [q : Quotes, status : TrackedStatuses]]
      /\ "watcher" \in Tasks
  BY EaseKnown, ListedTyped DEF WellGrounded, Listed, AtEntry, TypeOK, ProcessOK
<1>2. Origin[r.q] = "evm"
  BY <1>1 DEF Serves
<1>3. \A o \in todo["watcher"] : o.q = r.q => o = r
  BY EaseKnown DEF SmoothList
<1>4. ASSUME CrossOff("watcher", r)
      PROVE  /\ \A u \in Tasks : todo'[u] \subseteq todo[u]
             /\ todo'["watcher"] = todo["watcher"] \ {r}
  BY <1>1, <1>4 DEF CrossOff
<1> QED BY <1>1, <1>2, <1>3, <1>4

\* The watcher tells apply what it has confirmed.
LEMMA ConfirmSmooth ==
    ASSUME AtEase, NEW r \in todo["watcher"], WatcherConfirm(r)
    PROVE  Smooth'
<1>0. /\ TypeOK /\ "watcher" \in Tasks /\ AtEntry("watcher", r)
      /\ r.status = "KNOWN_DEPOSIT_TX" /\ HasHash(r.q) /\ PaidBy(r.q, FirstTx(r.q))
      /\ CallApply("watcher", r.q, Confirmed(FirstTx(r.q)), "settle") /\ CrossOff("watcher", r)
      /\ UNCHANGED <<rows, chains, phase>>
  BY EaseKnown DEF WatcherConfirm, Confirm, Examines, Awaited
<1>1. PICK q \in Quotes, tx \in Txs : q = r.q /\ tx = FirstTx(q)
  BY <1>0, WatcherEntry, FirstTxTyped DEF TypeOK
<1>2. PICK ev \in Events : /\ ev = Confirmed(tx) /\ ev.datum = tx
                           /\ ev.kind = "EVM_DEPOSIT_CONFIRMED"
  BY EventsTyped DEF Confirmed, Event
<1>3. /\ Origin[q] = "evm" /\ pc["watcher"] = "idle"
      /\ \A u \in Tasks : todo'[u] \subseteq todo[u]
      /\ \A o \in todo'["watcher"] : o.q # q
  BY <1>0, <1>1, WatcherEntry
<1>4. Awaiting(q) /\ status[q] = "KNOWN_DEPOSIT_TX" /\ SmoothRows(q) /\ ~Taken(q)
  BY <1>0, <1>1, EaseKnown DEF SmoothList, Awaiting
<1>5. /\ ev.datum \notin Notes /\ ev.datum \notin Foreign
      /\ ev.datum \in landed \ Reverted /\ PaysTo[ev.datum] = q /\ Amount[ev.datum] > 0
  <2>1. tx \notin Notes /\ Foreign \subseteq Notes
    BY EaseKnown, ConstantsAssumption DEF Undisturbed
  <2> QED BY <1>0, <1>1, <1>2, <2>1 DEF PaidBy
<1>6. ev \notin keys[q]
  BY <1>2, <1>4, <1>5 DEF Taken, Confirms, Confirmations
<1>7. /\ OnlyMoves("watcher") /\ pc'["watcher"] = "decide"
      /\ job'["watcher"].q = q /\ job'["watcher"].ev = ev /\ job'["watcher"].ret = "settle"
      /\ keys'[q] = keys[q] \cup {ev}
      /\ \A p \in Quotes \ {q} : keys'[p] = keys[p]
  <2>1. CallApply("watcher", q, ev, "settle")
    BY <1>0, <1>1, <1>2
  <2> QED BY <1>0, <1>6, <2>1, CallsAnew
<1>8. UNCHANGED <<status, log, refunds, payouts, landed, expired, phase>>
  BY <1>0 DEF rows, chains
<1>9. \A u \in Tasks \ {"watcher"} : pc[u] # "idle" => job[u].q # q
  <2> SUFFICES ASSUME NEW u \in Tasks \ {"watcher"}, pc[u] # "idle", job[u].q = q
               PROVE  FALSE
    OBVIOUS
  <2>1. Asks(pc[u], job[u], {"EVM_DEPOSIT_DETECTED"})
    BY <1>3, <1>4, OwnerTakes
  <2>2. SmoothAt(u, pc[u], job[u])
    BY EaseKnown
  <2> QED BY <1>4, <2>1, <2>2 DEF SmoothAt
<1>10. \A p \in Quotes \ {q} : Stays(p)
  BY <1>7, <1>8, StaysPut
<1>11. /\ status'[q] = "KNOWN_DEPOSIT_TX" /\ refunds'[q] = <<>> /\ Unclaimed(q)'
       /\ \A key \in keys'[q] : Confirms(key) => key = ev
       /\ Taken(q)' /\ Detects(q)'
  <2>1. Unclaimed(q) /\ refunds[q] = <<>> /\ Detects(q)
    BY <1>3, <1>4 DEF SmoothRows
  <2>2. ev.kind # Initiated.kind
    BY <1>2 DEF Initiated, Event
  <2>3. \A key \in keys[q] : ~Confirms(key)
    BY <1>4 DEF Taken
  <2>4. Confirms(ev)
    BY <1>2, <1>5 DEF Confirms, Confirmations
  <2> QED BY <1>4, <1>7, <1>8, <2>1, <2>2, <2>3, <2>4 DEF Unclaimed, Detects, Taken
<1>12. SmoothAt("watcher", pc["watcher"], job["watcher"])'
  <2>1. \A key \in keys'[q] : Confirms(key)' => key = ev
    BY <1>11 DEF Confirms
  <2> QED BY <1>2, <1>3, <1>5, <1>7, <1>11, <2>1
     DEF SmoothAt, Asks, Holding, Applying, Decided, Repaying, NoteLabels, Keeping, Consuming,
         Settling, Refunding, Owner, SettleKinds, Confirmations, Detections
<1>13. SmoothRows(q)'
  BY <1>3, <1>7, <1>11 DEF SmoothRows, Left, Owner
<1>14. SmoothKey(q, ev)'
  BY <1>2, <1>5, <1>8 DEF SmoothKey, Confirmations
<1>15. "watcher" = Owner(q)
  BY <1>3 DEF Owner
<1> QED BY <1>0, <1>3, <1>7, <1>8, <1>9, <1>10, <1>12, <1>13, <1>14, <1>15, SmoothKeeps

\* The watcher.
LEMMA WatcherSmooth ==
    ASSUME AtEase, Watcher
    PROVE  Smooth'
<1>0. TypeOK /\ "watcher" \in Tasks /\ phase = "up"
  BY EaseKnown
<1>1. CASE WatcherList
  <2>1. TakeList("watcher", Tracked \cap From("evm"))
    BY <1>1 DEF WatcherList
  <2>2. \A q \in Tracked \cap From("evm") : Owner(q) = "watcher"
    BY DEF From, Owner
  <2> QED BY <2>1, <2>2, ListsSmoothly
<1>2. ASSUME NEW r \in todo["watcher"], WatcherSkip(r) PROVE Smooth'
  <2>1. /\ AtEntry("watcher", r) /\ CrossOff("watcher", r) /\ UNCHANGED <<pc, job>>
        /\ UNCHANGED <<status, log, keys, refunds, payouts, landed, expired, phase>>
    BY <1>2 DEF WatcherSkip, store, rows, chains
  <2>2. OnlyMoves("watcher") /\ pc'["watcher"] = "idle" /\ pc["watcher"] = "idle"
    BY <2>1, WatcherEntry DEF OnlyMoves
  <2> QED BY <1>0, <2>1, <2>2, WatcherEntry, IdlesSmoothly
<1>3. ASSUME NEW r \in todo["watcher"], WatcherReject(r) PROVE Smooth'
  <2>1. /\ AtEntry("watcher", r) /\ Abort("watcher")
        /\ UNCHANGED <<status, log, keys, refunds, payouts, landed, expired>>
    BY <1>3 DEF WatcherReject, Examines, store, rows, chains
  <2>2. /\ OnlyMoves("watcher") /\ pc'["watcher"] = "idle" /\ pc["watcher"] = "idle"
        /\ phase' = phase /\ \A u \in Tasks : todo'[u] \subseteq todo[u]
    BY <1>0, <2>1, WatcherEntry, MovesAlone DEF Abort, TypeOK, ProcessOK
  <2> QED BY <1>0, <2>1, <2>2, IdlesSmoothly
<1>4. ASSUME NEW r \in todo["watcher"], NEW tx \in Txs, WatcherDetect(r, tx) PROVE Smooth'
  <2>1. /\ AtEntry("watcher", r) /\ CrossOff("watcher", r) /\ tx \in Detectable(r.q)
        /\ CallApply("watcher", r.q, Detected(tx), "idle")
        /\ UNCHANGED <<rows, chains, phase>>
    BY <1>4 DEF WatcherDetect
  <2>2. PICK q \in Quotes : q = r.q
    BY <2>1, WatcherEntry
  <2>3. tx \in landed /\ PaysTo[tx] = q
    BY <2>1, <2>2 DEF Detectable
  <2>4. Names(q, tx) /\ status[q] # "NONE"
    <3>1. q # None
      BY DEF Quotes, None
    <3> QED BY <2>3, <3>1 DEF Names, AtEase, PaysKnown
  <2> QED BY <1>0, <2>1, <2>2, <2>4, WatcherEntry, RaisesDetection
<1> QED BY <1>1, <1>2, <1>3, <1>4, ConfirmSmooth DEF Watcher

\* The poller takes up a note.
LEMMA FindSmooth ==
    ASSUME AtEase, NEW r \in todo["poller"], NEW n \in Notes, PollerFind(r, n)
    PROVE  Smooth'
<1>0. /\ TypeOK /\ "poller" \in Tasks /\ pc["poller"] = "idle"
      /\ n \in Candidates(r.q) /\ Takes(r.q, n) /\ CrossOff("poller", r)
      /\ pc' = [pc EXCEPT !["poller"] = "detect"]
      /\ job' = [job EXCEPT !["poller"] = [NoJob EXCEPT !.q = r.q, !.note = n]]
      /\ UNCHANGED <<store, chains, phase>>
  BY EaseKnown DEF PollerFind, Searches, AtEntry
<1>1. PICK q \in Quotes : q = r.q
  BY <1>0, ListedTyped
<1>2. Origin[q] = "miden" /\ Awaiting(q) /\ SmoothRows(q)
  <2>1. Serves("poller", q)
    BY <1>0, <1>1, EaseKnown DEF WellGrounded, Listed
  <2> QED BY <1>1, <2>1, EaseKnown DEF SmoothList, Serves
<1>3. /\ \A u \in Tasks : todo'[u] \subseteq todo[u]
      /\ \A o \in todo'["poller"] : o.q # q
  <2>1. \A o \in todo["poller"] : o.q = q => o = r
    BY <1>1, EaseKnown DEF SmoothList
  <2>2. todo \in [Tasks -> SUBSET [q : Quotes, status : TrackedStatuses]]
    BY <1>0 DEF TypeOK, ProcessOK
  <2>3. /\ \A u \in Tasks : todo'[u] \subseteq todo[u]
        /\ todo'["poller"] = todo["poller"] \ {r}
    BY <1>0, <2>2 DEF CrossOff
  <2> QED BY <2>1, <2>3
<1>4. /\ OnlyMoves("poller") /\ pc'["poller"] = "detect"
      /\ job'["poller"].q = q /\ job'["poller"].note = n /\ job'["poller"].ret = "idle"
  <2>1. PICK k : k = [NoJob EXCEPT !.q = q, !.note = n]
    OBVIOUS
  <2>2. k.q = q /\ k.note = n /\ k.ret = "idle"
    BY <2>1 DEF NoJob
  <2>3. OnlyMoves("poller") /\ pc'["poller"] = "detect" /\ job'["poller"] = k
    BY <1>0, <1>1, <2>1 DEF OnlyMoves, TypeOK, ProcessOK, TasksOK
  <2> QED BY <2>2, <2>3
<1>5. UNCHANGED <<status, log, keys, refunds, payouts, landed, expired, phase>>
  BY <1>0 DEF store, rows, chains
<1>6. \A p \in Quotes : Stays(p)
  BY <1>5, AllStay
<1>7. \A u \in Tasks \ {"poller"} : pc[u] # "idle" => job[u].q # q
  BY <1>2, EaseKnown DEF SmoothAt, Owner
<1>8. n \in landed' /\ Takes(q, n)' /\ Awaiting(q)'
  <2>1. n \in landed /\ Takes(q, n)
    BY <1>0, <1>1 DEF Candidates, Consumable
  <2> QED BY <1>2, <1>5, <1>6, <2>1, StaysSame DEF Takes
<1>9. SmoothAt("poller", pc["poller"], job["poller"])'
  BY <1>2, <1>4, <1>8
     DEF SmoothAt, Asks, Holding, Applying, Decided, Repaying, NoteLabels, Keeping, Consuming,
         Settling, Refunding, Owner
<1>10. SmoothRows(q)'
  BY <1>2, <1>6, RowsStaySmooth DEF Awaiting
<1> QED BY <1>0, <1>3, <1>4, <1>5, <1>6, <1>7, <1>9, <1>10, SmoothKeeps

\* The poller.
LEMMA PollerSmooth ==
    ASSUME AtEase, Poller
    PROVE  Smooth'
<1>0. TypeOK /\ "poller" \in Tasks /\ phase = "up"
  BY EaseKnown
<1>1. CASE PollerList
  <2>1. TakeList("poller", Tracked \cap From("miden"))
    BY <1>1 DEF PollerList
  <2>2. \A q \in Tracked \cap From("miden") : Owner(q) = "poller" /\ Origin[q] = "miden"
    BY DEF From, Owner
  <2> QED BY <2>1, <2>2, ListsSmoothly
<1>2. ASSUME NEW r \in todo["poller"], PollerSettle(r) PROVE FALSE
  BY <1>2, EaseKnown DEF SmoothList, PollerSettle
<1>3. ASSUME NEW r \in todo["poller"], PollerSkip(r) PROVE Smooth'
  <2>1. /\ pc["poller"] = "idle" /\ CrossOff("poller", r) /\ UNCHANGED <<pc, job>>
        /\ UNCHANGED <<status, log, keys, refunds, payouts, landed, expired, phase>>
    BY <1>3 DEF PollerSkip, Searches, AtEntry, store, rows, chains
  <2>2. /\ OnlyMoves("poller") /\ pc'["poller"] = "idle"
        /\ \A u \in Tasks : todo'[u] \subseteq todo[u]
    BY <1>0, <2>1 DEF OnlyMoves, CrossOff, TypeOK, ProcessOK
  <2> QED BY <1>0, <2>1, <2>2, IdlesSmoothly
<1>4. ASSUME NEW r \in todo["poller"], PollerReject(r) PROVE Smooth'
  <2>1. /\ pc["poller"] = "idle" /\ Abort("poller")
        /\ UNCHANGED <<status, log, keys, refunds, payouts, landed, expired>>
    BY <1>4 DEF PollerReject, Searches, AtEntry, store, rows, chains
  <2>2. /\ OnlyMoves("poller") /\ pc'["poller"] = "idle"
        /\ phase' = phase /\ \A u \in Tasks : todo'[u] \subseteq todo[u]
    BY <1>0, <2>1, MovesAlone DEF Abort, TypeOK, ProcessOK
  <2> QED BY <1>0, <2>1, <2>2, IdlesSmoothly
<1> QED BY <1>1, <1>2, <1>3, <1>4, FindSmooth DEF Poller

\* The scanner finds no deadline passed, and the resume pass is over.
LEMMA LoopsSmooth ==
    ASSUME AtEase, Scanner \/ Resume
    PROVE  Smooth'
<1>0. /\ TypeOK /\ phase = "up" /\ expired = {} /\ todo["scanner"] = {}
      /\ OnDuty /\ "resume" \in Tasks
  BY EaseKnown DEF AtEase, Smooth, AtPeace, PaymentsGrounded, Tasks, Loops
<1>1. ~Boot /\ ~ResumeDone
  BY <1>0 DEF Boot, ResumeDone
<1>2. todo["resume"] = {}
  BY <1>0 DEF OnDuty, Busy
<1>3. CASE ScannerList
  <2>1. /\ UNCHANGED <<status, log, keys, refunds, payouts, landed, expired, phase, pc, job>>
        /\ todo' = [todo EXCEPT !["scanner"] = Snapshot(expired \cap Tracked)]
    BY <1>3 DEF ScannerList, TakeList, store, rows, chains
  <2>2. Snapshot(expired \cap Tracked) = {}
    BY <1>0 DEF Snapshot
  <2>3. \A u \in Tasks : todo'[u] \subseteq todo[u]
    BY <1>0, <2>1, <2>2 DEF TypeOK, ProcessOK
  <2>4. Rests /\ \A q \in Quotes : Stays(q)
    BY <2>1, AllStay DEF Rests, Still
  <2> QED BY <2>1, <2>3, <2>4, RestQuiet
<1> QED BY <1>0, <1>1, <1>2, <1>3 DEF Scanner, Resume

\* No task finds more deposits than have landed: only the users pay.
LEMMA OnlyUsersPay ==
    ASSUME [Next]_vars
    PROVE  landed' = landed \/ \E d \in Deposits : DepositLands(d)
<1>1. ASSUME NEW t \in Tasks, Apply(t) \/ Settle(t) PROVE landed' = landed
  BY <1>1 DEF Apply, ApplyIgnored, ApplyRejected, ApplyAccepted, Decide, ApplyReason, ApplyAppend,
              ApplyRecord, RefundNotOwed, Settle, SettleDone, SettleClaim, SettleRequote, chains
<1>2. ASSUME NEW t \in Tasks, Refund(t) \/ NoteRefund(t) PROVE landed' = landed
  BY <1>2 DEF Refund, RefundSend, RefundAppend, RefundConfirm, NoteRefund, NoteRefundKeyed,
              NoteRefundPoll, NoteRefundSubmit, NoteRefundAppend, NoteRefundCommitted, chains
<1>3. ASSUME NEW t \in Tasks, Mint(t) \/ Release(t) PROVE landed' = landed
  BY <1>3 DEF Mint, MintKeyed, MintPoll, MintSubmit, MintAppend, MintCommitted, MintDiscarded,
              Release, ReleaseSend, ReleaseAppend, ReleaseConfirmed, chains
<1>4. ASSUME NEW t \in Tasks, TakeNote(t) PROVE landed' = landed
  BY <1>4 DEF TakeNote, NoteFound, NoteCounted, ConsumeKeyed, ConsumeSubmit, ConsumeAppend,
              ConsumeCommitted, ConsumeDiscarded, NoteVerified, NoteForeign, chains
<1>5. CASE Watcher \/ Poller
  BY <1>5 DEF Watcher, WatcherList, TakeList, WatcherSkip, WatcherReject, WatcherConfirm, Confirm,
              WatcherDetect, Poller, PollerList, PollerSettle, PollerSkip, PollerReject,
              PollerFind, chains
<1>6. CASE Scanner \/ Resume \/ Failures
  BY <1>6 DEF Scanner, ScannerList, TakeList, ScannerExpire, Resume, Boot, ResumeDone, ResumeQuote,
              Failures, Crash, Fault, chains
<1>7. CASE PayoutFates \/ NoteFates \/ UNCHANGED vars
  BY <1>7 DEF PayoutFates, PayoutCommits, PayoutDiscarded, NoteFates, ConsumeCommits,
              ConsumeDiscards, vars, chains
<1>8. CASE Users
  BY <1>8 DEF Users, CreateQuote, DeadlinePasses, SubmitDeposit, chains
<1> QED BY <1>1, <1>2, <1>3, <1>4, <1>5, <1>6, <1>7, <1>8 DEF Next, Step

\* A quote that was asked for stays one.
LEMMA PaysKnownStep ==
    ASSUME TypeOK, PaysKnown, [Next]_vars
    PROVE  PaysKnown'
<1>1. ASSUME NEW q \in Quotes, status[q] # "NONE" PROVE status'[q] # "NONE"
  <2>1. \/ status'[q] = status[q]
        \/ \E row \in Entries : status'[q] = row.to
    BY StepSorts, RowsWritten
  <2>2. \A row \in Entries : row.to # "NONE"
    BY DEF Entries, Statuses
  <2> QED BY <1>1, <2>1, <2>2
<1>2. \A d \in landed' : PaysTo[d] # None => status[PaysTo[d]] # "NONE"
  BY OnlyUsersPay DEF PaysKnown, DepositLands
<1>3. \A d \in landed' : PaysTo[d] # None => PaysTo[d] \in Quotes
  <2>1. landed' \subseteq Deposits
    BY OnlyUsersPay DEF TypeOK, ChainsOK, DepositLands
  <2> QED BY <2>1, ConstantsAssumption
<1> QED BY <1>1, <1>2, <1>3 DEF PaysKnown

\* A step of whichever kind.
LEMMA SmoothStep ==
    ASSUME AtEase, [Next]_vars
    PROVE  Smooth'
<1>1. ASSUME NEW t \in Tasks, Step(t) PROVE Smooth'
  BY <1>1, ApplySmooth, SettleSmooth, RefundSmooth, PayoutSmooth, TakeNoteSmooth DEF Step
<1>2. ~Failures
  BY EaseKnown DEF Failures, Crash, Fault, Undisturbed
<1>3. CASE UNCHANGED vars
  <2>1. /\ UNCHANGED <<status, log, keys, refunds, payouts, landed, expired, phase>>
        /\ UNCHANGED <<pc, job, todo>>
    BY <1>3 DEF vars, store, rows, chains, process
  <2>2. Rests /\ \A q \in Quotes : Stays(q)
    BY <2>1, AllStay DEF Rests, Still
  <2> QED BY <2>1, <2>2, RestQuiet
<1> QED BY <1>1, <1>2, <1>3, WatcherSmooth, PollerSmooth, LoopsSmooth, UsersSmooth, FatesSmooth
        DEF Next

\* At the start nobody is at work and nothing is claimed.
LEMMA InitSmooth == Init => PaysKnown /\ Smooth
<1> SUFFICES ASSUME Init PROVE PaysKnown /\ Smooth
  OBVIOUS
<1>1. /\ \A q \in Quotes : status[q] = "NONE" /\ keys[q] = {} /\ refunds[q] = <<>>
      /\ landed = {} /\ expired = {} /\ phase = "up"
      /\ \A t \in Tasks : pc[t] = "idle" /\ todo[t] = {}
      /\ {"watcher", "poller", "scanner"} \subseteq Tasks
  BY DEF Init, Tasks, Loops
<1>2. \A t \in Tasks : SmoothAt(t, pc[t], job[t])
  BY <1>1 DEF SmoothAt
<1>3. ASSUME NEW q \in Quotes PROVE SmoothRows(q)
  <2>1. ~Taken(q) /\ Unclaimed(q)
    BY <1>1 DEF Taken, Unclaimed
  <2> QED BY <1>1, <2>1 DEF SmoothRows
<1>4. SmoothList("watcher") /\ SmoothList("poller")
  BY <1>1 DEF SmoothList
<1> QED BY <1>1, <1>2, <1>3, <1>4 DEF PaysKnown, Smooth

\* Without failures in the bound there are none.
LEMMA NothingFails ==
    ASSUME Undisturbed, PaymentsGrounded
    PROVE  failures = 0
<1>1. TypeOK
  BY OwnersKnown DEF PaymentsGrounded
<1> QED BY <1>1 DEF Undisturbed, TypeOK, ProcessOK

\* The invariant and that nobody pays for a quote before it was asked for.
LEMMA EaseKept ==
    ASSUME Undisturbed
    PROVE  Spec => [](PaysKnown /\ Smooth)
<1>1. Init => PaysKnown /\ Smooth
  BY InitSmooth
<1>2. PaymentsGrounded /\ CalmUntilFailure /\ PaysKnown /\ Smooth /\ [Next]_vars
        => (PaysKnown /\ Smooth)'
  <2> SUFFICES ASSUME PaymentsGrounded, CalmUntilFailure, PaysKnown, Smooth, [Next]_vars
               PROVE  (PaysKnown /\ Smooth)'
    OBVIOUS
  <2>1. AtEase
    BY NothingFails DEF AtEase, AtPeace, CalmUntilFailure
  <2>2. TypeOK
    BY <2>1, EaseKnown
  <2> QED BY <2>1, <2>2, SmoothStep, PaysKnownStep
<1> QED BY <1>1, <1>2, PaymentsKept, CalmKept, PTL DEF Spec

\* When nothing fails, the loop that serves a quote finds at each of its steps what it relies
\* on, whatever the users, the handlers and the other loop do in between, and it leaves a
\* quote with a confirmed deposit in a terminal status: the invariant behind PromiseKept.
THEOREM SmoothKept == Undisturbed => (Spec => []Smooth)
<1> SUFFICES ASSUME Undisturbed PROVE Spec => []Smooth
  OBVIOUS
<1>1. Spec => [](PaysKnown /\ Smooth)
  BY EaseKept
<1> QED BY <1>1, PTL

-----------------------------------------------------------------------------
(***************************************************************************)
(* Each step is one of the promised swap, or nobody outside notices it.       *)
(***************************************************************************)

\* What the user and the solver see of a quote depends on the deposits, the number of payouts
\* and the refunds alone.
LEMMA SeenStays ==
    ASSUME landed' = landed, refunds' = refunds,
           \A q \in Quotes : Len(payouts'[q]) = Len(payouts[q])
    PROVE  UNCHANGED Promise!swap
<1>1. \A q \in Quotes : Payments(q)' = Payments(q)
  BY DEF Payments, Counts, Takes
<1>2. PaidIn' = PaidIn
  BY <1>1 DEF PaidIn
<1>3. PaidOut' = PaidOut /\ SentBack' = SentBack
  BY DEF PaidOut, SentBack
<1> QED BY <1>2, <1>3 DEF Promise!swap

\* A payout is the promised one.
LEMMA PaysAsPromised ==
    ASSUME AtEase, NEW t \in Tasks, Pays(t)
    PROVE  Promise!Next
<1>0. /\ TypeOK /\ SmoothAt(t, pc[t], job[t]) /\ OneSettler /\ PaysOnce /\ failures = 0
      /\ pc[t] \in {"payout", "mintSubmit"}
  BY EaseKnown DEF AtEase, AtPeace, PaymentsGrounded, Pays, MintSubmit, ReleaseSend
<1>1. PICK q \in Quotes : q = job[t].q
  BY EaseKnown
<1>2. /\ UNCHANGED <<landed, refunds>>
      /\ payouts' = [payouts EXCEPT ![q] = Append(@, "pending")]
  BY <1>1 DEF Pays, MintSubmit, ReleaseSend, SendPayout
<1>3. Taken(q) /\ Repayable(q) /\ Covers(q, PaidIn[q])
  BY <1>0, <1>1 DEF SmoothAt, Settling, Agreed
<1>4. PaidIn[q] > 0
  BY <1>3, TakenPays DEF Taken
<1>5. Len(payouts[q]) = 0
  <2>1. payoutIds[q] = <<>>
    BY <1>0, <1>1 DEF PaysOnce, Paying
  <2>2. Storing(q) = {}
    <3> SUFFICES ASSUME NEW u \in Storing(q) PROVE FALSE
      OBVIOUS
    <3>1. u \in Tasks /\ pc[u] \in {"mintAppend", "releaseAppend"} /\ job[u].q = q
      BY DEF Storing
    <3>2. Occupied(u) /\ Occupied(t)
      BY <1>0, <3>1 DEF Occupied, Settling
    <3>3. t = u
      BY <1>0, <1>1, <3>1, <3>2 DEF OneSettler
    <3> QED BY <1>0, <3>1, <3>3
  <2>3. payouts[q] \in Seq(Fates)
    BY <1>0 DEF TypeOK, ChainsOK
  <2> QED BY <1>0, <2>1, <2>2, <2>3, LenProperties DEF PaysOnce
<1>6. /\ Len(payouts'[q]) = 1
      /\ \A p \in Quotes \ {q} : payouts'[p] = payouts[p]
  <2>1. payouts \in [Quotes -> Seq(Fates)] /\ "pending" \in Fates
    BY <1>0 DEF TypeOK, ChainsOK, Fates
  <2> QED BY <1>2, <1>5, <2>1, AppendProperties
<1>7. PaidOut' = [PaidOut EXCEPT ![q] = 1]
  BY <1>6 DEF PaidOut
<1>8. PaidIn' = PaidIn /\ SentBack' = SentBack
  <2>1. \A p \in Quotes : Payments(p)' = Payments(p)
    BY <1>2 DEF Payments, Counts, Takes
  <2> QED BY <1>2, <2>1 DEF PaidIn, SentBack
<1>9. PaidOut[q] = 0 /\ SentBack[q] = <<>>
  <2>1. refunds[q] = <<>>
    BY <1>3 DEF Repayable
  <2> QED BY <1>5, <2>1 DEF PaidOut, SentBack
<1>10. Promise!PayOut(q)
  BY <1>3, <1>4, <1>7, <1>8, <1>9 DEF Promise!PayOut, Promise!Unanswered
<1> QED BY <1>10 DEF Promise!Next

\* A refund is the whole deposit of a quote that was not paid out.
LEMMA RepaysAsPromised ==
    ASSUME AtEase, NEW t \in Tasks, Repays(t)
    PROVE  Promise!Next
<1>0. /\ TypeOK /\ SmoothAt(t, pc[t], job[t])
      /\ pc[t] \in {"refundSend", "refundSubmit"}
  BY EaseKnown DEF Repays, RefundSend, RefundsNow, NoteRefundSubmit, SmoothAt, Repaying
<1>1. PICK q \in Quotes : q = job[t].q
  BY EaseKnown
<1>2. Taken(q) /\ Repayable(q) /\ Unpaid(q) /\ (pc[t] = "refundSubmit" => job[t].id = PaidIn[q])
  BY <1>0, <1>1 DEF SmoothAt, Refunding, Repaying
<1>3. PaidIn[q] > 0
  BY <1>2, TakenPays DEF Taken
<1>4. PICK pay : /\ pay.amount = PaidIn[q]
                 /\ refunds' = [refunds EXCEPT ![q] = Append(@, pay)]
  <2>1. PICK amount : amount = PaidIn[q] /\ SendRefund(t, amount)
    BY <1>0, <1>1, <1>2 DEF Repays, RefundSend, NoteRefundSubmit, Repayable
  <2>2. PICK pay : pay = [cause |-> job[t].ev, amount |-> amount]
    OBVIOUS
  <2>3. refunds' = [refunds EXCEPT ![q] = Append(@, pay)]
    BY <1>1, <2>1, <2>2 DEF SendRefund
  <2> QED BY <2>1, <2>2, <2>3
<1>5. UNCHANGED <<landed, payouts>>
  BY DEF Repays, RefundSend, NoteRefundSubmit
<1>6. /\ refunds[q] = <<>> /\ refunds'[q] = <<pay>>
      /\ \A p \in Quotes \ {q} : refunds'[p] = refunds[p]
  <2>1. refunds[q] = <<>>
    BY <1>2 DEF Repayable
  <2> QED BY <1>0, <1>4, <2>1 DEF TypeOK, ChainsOK
<1>7. SentBack[q] = <<>> /\ SentBack'[q] = <<PaidIn[q]>>
  <2>1. SentBack[q] = <<>>
    BY <1>6 DEF SentBack
  <2>2. SentBack'[q] = [i \in 1..1 |-> <<pay>>[i].amount]
    BY <1>6 DEF SentBack
  <2>3. SentBack'[q] = <<pay.amount>>
    BY <2>2
  <2> QED BY <1>4, <2>1, <2>3
<1>8. SentBack' = [SentBack EXCEPT ![q] = <<PaidIn[q]>>]
  <2>1. \A p \in Quotes \ {q} : SentBack'[p] = SentBack[p]
    BY <1>6 DEF SentBack
  <2>2. /\ SentBack = [p \in Quotes |-> SentBack[p]]
        /\ SentBack' = [p \in Quotes |-> SentBack'[p]]
    BY DEF SentBack
  <2> HIDE DEF SentBack
  <2> QED BY <1>7, <2>1, <2>2
<1>9. PaidIn' = PaidIn /\ PaidOut' = PaidOut
  <2>1. \A p \in Quotes : Payments(p)' = Payments(p)
    BY <1>5 DEF Payments, Counts, Takes
  <2> QED BY <1>5, <2>1 DEF PaidIn, PaidOut
<1>10. PaidOut[q] = 0
  BY <1>2 DEF PaidOut, Unpaid
<1>11. Promise!GiveBack(q)
  BY <1>3, <1>7, <1>8, <1>9, <1>10 DEF Promise!GiveBack, Promise!Unanswered
<1> QED BY <1>11 DEF Promise!Next

\* A deposit that counts is the payment of its quote; nobody notices another.
LEMMA LandsAsPromised ==
    ASSUME AtEase, NEW d \in Deposits, DepositLands(d)
    PROVE  [Promise!Next]_(Promise!swap)
<1>1. landed' = landed \cup {d} /\ UNCHANGED <<payouts, refunds>> /\ d \notin landed
  BY DEF DepositLands
<1>2. PaidOut' = PaidOut /\ SentBack' = SentBack
  BY <1>1 DEF PaidOut, SentBack
<1>3. ASSUME NEW p \in Quotes, ~Counts(p, d) PROVE PaidIn'[p] = PaidIn[p]
  <2>1. Payments(p)' = Payments(p)
    BY <1>1, <1>3 DEF Payments, Counts, Takes
  <2> QED BY <2>1 DEF PaidIn
<1>4. CASE \A p \in Quotes : ~Counts(p, d)
  <2>1. PaidIn' = PaidIn
    BY <1>3, <1>4 DEF PaidIn
  <2> QED BY <1>2, <2>1 DEF Promise!swap
<1>5. ASSUME NEW q \in Quotes, Counts(q, d) PROVE [Promise!Next]_(Promise!swap)
  <2>1. landed \subseteq Deposits
    BY EaseKnown DEF TypeOK, ChainsOK
  <2>2. Payments(q) = {} /\ Payments(q)' = {d}
    <3>1. Payments(q) = {}
      BY <1>1, <1>5, <2>1, EaseKnown DEF Payments, Undisturbed
    <3>2. Payments(q)' = {e \in landed \cup {d} : Counts(q, e)}
      BY <1>1 DEF Payments, Counts, Takes
    <3> QED BY <1>5, <3>1, <3>2 DEF Payments
  <2>3. PaidIn[q] = 0 /\ PaidIn'[q] = Amount[d] /\ Amount[d] \in Nat
    <3>1. PaidIn[q] = Total({})
      BY <2>2 DEF PaidIn
    <3>2. PaidIn'[q] = Total({d})
      BY <2>2 DEF PaidIn
    <3> QED BY <3>1, <3>2, TotalOfNone, TotalOfOne, ConstantsAssumption
  <2>4. \A p \in Quotes \ {q} : PaidIn'[p] = PaidIn[p]
    <3>1. \A p \in Quotes \ {q} : ~Counts(p, d)
      BY <1>5 DEF Counts
    <3> QED BY <1>3, <3>1
  <2>5. /\ PaidIn = [p \in Quotes |-> PaidIn[p]]
        /\ PaidIn' = [p \in Quotes |-> PaidIn'[p]]
    BY DEF PaidIn
  <2>6. CASE Amount[d] = 0
    <3>1. PaidIn' = PaidIn
      <4> HIDE DEF PaidIn
      <4> QED BY <2>3, <2>4, <2>5, <2>6
    <3> QED BY <1>2, <3>1 DEF Promise!swap
  <2>7. CASE Amount[d] > 0
    <3>1. PaidIn' = [PaidIn EXCEPT ![q] = PaidIn'[q]]
      <4> HIDE DEF PaidIn
      <4> QED BY <2>4, <2>5
    <3>2. PaidIn[q] = 0 /\ PaidIn'[q] > 0
      BY <2>3, <2>7
    <3>3. Promise!Pay(q)
      BY <1>2, <3>1, <3>2 DEF Promise!Pay
    <3> QED BY <3>3 DEF Promise!Next
  <2> QED BY <2>3, <2>6, <2>7
<1> QED BY <1>4, <1>5

\* A step of whichever kind.
LEMMA StepAsPromised ==
    ASSUME AtEase, [Next]_vars
    PROVE  [Promise!Next]_(Promise!swap)
<1>1. TypeOK
  BY EaseKnown
<1>2. CASE \E t \in Tasks : Pays(t) \/ Repays(t)
  BY <1>2, PaysAsPromised, RepaysAsPromised
<1>3. CASE \E d \in Deposits : DepositLands(d)
  BY <1>3, LandsAsPromised
<1>4. CASE /\ ~ \E t \in Tasks : Pays(t) \/ Repays(t)
           /\ ~ \E d \in Deposits : DepositLands(d)
  <2>1. landed' = landed
    BY <1>4, OnlyUsersPay
  <2>2. \A q \in Quotes : Len(payouts'[q]) = Len(payouts[q])
    BY <1>1, <1>4, StepSorts, Writers
  <2>3. refunds' = refunds
    <3>1. ASSUME NEW t \in Tasks, Decides(t) PROVE refunds' = refunds
      BY <3>1 DEF Decides, ApplyAccepted, Decide, ApplyReason, ApplyAppend, chains
    <3>2. ASSUME NEW t \in Tasks, ApplyRecord(t) PROVE refunds' = refunds
      BY <3>2 DEF ApplyRecord, chains
    <3>3. ASSUME NEW q \in Quotes, CreateQuote(q) PROVE refunds' = refunds
      BY <3>3 DEF CreateQuote, chains
    <3> QED BY <1>1, <1>4, <3>1, <3>2, <3>3, StepKinds DEF StepKind, Quiet, Claims
  <2> QED BY <2>1, <2>2, <2>3, SeenStays
<1> QED BY <1>2, <1>3, <1>4

\* At the start nobody paid anything.
LEMMA InitAsPromised == Init => Promise!Init
<1> SUFFICES ASSUME Init PROVE Promise!Init
  OBVIOUS
<1>1. landed = {} /\ \A q \in Quotes : payouts[q] = <<>> /\ refunds[q] = <<>>
  BY DEF Init
<1>2. ASSUME NEW q \in Quotes PROVE Payments(q) = {}
  BY <1>1 DEF Payments
<1>3. PaidIn = [q \in Quotes |-> 0]
  BY <1>2, TotalOfNone DEF PaidIn
<1>4. PaidOut = [q \in Quotes |-> 0] /\ SentBack = [q \in Quotes |-> <<>>]
  BY <1>1 DEF PaidOut, SentBack
<1> QED BY <1>3, <1>4 DEF Promise!Init

\* When nothing fails, polling, keys, claims and re-quotes add up to the promised swap for
\* every number of quotes, deposits, handlers and submissions: a deposit is answered by one
\* payout it covers or by one refund of the whole of it, and a quote nobody pays by neither.
THEOREM PromiseKept == Undisturbed => (Spec => KeepsPromise)
<1> SUFFICES ASSUME Undisturbed PROVE Spec => KeepsPromise
  OBVIOUS
<1>1. Init => Promise!Init
  BY InitAsPromised
<1>2. Spec => [](PaysKnown /\ Smooth)
  BY EaseKept
<1>3. PaymentsGrounded /\ CalmUntilFailure /\ PaysKnown /\ Smooth /\ [Next]_vars
        => [Promise!Next]_(Promise!swap)
  <2> SUFFICES ASSUME PaymentsGrounded, CalmUntilFailure, PaysKnown, Smooth, [Next]_vars
               PROVE  [Promise!Next]_(Promise!swap)
    OBVIOUS
  <2>1. AtEase
    BY NothingFails DEF AtEase, AtPeace, CalmUntilFailure
  <2> QED BY <2>1, StepAsPromised
<1> QED BY <1>1, <1>2, <1>3, PaymentsKept, CalmKept, PTL
        DEF Spec, KeepsPromise, Promise!Spec
=============================================================================
