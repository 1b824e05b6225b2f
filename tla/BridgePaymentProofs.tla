-------------------------- MODULE BridgePaymentProofs --------------------------
(***************************************************************************)
(* Theorems about what Bridge pays out, refunds, consumes and records as      *)
(* success, for every number of quotes, transactions, notes, handlers and     *)
(* failures.                                                                  *)
(*                                                                            *)
(* Three of them are read off the grounds of BridgeGroundsProofs.  The others *)
(* need that one task alone settles a quote (OneSettler), which follows from  *)
(* the grounds and from the phases of the process (OnDuty), and an invariant  *)
(* each; for these the steps of the system are sorted by what they write and  *)
(* where a task arrives (StepSort).                                           *)
(***************************************************************************)
EXTENDS BridgeGroundsProofs, FiniteSetTheorems

-----------------------------------------------------------------------------
(***************************************************************************)
(* Whom the solver pays.                                                      *)
(***************************************************************************)

\* Every quote's rows are accounted for.
LEMMA QuotesAccounted ==
    ASSUME WellGrounded, NEW q \in Quotes
    PROVE  Accounted(q)
BY DEF WellGrounded

\* The solver mints or refunds for an EVM-origin quote only if its first submitted hash is
\* a confirmed payment to it, whatever hashes were submitted and however often.
THEOREM MintsForDeposits == Spec => []PaysOnlyForDeposits
<1>1. OneOwnerPerEvent /\ WellGrounded => PaysOnlyForDeposits
  BY QuotesAccounted DEF PaysOnlyForDeposits, From, Accounted, Funded
<1> QED BY <1>1, Grounds, PTL

\* The solver releases or refunds for a Miden-origin quote only if a note it takes for that
\* quote has landed.
THEOREM ReleasesForNotes == Spec => []PaysOnlyForNotes
<1>1. OneOwnerPerEvent /\ WellGrounded => PaysOnlyForNotes
  BY QuotesAccounted DEF PaysOnlyForNotes, From, Accounted, Funded, Takes
<1> QED BY <1>1, Grounds, PTL

\* A row that says SUCCESS names a payout that was sent and whose id is on record.
THEOREM SuccessBacked == Spec => []SuccessIsBacked
<1>1. OneOwnerPerEvent /\ WellGrounded => SuccessIsBacked
  <2> SUFFICES ASSUME OneOwnerPerEvent, WellGrounded, NEW q \in Quotes,
                      NEW i \in 1..Len(log[q]), log[q][i].to = "SUCCESS"
               PROVE  /\ log[q][i].ev.datum \in 1..Len(payouts[q])
                      /\ Contains(payoutIds[q], log[q][i].ev.datum)
    BY DEF SuccessIsBacked
  <2>1. payoutIds[q] \in Seq(Nat)
    BY OwnersKnown DEF TypeOK, StoreOK
  <2> QED BY <2>1, QuotesAccounted, ContainsRange DEF Accounted
<1> QED BY <1>1, Grounds, PTL

-----------------------------------------------------------------------------
(***************************************************************************)
(* One task alone settles a quote.                                            *)
(***************************************************************************)

\* A task that occupies a quote serves it, and is on duty.
LEMMA OccupiedServes ==
    ASSUME OneOwnerPerEvent, WellGrounded, NEW t \in Tasks, Occupied(t)
    PROVE  Serves(t, job[t].q) /\ Busy(t) /\ job[t].q \in Quotes
<1>1. Serves(t, job[t].q)
  BY DEF WellGrounded, Grounded, Occupied
<1>2. Busy(t)
  BY DEF Busy, Occupied, Settling, Applying, Decided
<1> QED BY <1>1, <1>2, OwnersKnown

\* Two tasks never settle one quote: the loops serve different origins, and none of them
\* runs while the resume pass does.
LEMMA SettlersAlone ==
    ASSUME OneOwnerPerEvent, WellGrounded, OnDuty
    PROVE  OneSettler
<1> SUFFICES ASSUME NEW t \in Tasks, NEW u \in Tasks, Occupied(t), Occupied(u),
                    job[t].q = job[u].q
             PROVE  t = u
  BY DEF OneSettler
<1>1. PICK q \in Quotes : q = job[t].q /\ q = job[u].q
  BY OccupiedServes
<1>2. Serves(t, q) /\ Serves(u, q) /\ Busy(t) /\ Busy(u)
  BY <1>1, OccupiedServes
<1>3. t = "resume" <=> u = "resume"
  BY <1>2 DEF OnDuty
<1> QED BY <1>2, <1>3 DEF Serves

-----------------------------------------------------------------------------
(***************************************************************************)
(* The sorts of steps.                                                        *)
(***************************************************************************)

Still(t) == pc'[t] = pc[t] /\ job'[t] = job[t]

\* The labels the invariants speak of, and of these the ones of a payout not yet on record.
Sent    == {"mintAppend", "releaseAppend"}
Telling == Applying \cup Sent \cup {"payout", "mintSubmit", "consumeSubmit", "consumeAppend"}

\* No row but a refund id is written, no payout sent, and no task arrives at a telling label;
\* one that loses sight of a payout has failed.
Aside ==
    /\ UNCHANGED <<status, log, depositTxs, consumeIds, payoutIds>>
    /\ \A q \in Quotes : Len(payouts'[q]) = Len(payouts[q])
    /\ failures' \in {failures, failures + 1}
    /\ \A t \in Tasks :
         Still(t) \/ (pc'[t] \notin Telling /\ (pc[t] \in Sent => failures < failures'))

\* A task calls apply with a new event.
Raises(t, q, ev) ==
    /\ UNCHANGED <<rows, chains, failures>>
    /\ Claims(t, q, ev)
    /\ pc[t] \notin Sent

\* A task is about to send a payout the quote lacks.
TurnsToPay(t) ==
    /\ UNCHANGED <<rows, chains, failures>>
    /\ pc[t] \in Settling \ Sent
    /\ pc[t] \in {"payout", "mintSubmit"} \/ payoutIds[job[t].q] = <<>>
    /\ pc'[t] \in {"payout", "mintSubmit"} /\ job'[t].q = job[t].q
    /\ OnlyMoves(t)

\* It sends it, and stores its id.
Pays(t) == MintSubmit(t) \/ ReleaseSend(t)
Stores(t) == MintAppend(t) \/ ReleaseAppend(t)

\* The poller is about to consume a note nobody has consumed.
OpensNote(t) ==
    /\ ConsumeKeyed(t)
    /\ ConsumeKey(job[t].note) \notin keys[job[t].q]

StepSort ==
    \/ Aside
    \/ \E t \in Tasks, q \in Quotes, ev \in Events : Raises(t, q, ev)
    \/ \E t \in Tasks : Decides(t) \/ ApplyRecord(t)
    \/ \E t \in Tasks : TurnsToPay(t) \/ Pays(t) \/ Stores(t)
    \/ \E t \in Tasks : OpensNote(t) \/ ConsumeSubmit(t) \/ ConsumeAppend(t)
    \/ \E q \in Quotes : CreateQuote(q)

\* One task at a time moves.
LEMMA MovesAlone ==
    ASSUME TypeOK, NEW t \in Tasks
    PROVE  /\ \A q, l : Continue(t, q, l) => OnlyMoves(t) /\ pc'[t] = l
           /\ \A l : Goto(t, l) => OnlyMoves(t) /\ pc'[t] = l /\ job'[t] = job[t]
           /\ Abort(t) => OnlyMoves(t) /\ pc'[t] = "idle"
           /\ \A l, id : pc' = [pc EXCEPT ![t] = l] /\ job' = [job EXCEPT ![t].id = id]
                => OnlyMoves(t) /\ pc'[t] = l /\ job'[t].q = job[t].q
<1>1. pc \in [Tasks -> Labels] /\ job \in [Tasks -> Jobs] /\ job[t] \in Jobs
  BY DEF TypeOK, ProcessOK, TasksOK
<1>2. \A q, l : Continue(t, q, l) => OnlyMoves(t) /\ pc'[t] = l
  BY <1>1 DEF Continue, OnlyMoves
<1>3. \A l : Goto(t, l) => OnlyMoves(t) /\ pc'[t] = l /\ job'[t] = job[t]
  BY <1>1 DEF Goto, OnlyMoves
<1>4. Abort(t) => OnlyMoves(t) /\ pc'[t] = "idle"
  BY <1>1 DEF Abort, OnlyMoves
<1>5. \A l, id : pc' = [pc EXCEPT ![t] = l] /\ job' = [job EXCEPT ![t].id = id]
         => OnlyMoves(t) /\ pc'[t] = l /\ job'[t].q = job[t].q
  BY <1>1 DEF OnlyMoves, Jobs
<1> QED BY <1>2, <1>3, <1>4, <1>5

\* A task that goes elsewhere leaves the payouts alone.
LEMMA GoesAside ==
    ASSUME TypeOK, NEW t \in Tasks, OnlyMoves(t), pc'[t] \notin Telling, pc[t] \notin Sent,
           UNCHANGED <<status, log, depositTxs, consumeIds, payoutIds, payouts, failures>>
    PROVE  Aside
<1> QED BY DEF Aside, OnlyMoves, Still

\* The labels a step aside goes to, and the ones apply returns to.
LEMMA AsideLabels ==
    /\ Returns \cap Telling = {}
    /\ {"verify", "mintWait", "releaseWait", "consumeWait", "refundSend", "refundAppend",
        "refundConfirm", "refundSubmit", "refundStore", "refundWait", "refundCheck",
        "detect"} \cap Telling = {}
BY DEF Returns, Telling, Applying, Decided, Sent

\* With no task moving, it is a step aside.
LEMMA StaysAside ==
    ASSUME UNCHANGED <<status, log, depositTxs, consumeIds, payoutIds, pc, job>>,
           \A q \in Quotes : Len(payouts'[q]) = Len(payouts[q]),
           failures' \in {failures, failures + 1}
    PROVE  Aside
BY DEF Aside, Still

\* A call of apply raises a new event, or goes aside.
LEMMA CallSort ==
    ASSUME TypeOK, NEW t \in Tasks, NEW q \in Quotes, NEW ev \in Events, NEW ret \in Returns,
           CallApply(t, q, ev, ret), pc[t] \notin Sent, UNCHANGED <<rows, chains, failures>>
    PROVE  StepSort
<1>1. CASE ev \in keys[q]
  <2>1. Continue(t, q, ret)
    BY <1>1 DEF CallApply
  <2>2. OnlyMoves(t) /\ pc'[t] \notin Telling
    BY <2>1, MovesAlone, AsideLabels
  <2>3. Aside
    BY <2>2, GoesAside DEF rows, chains
  <2> QED BY <2>3 DEF StepSort
<1>2. CASE ev \notin keys[q]
  <2>1. BurnKey(q, ev) /\ pc' = [pc EXCEPT ![t] = "decide"]
    BY <1>2 DEF CallApply
  <2>2. PICK j : job' = [job EXCEPT ![t] = j] /\ j.q = q /\ j.ev = ev
    <3> DEFINE k == [Fresh(t, q) EXCEPT !.ev = ev, !.ret = ret]
    <3>1. job' = [job EXCEPT ![t] = k]
      BY <1>2 DEF CallApply
    <3>2. k.q = q /\ k.ev = ev
      BY DEF Fresh, NoJob
    <3> HIDE DEF k
    <3> QED BY <3>1, <3>2
  <2>3. pc'[t] = "decide" /\ job'[t].q = q /\ job'[t].ev = ev /\ OnlyMoves(t)
    BY <2>1, <2>2 DEF OnlyMoves, TypeOK, ProcessOK, TasksOK
  <2>4. Raises(t, q, ev)
    BY <1>2, <2>1, <2>3 DEF Raises, Claims, BurnKey, rows, chains
  <2> QED BY <2>4 DEF StepSort
<1> QED BY <1>1, <1>2

\* A task that returns, fails or jumps while nothing else changes goes aside.
LEMMA GoesOff ==
    ASSUME TypeOK, NEW t \in Tasks, pc[t] \notin Sent, NEW l, l \notin Telling,
           \/ Return(t) \/ Abort(t) \/ Goto(t, l) \/ \E q : Continue(t, q, l)
           \/ /\ pc' = [pc EXCEPT ![t] = l]
              /\ \E id : job' = [job EXCEPT ![t].id = id],
           UNCHANGED <<status, log, depositTxs, consumeIds, payoutIds, payouts, failures>>
    PROVE  StepSort
<1>1. job[t].ret \in Returns
  BY JobTyped DEF TypeOK, ProcessOK
<1>2. job[t].ret \notin Telling /\ "idle" \notin Telling
  BY <1>1, AsideLabels DEF Returns
<1>3. OnlyMoves(t) /\ pc'[t] \notin Telling
  BY <1>2, MovesAlone DEF Return
<1>4. Aside
  BY <1>3, GoesAside
<1> QED BY <1>4 DEF StepSort

\* The sorts of the steps of apply.
LEMMA ApplySort ==
    ASSUME TypeOK, NEW t \in Tasks, Apply(t)
    PROVE  StepSort
<1>1. CASE ApplyIgnored(t) \/ RefundNotOwed(t) \/ ApplyRejected(t)
  <2>1. /\ pc[t] \notin Sent /\ (Return(t) \/ Abort(t))
        /\ UNCHANGED <<status, log, depositTxs, consumeIds, payoutIds, payouts, failures>>
    BY <1>1 DEF ApplyIgnored, RefundNotOwed, ApplyRejected, Sent, store, rows, chains
  <2>2. "detect" \notin Telling
    BY AsideLabels
  <2> QED BY <2>1, <2>2, GoesOff
<1>2. CASE Decides(t) \/ ApplyRecord(t)
  BY <1>2 DEF StepSort
<1> QED BY <1>1, <1>2 DEF Apply, Decides

\* The sorts of the steps of a refund.
LEMMA RefundSort ==
    ASSUME TypeOK, NEW t \in Tasks, Refund(t) \/ NoteRefund(t)
    PROVE  StepSort
<1>1. /\ pc[t] \notin Sent
      /\ UNCHANGED <<status, log, depositTxs, consumeIds, payoutIds, payouts, failures>>
  BY DEF Refund, RefundSend, RefundAppend, RefundConfirm, RefundsNow, Sent, store, rows, chains,
         NoteRefund, NoteRefundKeyed, NoteRefundPoll, NoteRefundSubmit, NoteRefundAppend,
         NoteRefundCommitted
<1>2. CASE Refund(t)
  <2>1. PICK l \in {"refundAppend", "refundConfirm"} :
           \/ Return(t) \/ Goto(t, l)
           \/ pc' = [pc EXCEPT ![t] = l] /\ \E id : job' = [job EXCEPT ![t].id = id]
    BY <1>2 DEF Refund, RefundSend, RefundAppend, RefundConfirm
  <2>2. l \notin Telling
    BY AsideLabels
  <2> QED BY <1>1, <2>1, <2>2, GoesOff
<1>3. CASE NoteRefund(t)
  <2>1. PICK l \in {"refundSubmit", "refundStore", "refundWait"} :
           \/ Return(t) \/ Goto(t, l)
           \/ pc' = [pc EXCEPT ![t] = l] /\ \E id : job' = [job EXCEPT ![t].id = id]
    <3>1. CASE NoteRefundKeyed(t) \/ NoteRefundSubmit(t)
      BY <3>1 DEF NoteRefundKeyed, NoteRefundSubmit
    <3>2. CASE NoteRefundPoll(t)
      <4>1. PICK l \in {"refundSubmit", "refundWait"} : pc' = [pc EXCEPT ![t] = l]
        BY <3>2 DEF NoteRefundPoll
      <4>2. \E id : job' = [job EXCEPT ![t].id = id]
        BY <3>2 DEF NoteRefundPoll
      <4> QED BY <4>1, <4>2
    <3>3. CASE NoteRefundAppend(t) \/ NoteRefundCommitted(t)
      BY <3>3 DEF NoteRefundAppend, NoteRefundCommitted
    <3> QED BY <1>3, <3>1, <3>2, <3>3 DEF NoteRefund
  <2>2. l \notin Telling
    BY AsideLabels
  <2> QED BY <1>1, <2>1, <2>2, GoesOff
<1> QED BY <1>2, <1>3

\* The sorts of the steps of settle.
LEMMA SettleSort ==
    ASSUME TypeOK, NEW t \in Tasks, Settle(t)
    PROVE  StepSort
<1>0. PICK q \in Quotes : q = job[t].q
  BY JobTyped DEF TypeOK, ProcessOK
<1>a. payoutIds[q] \in Seq(Nat)
  BY DEF TypeOK, StoreOK
<1>b. {"idle", "reload"} \subseteq Returns /\ "idle" \notin Telling
  BY DEF Returns, Telling, Applying, Decided, Sent
<1>1. CASE SettleDone(t)
  <2>1. /\ pc[t] \notin Sent /\ Continue(t, q, "idle")
        /\ UNCHANGED <<status, log, depositTxs, consumeIds, payoutIds, payouts, failures>>
    BY <1>0, <1>1 DEF SettleDone, Sent, store, rows, chains
  <2> QED BY <1>b, <2>1, GoesOff
<1>2. CASE SettleClaim(t)
  <2>1. /\ pc[t] \notin Sent /\ CallApply(t, q, Initiated, "reload")
        /\ UNCHANGED <<rows, chains, failures>>
    BY <1>0, <1>2 DEF SettleClaim, Sent
  <2> QED BY <1>b, <2>1, EventsTyped, CallSort
<1>3. ASSUME NEW out \in Outputs, SettleRequote(t, out) PROVE StepSort
  <2>1. pc[t] \in Settling \ Sent /\ UNCHANGED <<rows, chains, failures>>
    BY <1>3 DEF SettleRequote, Claimed, Settling, Sent
  <2>2. ASSUME NEW ev \in Events, CallApply(t, q, ev, "idle") PROVE StepSort
    BY <1>b, <2>1, <2>2, CallSort
  <2>3. CASE CallApply(t, q, Slippage(out), "idle")
    BY ConstantsAssumption, <2>2, <2>3, EventsTyped
  <2>4. CASE payoutIds[q] # <<>> /\ CallApply(t, q, Succeeded(Last(payoutIds[q])), "idle")
    BY <1>a, <2>2, <2>4, LastTyped, EventsTyped
  <2>5. CASE payoutIds[q] = <<>> /\ Continue(t, q, "payout")
    <3>1. /\ pc' = [pc EXCEPT ![t] = "payout"] /\ job' = [job EXCEPT ![t] = Fresh(t, q)]
          /\ Fresh(t, q).q = q
      BY <2>5 DEF Continue, Fresh, NoJob
    <3>2. pc'[t] = "payout" /\ job'[t].q = q
      BY <3>1 DEF TypeOK, ProcessOK, TasksOK
    <3>3. OnlyMoves(t)
      BY <2>5, MovesAlone
    <3>4. TurnsToPay(t)
      BY <1>0, <2>1, <2>5, <3>2, <3>3 DEF TurnsToPay
    <3> QED BY <3>4 DEF StepSort
  <2>6. \/ CallApply(t, q, Slippage(out), "idle")
        \/ payoutIds[q] # <<>> /\ CallApply(t, q, Succeeded(Last(payoutIds[q])), "idle")
        \/ payoutIds[q] = <<>> /\ Continue(t, q, "payout")
    <3>1. Terms[q].minAmountOut \in Nat /\ out \in Nat
      BY ConstantsAssumption
    <3> QED BY <1>0, <1>3, <3>1 DEF SettleRequote
  <2> QED BY <2>3, <2>4, <2>5, <2>6
<1> QED BY <1>1, <1>2, <1>3 DEF Settle

\* The sorts of the steps of a mint and of a release.
LEMMA PayoutSort ==
    ASSUME TypeOK, NEW t \in Tasks, Mint(t) \/ Release(t)
    PROVE  StepSort
<1>0. PICK q \in Quotes : q = job[t].q
  BY JobTyped DEF TypeOK, ProcessOK
<1>1. CASE Pays(t) \/ Stores(t)
  BY <1>1 DEF StepSort
<1>2. CASE MintKeyed(t) \/ (MintPoll(t) /\ payoutIds[q] = <<>>)
  <2>1. /\ pc[t] = "payout" /\ Goto(t, "mintSubmit")
        /\ UNCHANGED <<rows, chains, failures>>
    BY <1>0, <1>2 DEF MintKeyed, MintPoll, Mints, store
  <2>2. TurnsToPay(t)
    BY <2>1, MovesAlone DEF TurnsToPay, Settling, Sent
  <2> QED BY <2>2 DEF StepSort
<1>3. CASE MintPoll(t) /\ payoutIds[q] # <<>>
  <2>1. /\ pc[t] \notin Sent /\ pc' = [pc EXCEPT ![t] = "mintWait"]
        /\ \E id : job' = [job EXCEPT ![t].id = id]
        /\ UNCHANGED <<status, log, depositTxs, consumeIds, payoutIds, payouts, failures>>
    BY <1>0, <1>3 DEF MintPoll, Mints, Sent, store, rows, chains
  <2> QED BY <2>1, AsideLabels, GoesOff
<1>4. CASE MintCommitted(t) \/ ReleaseConfirmed(t)
  <2>1. /\ pc[t] \notin Sent /\ CallApply(t, q, Succeeded(job[t].id), "idle")
        /\ UNCHANGED <<rows, chains, failures>>
    BY <1>0, <1>4 DEF MintCommitted, ReleaseConfirmed, Sent
  <2>2. Succeeded(job[t].id) \in Events /\ "idle" \in Returns
    BY EventsTyped, JobTyped DEF TypeOK, ProcessOK, Returns
  <2> QED BY <2>1, <2>2, CallSort
<1>5. CASE MintDiscarded(t)
  <2>1. /\ pc[t] \notin Sent /\ Abort(t)
        /\ UNCHANGED <<status, log, depositTxs, consumeIds, payoutIds, payouts, failures>>
    BY <1>5 DEF MintDiscarded, Sent, store, rows, chains
  <2> QED BY <2>1, AsideLabels, GoesOff
<1> QED BY <1>0, <1>1, <1>2, <1>3, <1>4, <1>5 DEF Mint, Release, Pays, Stores

\* The sorts of the poller's steps with a note.
LEMMA TakeNoteSort ==
    ASSUME TypeOK, NEW t \in Tasks, TakeNote(t)
    PROVE  StepSort
<1>0. PICK q \in Quotes : q = job[t].q
  BY JobTyped DEF TypeOK, ProcessOK
<1>1. pc[t] \notin Sent /\ pc[t] \in NoteLabels /\ failures' = failures
  BY DEF TakeNote, NoteFound, NoteCounted, ConsumeKeyed, ConsumeSubmit, ConsumeAppend,
         ConsumeCommitted, ConsumeDiscarded, NoteVerified, NoteForeign, NoteLabels, Sent
<1>2. {"verify", "settle"} \cap Telling = {} /\ {"confirm", "consume"} \subseteq Returns
  BY DEF Returns, Telling, Applying, Decided, Sent
<1>3. CASE NoteFound(t) \/ NoteCounted(t)
  <2>1. job[t].note \in Notes
    BY <1>1, JobTyped DEF TypeOK, ProcessOK
  <2>2. PICK ev \in Events, ret \in {"confirm", "consume"} : CallApply(t, q, ev, ret)
    BY <1>0, <1>3, <2>1, EventsTyped DEF NoteFound, NoteCounted
  <2>3. UNCHANGED <<rows, chains, failures>>
    BY <1>3 DEF NoteFound, NoteCounted
  <2> QED BY <1>1, <1>2, <2>2, <2>3, CallSort
<1>4. CASE OpensNote(t) \/ ConsumeSubmit(t) \/ ConsumeAppend(t)
  BY <1>4 DEF StepSort
<1>5. ASSUME Onward(t) \/ Abort(t) \/ Continue(t, job[t].q, "settle"), UNCHANGED <<rows, chains>>
      PROVE  StepSort
  <2>1. PICK l \in {"verify", "settle"} : Abort(t) \/ Continue(t, q, l)
    BY <1>0, <1>5 DEF Onward
  <2> QED BY <1>1, <1>2, <1>5, <2>1, GoesOff DEF rows, chains
<1>6. CASE ConsumeKeyed(t) /\ ~OpensNote(t)
  <2>1. Onward(t) /\ UNCHANGED <<rows, chains>>
    BY <1>6 DEF ConsumeKeyed, OpensNote
  <2> QED BY <1>5, <2>1
<1>7. CASE ConsumeCommitted(t) \/ ConsumeDiscarded(t) \/ NoteVerified(t) \/ NoteForeign(t)
  <2>1. /\ Onward(t) \/ Abort(t) \/ Continue(t, job[t].q, "settle")
        /\ UNCHANGED <<rows, chains>>
    BY <1>7 DEF ConsumeCommitted, ConsumeDiscarded, NoteVerified, NoteForeign, store
  <2> QED BY <1>5, <2>1
<1> QED BY <1>3, <1>4, <1>6, <1>7 DEF TakeNote

\* A list that is taken, and an entry crossed off without a task moving.
LEMMA ListsAside ==
    ASSUME TypeOK, UNCHANGED <<rows, chains, pc, job, failures>>
    PROVE  StepSort
<1>1. Aside
  BY StaysAside DEF rows, chains
<1> QED BY <1>1 DEF StepSort

\* The sorts of what users do.
LEMMA UsersSort ==
    ASSUME TypeOK, Users
    PROVE  StepSort
<1>1. ASSUME NEW q \in Quotes, CreateQuote(q) PROVE StepSort
  BY <1>1 DEF StepSort
<1>2. ASSUME NEW x, DeadlinePasses(x) \/ DepositLands(x) PROVE StepSort
  <2>1. UNCHANGED <<rows, payouts, pc, job, failures>>
    BY <1>2 DEF DeadlinePasses, DepositLands, store, process
  <2>2. Aside
    BY <2>1, StaysAside DEF rows
  <2> QED BY <2>2 DEF StepSort
<1>3. ASSUME NEW h \in Handlers, NEW s \in Submissions, SubmitDeposit(h, s[1], s[2])
      PROVE  StepSort
  <2>1. h \in Tasks /\ s[1] \in Quotes /\ s[2] \in Txs /\ "idle" \in Returns
    BY ConstantsAssumption DEF Tasks, Returns
  <2>2. /\ pc[h] \notin Sent /\ CallApply(h, s[1], Detected(s[2]), "idle")
        /\ UNCHANGED <<rows, chains, failures>>
    BY <1>3 DEF SubmitDeposit, Sent
  <2> QED BY <2>1, <2>2, EventsTyped, CallSort
<1> QED BY <1>1, <1>2, <1>3 DEF Users

\* The sorts of the watcher's steps.
LEMMA WatcherSort ==
    ASSUME TypeOK, Watcher
    PROVE  StepSort
<1>0. /\ "watcher" \in Tasks /\ {"idle", "settle"} \subseteq Returns
      /\ \A r \in todo["watcher"] : r.q \in Quotes
  BY ListedTyped DEF Loops
<1>1. CASE WatcherList \/ \E r \in todo["watcher"] : WatcherSkip(r)
  <2>1. UNCHANGED <<rows, chains, pc, job, failures>>
    BY <1>1 DEF WatcherList, TakeList, WatcherSkip, store
  <2> QED BY <2>1, ListsAside
<1>2. ASSUME NEW r \in todo["watcher"], WatcherReject(r) PROVE StepSort
  <2>1. /\ pc["watcher"] \notin Sent /\ Abort("watcher")
        /\ UNCHANGED <<status, log, depositTxs, consumeIds, payoutIds, payouts, failures>>
    BY <1>2 DEF WatcherReject, Examines, AtEntry, Sent, store, rows, chains
  <2> QED BY <1>0, <2>1, AsideLabels, GoesOff
<1>3. ASSUME NEW r \in todo["watcher"], NEW tx \in Txs, WatcherDetect(r, tx) PROVE StepSort
  <2>1. /\ pc["watcher"] \notin Sent /\ CallApply("watcher", r.q, Detected(tx), "idle")
        /\ UNCHANGED <<rows, chains, failures>>
    BY <1>3 DEF WatcherDetect, AtEntry, Sent
  <2> QED BY <1>0, <2>1, EventsTyped, CallSort
<1>4. ASSUME NEW r \in todo["watcher"], WatcherConfirm(r) PROVE StepSort
  <2>1. /\ pc["watcher"] \notin Sent /\ HasHash(r.q)
        /\ CallApply("watcher", r.q, Confirmed(FirstTx(r.q)), "settle")
        /\ UNCHANGED <<rows, chains, failures>>
    BY <1>4 DEF WatcherConfirm, Confirm, Examines, AtEntry, Awaited, Sent
  <2>2. FirstTx(r.q) \in Txs
    BY <1>0, <2>1, FirstTxTyped DEF TypeOK
  <2> QED BY <1>0, <2>1, <2>2, EventsTyped, CallSort
<1> QED BY <1>1, <1>2, <1>3, <1>4 DEF Watcher

\* The sorts of the poller's steps without a note.
LEMMA PollerSort ==
    ASSUME TypeOK, Poller
    PROVE  StepSort
<1>0. /\ "poller" \in Tasks
      /\ \A r \in todo["poller"] : r.q \in Quotes
  BY ListedTyped DEF Loops
<1>1. CASE PollerList \/ \E r \in todo["poller"] : PollerSkip(r)
  <2>1. UNCHANGED <<rows, chains, pc, job, failures>>
    BY <1>1 DEF PollerList, TakeList, PollerSkip, store
  <2> QED BY <2>1, ListsAside
<1>2. ASSUME NEW r \in todo["poller"], PollerReject(r) \/ PollerSettle(r) PROVE StepSort
  <2>1. /\ pc["poller"] \notin Sent /\ (Abort("poller") \/ Continue("poller", r.q, "settle"))
        /\ UNCHANGED <<status, log, depositTxs, consumeIds, payoutIds, payouts, failures>>
    BY <1>2 DEF PollerReject, PollerSettle, Searches, AtEntry, Sent, store, rows, chains
  <2>2. "settle" \notin Telling
    BY DEF Telling, Applying, Decided, Sent
  <2> QED BY <1>0, <2>1, <2>2, GoesOff
<1>3. ASSUME NEW r \in todo["poller"], NEW n \in Notes, PollerFind(r, n) PROVE StepSort
  <2>1. /\ pc["poller"] \notin Sent /\ pc' = [pc EXCEPT !["poller"] = "detect"]
        /\ \A u \in Tasks \ {"poller"} : job'[u] = job[u]
        /\ UNCHANGED <<status, log, depositTxs, consumeIds, payoutIds, payouts, failures>>
    BY <1>3 DEF PollerFind, Searches, AtEntry, Sent, store, rows, chains, TypeOK, ProcessOK, TasksOK
  <2>2. OnlyMoves("poller") /\ pc'["poller"] = "detect"
    BY <1>0, <2>1 DEF OnlyMoves, TypeOK, ProcessOK, TasksOK
  <2>3. Aside
    BY <1>0, <2>1, <2>2, AsideLabels, GoesAside
  <2> QED BY <2>3 DEF StepSort
<1> QED BY <1>1, <1>2, <1>3 DEF Poller

\* The sorts of the scanner's and the resume pass's steps.
LEMMA LoopsSort ==
    ASSUME TypeOK, Scanner \/ Resume
    PROVE  StepSort
<1>0. /\ "scanner" \in Tasks /\ "resume" \in Tasks /\ "idle" \in Returns
      /\ \A t \in Tasks : \A r \in todo[t] : r.q \in Quotes
  BY ListedTyped DEF Loops
<1>1. CASE ScannerList \/ Boot \/ ResumeDone
  <2>1. UNCHANGED <<rows, chains, pc, job, failures>>
    BY <1>1 DEF ScannerList, TakeList, Boot, ResumeDone, store, process
  <2> QED BY <2>1, ListsAside
<1>2. ASSUME NEW r \in todo["scanner"], ScannerExpire(r) PROVE StepSort
  <2>1. /\ pc["scanner"] \notin Sent /\ CallApply("scanner", r.q, Expired, "idle")
        /\ UNCHANGED <<rows, chains, failures>>
    BY <1>2 DEF ScannerExpire, Sent
  <2> QED BY <1>0, <2>1, EventsTyped, CallSort
<1>3. ASSUME NEW r \in todo["resume"], ResumeQuote(r) PROVE StepSort
  <2>1. UNCHANGED <<rows, chains, failures>> /\ pc["resume"] \notin Sent
    BY <1>3 DEF ResumeQuote, AtEntry, Sent, store
  <2>2. CASE Continue("resume", r.q, "settle")
    <3>1. "settle" \notin Telling
      BY DEF Telling, Applying, Decided, Sent
    <3> QED BY <1>0, <2>1, <2>2, <3>1, GoesOff DEF rows, chains
  <2>3. CASE UNCHANGED <<pc, job>>
    BY <2>1, <2>3, ListsAside
  <2> QED BY <1>3, <2>2, <2>3 DEF ResumeQuote
<1> QED BY <1>1, <1>2, <1>3 DEF Scanner, Resume

\* What the chains decide is aside, and so are the failures: they count what they hide.
LEMMA OutsideSort ==
    ASSUME TypeOK, PayoutFates \/ NoteFates \/ Failures
    PROVE  StepSort
<1>0. failures \in Nat
  BY ConstantsAssumption DEF TypeOK, ProcessOK
<1>1. ASSUME NEW q \in Quotes, NEW i \in 1..Len(payouts[q]),
             PayoutCommits(q, i) \/ PayoutDiscarded(q, i)
      PROVE  StepSort
  <2>1. UNCHANGED <<rows, pc, job>> /\ failures' \in {failures, failures + 1}
    BY <1>0, <1>1 DEF PayoutCommits, PayoutDiscarded, store, process
  <2>2. PICK fate : payouts' = [payouts EXCEPT ![q][i] = fate]
    BY <1>1 DEF PayoutCommits, PayoutDiscarded
  <2>3. \A p \in Quotes : Len(payouts'[p]) = Len(payouts[p])
    BY <2>2, FatesKeepPlaces
  <2>4. Aside
    BY <2>1, <2>3, StaysAside DEF rows
  <2> QED BY <2>4 DEF StepSort
<1>2. ASSUME NEW n \in Notes, ConsumeCommits(n) \/ ConsumeDiscards(n) PROVE StepSort
  <2>1. UNCHANGED <<rows, payouts, pc, job>> /\ failures' \in {failures, failures + 1}
    BY <1>0, <1>2 DEF ConsumeCommits, ConsumeDiscards, store, process
  <2>2. Aside
    BY <2>1, StaysAside DEF rows
  <2> QED BY <2>2 DEF StepSort
<1>3. ASSUME Crash \/ \E t \in Tasks : Fault(t) PROVE StepSort
  <2>1. UNCHANGED <<rows, chains>> /\ failures' = failures + 1
    BY <1>3 DEF Crash, Fault, store
  <2>2. ASSUME NEW t \in Tasks PROVE Still(t) \/ pc'[t] = "idle"
    <3>1. CASE Crash
      BY <3>1 DEF Crash
    <3>2. ASSUME NEW u \in Tasks, Fault(u) PROVE Still(t) \/ pc'[t] = "idle"
      BY <3>2, MovesAlone DEF Fault, OnlyMoves, Still
    <3> QED BY <1>3, <3>1, <3>2
  <2>3. "idle" \notin Telling /\ failures < failures'
    BY <1>0, <2>1 DEF Telling, Applying, Decided, Sent
  <2>4. Aside
    BY <2>1, <2>2, <2>3 DEF Aside, rows, chains
  <2> QED BY <2>4 DEF StepSort
<1> QED BY <1>1, <1>2, <1>3 DEF PayoutFates, NoteFates, Failures

\* Every step is of one of the sorts.
LEMMA StepSorts ==
    ASSUME TypeOK, [Next]_vars
    PROVE  StepSort
<1>1. ASSUME NEW t \in Tasks, Step(t) PROVE StepSort
  BY <1>1, ApplySort, RefundSort, SettleSort, PayoutSort, TakeNoteSort DEF Step
<1>2. CASE UNCHANGED vars
  BY <1>2, ListsAside DEF vars, store, process
<1> QED BY <1>1, <1>2, UsersSort, WatcherSort, PollerSort, LoopsSort, OutsideSort DEF Next

-----------------------------------------------------------------------------
(***************************************************************************)
(* The resume pass runs alone.                                                *)
(***************************************************************************)

\* A task on duty goes on, or stops on an error.
Works(t) ==
    /\ Busy(t)
    /\ \A u \in Tasks \ {t} : pc'[u] = pc[u] /\ todo'[u] \subseteq todo[u]
    /\ Abort(t) \/ phase' = phase

\* Work does not change who is on duty.
LEMMA WorkKeeps ==
    ASSUME TypeOK, OnDuty, NEW t \in Tasks, Works(t)
    PROVE  OnDuty'
<1>1. \A u \in Tasks \ {t} : Busy(u)' => Busy(u)
  BY DEF Works, Busy
<1>2. CASE phase' = phase
  BY <1>1, <1>2 DEF OnDuty, Works
<1>3. CASE Abort(t)
  <2>1. ~Busy(t)'
    BY <1>3 DEF Abort, Busy, TypeOK, ProcessOK, TasksOK
  <2>2. CASE t = "resume"
    <3>1. \A u \in Tasks \ {t} : ~Busy(u)
      BY <2>2 DEF OnDuty, Works
    <3> QED BY <1>1, <2>1, <3>1 DEF OnDuty
  <2>3. CASE t # "resume"
    <3>1. phase' = phase
      BY <1>3, <2>3 DEF Abort
    <3> QED BY <1>1, <2>1, <3>1 DEF OnDuty
  <2> QED BY <2>2, <2>3
<1> QED BY <1>2, <1>3 DEF Works

\* A step of a task that is not idle is work.
LEMMA StepWorks ==
    ASSUME TypeOK, NEW t \in Tasks, pc[t] # "idle", OnlyMoves(t) \/ Abort(t),
           Abort(t) \/ UNCHANGED <<todo, phase>>
    PROVE  Works(t)
<1>1. OnlyMoves(t)
  BY MovesAlone
<1>2. \A u \in Tasks \ {t} : todo'[u] \subseteq todo[u]
  BY DEF Abort, TypeOK, ProcessOK
<1> QED BY <1>1, <1>2 DEF Works, Busy, OnlyMoves

\* So is a step of a loop at an entry of its list.
LEMMA EntryWorks ==
    ASSUME TypeOK, NEW t \in Tasks, NEW r \in todo[t], OnlyMoves(t) \/ Abort(t),
           Abort(t) \/ (CrossOff(t, r) /\ phase' = phase)
    PROVE  Works(t)
<1>1. OnlyMoves(t)
  BY MovesAlone
<1>2. \A u \in Tasks \ {t} : todo'[u] \subseteq todo[u]
  BY DEF Abort, CrossOff, TypeOK, ProcessOK
<1> QED BY <1>1, <1>2 DEF Works, Busy, OnlyMoves

\* A call of apply moves the caller only.
LEMMA CallMoves ==
    ASSUME TypeOK, NEW t \in Tasks, NEW q, NEW ev, NEW ret, CallApply(t, q, ev, ret)
    PROVE  OnlyMoves(t)
<1>1. CASE ev \in keys[q]
  BY <1>1, MovesAlone DEF CallApply
<1>2. CASE ev \notin keys[q]
  BY <1>2 DEF CallApply, OnlyMoves, TypeOK, ProcessOK, TasksOK
<1> QED BY <1>1, <1>2

\* The steps of procedures are work.
LEMMA ProceduresWork ==
    ASSUME TypeOK, NEW t \in Tasks, Step(t)
    PROVE  Works(t)
<1>0. pc \in [Tasks -> Labels] /\ job \in [Tasks -> Jobs]
  BY DEF TypeOK, ProcessOK, TasksOK
<1>1. CASE Apply(t)
  <2>1. pc[t] # "idle" /\ (Abort(t) \/ UNCHANGED <<todo, phase>>)
    BY <1>1 DEF Apply, ApplyIgnored, ApplyRejected, ApplyAccepted, Decide, ApplyReason,
       ApplyAppend, ApplyRecord, RefundNotOwed, Return, Goto
  <2>2. OnlyMoves(t) \/ Abort(t)
    <3>1. CASE ApplyIgnored(t) \/ ApplyRejected(t) \/ RefundNotOwed(t) \/ ApplyRecord(t)
      BY <3>1, MovesAlone
         DEF ApplyIgnored, ApplyRejected, RefundNotOwed, ApplyRecord, Return
    <3>2. CASE Decides(t)
      BY <3>2, DecideShape
    <3> QED BY <1>1, <3>1, <3>2 DEF Apply, Decides
  <2> QED BY <2>1, <2>2, StepWorks
<1>2. CASE Settle(t)
  <2>1. pc[t] # "idle" /\ UNCHANGED <<todo, phase>>
    BY <1>2 DEF Settle, SettleDone, SettleClaim, SettleRequote, Claimed
  <2>2. OnlyMoves(t)
    BY <1>2, MovesAlone, CallMoves DEF Settle, SettleDone, SettleClaim, SettleRequote
  <2> QED BY <2>1, <2>2, StepWorks
<1>3. CASE Refund(t)
  <2>1. pc[t] # "idle" /\ UNCHANGED <<todo, phase>>
    BY <1>3 DEF Refund, RefundSend, RefundsNow, RefundAppend, RefundConfirm, Return, Goto
  <2>2. OnlyMoves(t)
    BY <1>3, MovesAlone DEF Refund, RefundSend, RefundAppend, RefundConfirm, Return
  <2> QED BY <2>1, <2>2, StepWorks
<1>4. CASE Mint(t)
  <2>1. pc[t] # "idle" /\ (Abort(t) \/ UNCHANGED <<todo, phase>>)
    BY <1>4 DEF Mint, MintKeyed, MintPoll, Mints, MintSubmit, MintAppend, MintCommitted,
       MintDiscarded, Goto
  <2>2. OnlyMoves(t) \/ Abort(t)
    BY <1>4, MovesAlone, CallMoves DEF Mint, MintKeyed, MintPoll, MintSubmit, SendPayout,
       MintAppend, MintCommitted, MintDiscarded
  <2> QED BY <2>1, <2>2, StepWorks
<1>5. CASE TakeNote(t)
  <2>1. pc[t] # "idle" /\ (Abort(t) \/ UNCHANGED <<todo, phase>>)
    BY <1>5 DEF TakeNote, NoteFound, NoteCounted, ConsumeKeyed, ConsumeSubmit, ConsumeAppend,
       ConsumeCommitted, ConsumeDiscarded, NoteVerified, NoteForeign, Onward, Goto
  <2>2. OnlyMoves(t) \/ Abort(t)
    BY <1>5, MovesAlone, CallMoves DEF TakeNote, NoteFound, NoteCounted, ConsumeKeyed,
       ConsumeSubmit, ConsumeAppend, ConsumeCommitted, ConsumeDiscarded, NoteVerified,
       NoteForeign, Onward
  <2> QED BY <2>1, <2>2, StepWorks
<1>6. CASE Release(t)
  <2>1. pc[t] # "idle" /\ UNCHANGED <<todo, phase>>
    BY <1>6 DEF Release, ReleaseSend, ReleaseAppend, ReleaseConfirmed, Goto
  <2>2. OnlyMoves(t)
    BY <1>6, MovesAlone, CallMoves DEF Release, ReleaseSend, SendPayout, ReleaseAppend,
       ReleaseConfirmed
  <2> QED BY <2>1, <2>2, StepWorks
<1>7. CASE NoteRefund(t)
  <2>1. pc[t] # "idle" /\ UNCHANGED <<todo, phase>>
    BY <1>7 DEF NoteRefund, NoteRefundKeyed, NoteRefundPoll, RefundsNow, NoteRefundSubmit,
       NoteRefundAppend, NoteRefundCommitted, Return, Goto
  <2>2. OnlyMoves(t)
    BY <1>7, MovesAlone DEF NoteRefund, NoteRefundKeyed, NoteRefundPoll, NoteRefundSubmit,
       NoteRefundAppend, NoteRefundCommitted, Return
  <2> QED BY <2>1, <2>2, StepWorks
<1> QED BY <1>1, <1>2, <1>3, <1>4, <1>5, <1>6, <1>7 DEF Step

\* The steps of loops at an entry are work.
LEMMA EntriesWork ==
    ASSUME TypeOK,
           \/ \E r \in todo["watcher"] :
                \/ WatcherSkip(r) \/ WatcherReject(r) \/ WatcherConfirm(r)
                \/ \E tx \in Txs : WatcherDetect(r, tx)
           \/ \E r \in todo["poller"] :
                \/ PollerSettle(r) \/ PollerSkip(r) \/ PollerReject(r)
                \/ \E n \in Notes : PollerFind(r, n)
           \/ \E r \in todo["scanner"] : ScannerExpire(r)
           \/ \E r \in todo["resume"] : ResumeQuote(r)
    PROVE  \E t \in Tasks : Works(t)
<1>0. {"watcher", "poller", "scanner", "resume"} \subseteq Tasks
  BY DEF Tasks, Loops
<1>a. pc \in [Tasks -> Labels] /\ job \in [Tasks -> Jobs]
  BY DEF TypeOK, ProcessOK, TasksOK
<1>b. \A t \in Tasks : UNCHANGED <<pc, job>> => OnlyMoves(t)
  BY DEF OnlyMoves
<1>1. ASSUME NEW r \in todo["watcher"], WatcherSkip(r) \/ WatcherReject(r) \/ WatcherConfirm(r)
                                        \/ \E tx \in Txs : WatcherDetect(r, tx)
      PROVE  Works("watcher")
  <2>1. OnlyMoves("watcher") \/ Abort("watcher")
    BY <1>0, <1>1, <1>b, CallMoves
       DEF WatcherSkip, WatcherReject, WatcherConfirm, Confirm, WatcherDetect
  <2>2. Abort("watcher") \/ (CrossOff("watcher", r) /\ phase' = phase)
    BY <1>1 DEF WatcherSkip, WatcherReject, WatcherConfirm, Confirm, WatcherDetect
  <2> QED BY <1>0, <2>1, <2>2, EntryWorks
<1>2. ASSUME NEW r \in todo["poller"], PollerSettle(r) \/ PollerSkip(r) \/ PollerReject(r)
                                       \/ \E n \in Notes : PollerFind(r, n)
      PROVE  Works("poller")
  <2>1. OnlyMoves("poller") \/ Abort("poller")
    <3>1. ASSUME NEW n \in Notes, PollerFind(r, n) PROVE OnlyMoves("poller")
      BY <1>0, <1>a, <3>1 DEF PollerFind, OnlyMoves
    <3> QED BY <1>0, <1>2, <1>b, <3>1, MovesAlone DEF PollerSettle, PollerSkip, PollerReject
  <2>2. Abort("poller") \/ (CrossOff("poller", r) /\ phase' = phase)
    BY <1>2 DEF PollerSettle, PollerSkip, PollerReject, PollerFind
  <2> QED BY <1>0, <2>1, <2>2, EntryWorks
<1>3. ASSUME NEW r \in todo["scanner"], ScannerExpire(r) PROVE Works("scanner")
  BY <1>0, <1>3, CallMoves, EntryWorks DEF ScannerExpire
<1>4. ASSUME NEW r \in todo["resume"], ResumeQuote(r) PROVE Works("resume")
  <2>1. OnlyMoves("resume")
    BY <1>0, <1>4, <1>b, MovesAlone DEF ResumeQuote
  <2> QED BY <1>0, <1>4, <2>1, EntryWorks DEF ResumeQuote
<1> QED BY <1>0, <1>1, <1>2, <1>3, <1>4

\* The resume pass and the loops keep out of each other's way.
LEMMA DutyStep ==
    ASSUME TypeOK, OnDuty, [Next]_vars
    PROVE  OnDuty'
<1>0. \A t \in Tasks : /\ t \in Loops \ {"resume"} => t # "resume"
                       /\ t \in Handlers => t # "resume"
  BY ConstantsAssumption DEF Loops
<1>1. ASSUME UNCHANGED process, phase' = phase PROVE OnDuty'
  BY <1>1 DEF OnDuty, Busy, process
<1>2. ASSUME NEW t \in {"watcher", "poller", "scanner"}, NEW Q, TakeList(t, Q) PROVE OnDuty'
  <2>1. \A u \in Tasks \ {t} : Busy(u)' = Busy(u)
    BY <1>2 DEF TakeList, Busy, TypeOK, ProcessOK
  <2> QED BY <1>2, <2>1 DEF TakeList, OnDuty
<1>3. ASSUME NEW h \in Handlers, NEW s \in Submissions, SubmitDeposit(h, s[1], s[2])
      PROVE  OnDuty'
  <2>1. h \in Tasks /\ h # "resume"
    BY <1>0 DEF Tasks
  <2>2. OnlyMoves(h)
    BY <1>3, <2>1, CallMoves DEF SubmitDeposit
  <2>3. \A u \in Tasks \ {h} : Busy(u)' = Busy(u)
    BY <1>3, <2>2 DEF SubmitDeposit, OnlyMoves, Busy
  <2> QED BY <1>3, <2>1, <2>3 DEF SubmitDeposit, OnDuty
<1>4. CASE Users
  BY <1>1, <1>3, <1>4 DEF Users, CreateQuote, DeadlinePasses, DepositLands
<1>5. CASE PayoutFates \/ NoteFates
  BY <1>1, <1>5 DEF PayoutFates, NoteFates, PayoutCommits, PayoutDiscarded, ConsumeCommits,
     ConsumeDiscards
<1>6. CASE UNCHANGED vars
  BY <1>1, <1>6 DEF vars
<1>7. CASE Boot
  <2>1. \A u \in Tasks : ~Busy(u)
    BY <1>7 DEF Boot, OnDuty
  <2>2. \A u \in Tasks \ {"resume"} : ~Busy(u)'
    BY <1>7, <2>1 DEF Boot, Busy, TypeOK, ProcessOK
  <2> QED BY <1>7, <2>2 DEF Boot, OnDuty
<1>8. CASE ResumeDone
  <2>1. \A u \in Tasks : ~Busy(u)
    BY <1>8 DEF ResumeDone, OnDuty, Busy
  <2>2. \A u \in Tasks : ~Busy(u)'
    BY <1>8, <2>1 DEF ResumeDone, Busy, process
  <2> QED BY <2>2 DEF OnDuty
<1>9. CASE Crash
  BY <1>9 DEF Crash, OnDuty, Busy
<1>10. ASSUME NEW t \in Tasks, Fault(t) PROVE OnDuty'
  <2>1. Works(t)
    BY <1>10, MovesAlone DEF Fault, Works, Busy, Abort, OnlyMoves, TypeOK, ProcessOK
  <2> QED BY <2>1, WorkKeeps
<1>11. ASSUME NEW t \in Tasks, Step(t) PROVE OnDuty'
  BY <1>11, ProceduresWork, WorkKeeps
<1>12. CASE Watcher \/ Poller \/ Scanner \/ Resume
  <2>1. CASE WatcherList \/ PollerList \/ ScannerList
    BY <1>2, <2>1 DEF WatcherList, PollerList, ScannerList
  <2> QED BY <1>7, <1>8, <1>12, <2>1, EntriesWork, WorkKeeps
          DEF Watcher, Poller, Scanner, Resume
<1> QED BY <1>4, <1>5, <1>6, <1>9, <1>10, <1>11, <1>12 DEF Next, Failures

\* At the start nobody is on duty.
LEMMA InitDuty == Init => OnDuty
BY DEF Init, OnDuty, Busy

-----------------------------------------------------------------------------
(***************************************************************************)
(* Who arrives where, and who writes what.                                    *)
(***************************************************************************)

\* The steps by which a task arrives at a telling label.
Arrives(t) ==
    \/ \E q \in Quotes, ev \in Events : Raises(t, q, ev)
    \/ Decides(t)
    \/ TurnsToPay(t) \/ Pays(t)
    \/ OpensNote(t) \/ ConsumeSubmit(t)

\* Where these steps lead, and that nobody else moves.
LEMMA ArrivalLabels ==
    ASSUME TypeOK, NEW t \in Tasks
    PROVE  /\ \A q, ev : Raises(t, q, ev) => pc'[t] = "decide" /\ OnlyMoves(t)
           /\ Decides(t) => pc'[t] \in Decided /\ OnlyMoves(t)
           /\ TurnsToPay(t) => pc'[t] \in {"payout", "mintSubmit"} /\ OnlyMoves(t)
           /\ Pays(t) => pc'[t] \in Sent /\ job'[t].q = job[t].q /\ OnlyMoves(t)
           /\ OpensNote(t) => pc'[t] = "consumeSubmit" /\ job'[t] = job[t] /\ OnlyMoves(t)
           /\ ConsumeSubmit(t) => pc'[t] = "consumeAppend" /\ job'[t] = job[t] /\ OnlyMoves(t)
<1>1. \A q, ev : Raises(t, q, ev) => pc'[t] = "decide" /\ OnlyMoves(t)
  BY DEF Raises, Claims
<1>2. Decides(t) => pc'[t] \in Decided /\ OnlyMoves(t)
  BY DecideShape
<1>3. TurnsToPay(t) => pc'[t] \in {"payout", "mintSubmit"} /\ OnlyMoves(t)
  BY DEF TurnsToPay
<1>4. Pays(t) => pc'[t] \in Sent /\ job'[t].q = job[t].q /\ OnlyMoves(t)
  BY MovesAlone DEF Pays, MintSubmit, ReleaseSend, SendPayout, Sent
<1>5. OpensNote(t) => pc'[t] = "consumeSubmit" /\ job'[t] = job[t] /\ OnlyMoves(t)
  BY MovesAlone DEF OpensNote, ConsumeKeyed
<1>6. ConsumeSubmit(t) => pc'[t] = "consumeAppend" /\ job'[t] = job[t] /\ OnlyMoves(t)
  BY MovesAlone DEF ConsumeSubmit
<1> QED BY <1>1, <1>2, <1>3, <1>4, <1>5, <1>6

\* The steps that leave the telling labels.
LEMMA LeavesTelling ==
    ASSUME TypeOK, NEW t \in Tasks, ApplyRecord(t) \/ Stores(t) \/ ConsumeAppend(t)
    PROVE  OnlyMoves(t) /\ pc'[t] \notin Telling
<1>1. job[t].ret \in Returns /\ Returns \cap Telling = {}
  BY JobTyped, AsideLabels DEF TypeOK, ProcessOK
<1>2. CASE ApplyRecord(t)
  <2>1. Goto(t, "refundSend") \/ Goto(t, "refundCheck") \/ Return(t)
    BY <1>2 DEF ApplyRecord
  <2> QED BY <1>1, <2>1, MovesAlone, AsideLabels DEF Return
<1>3. CASE Stores(t)
  BY <1>3, MovesAlone, AsideLabels DEF Stores, MintAppend, ReleaseAppend
<1>4. CASE ConsumeAppend(t)
  BY <1>4, MovesAlone, AsideLabels DEF ConsumeAppend
<1> QED BY <1>2, <1>3, <1>4

\* Whoever is at a telling label was there, or has arrived by one of these steps.
LEMMA Arrivals ==
    ASSUME TypeOK, StepSort, NEW u \in Tasks
    PROVE  Still(u) \/ pc'[u] \notin Telling \/ Arrives(u)
<1>1. ASSUME NEW t \in Tasks, Arrives(t) PROVE Still(u) \/ Arrives(u)
  <2>1. OnlyMoves(t)
    BY <1>1, ArrivalLabels DEF Arrives
  <2> QED BY <1>1, <2>1 DEF OnlyMoves, Still
<1>2. ASSUME NEW t \in Tasks, ApplyRecord(t) \/ Stores(t) \/ ConsumeAppend(t)
      PROVE  Still(u) \/ pc'[u] \notin Telling
  BY <1>2, LeavesTelling DEF OnlyMoves, Still
<1>3. CASE Aside
  BY <1>3 DEF Aside
<1>4. ASSUME NEW q \in Quotes, CreateQuote(q) PROVE Still(u)
  BY <1>4 DEF CreateQuote, process, Still
<1>5. ASSUME NEW t \in Tasks, NEW q \in Quotes, NEW ev \in Events, Raises(t, q, ev)
      PROVE  Arrives(t)
  BY <1>5 DEF Arrives
<1>6. ASSUME NEW t \in Tasks,
             Decides(t) \/ TurnsToPay(t) \/ Pays(t) \/ OpensNote(t) \/ ConsumeSubmit(t)
      PROVE  Arrives(t)
  BY <1>6 DEF Arrives
<1> QED BY <1>1, <1>2, <1>3, <1>4, <1>5, <1>6 DEF StepSort

\* The row that a decided event gets, the hash or payout id before it, and the ids that the
\* payouts and the poller store, are each written by one kind of step.
LEMMA Writers ==
    ASSUME TypeOK, StepSort
    PROVE  /\ depositTxs' = depositTxs \/ \E t \in Tasks : ApplyAppend(t)
           /\ payoutIds' = payoutIds \/ \E t \in Tasks : ApplyAppend(t) \/ Stores(t)
           /\ consumeIds' = consumeIds \/ \E t \in Tasks : ConsumeAppend(t)
           /\ \/ \A q \in Quotes : Len(payouts'[q]) = Len(payouts[q])
              \/ \E t \in Tasks : Pays(t)
           /\ \/ UNCHANGED <<status, log>>
              \/ \E t \in Tasks : ApplyRecord(t)
              \/ \E q \in Quotes : CreateQuote(q)
           /\ failures <= failures' /\ failures' \in {failures, failures + 1}
<1>0. failures \in Nat
  BY ConstantsAssumption DEF TypeOK, ProcessOK
<1>1. CASE Aside
  BY <1>0, <1>1 DEF Aside
<1>2. ASSUME NEW t \in Tasks, NEW q \in Quotes, NEW ev \in Events, Raises(t, q, ev)
      PROVE  UNCHANGED <<rows, payouts, failures>>
  BY <1>2 DEF Raises, chains
<1>3. ASSUME NEW t \in Tasks, ApplyAccepted(t) \/ ApplyReason(t)
      PROVE  UNCHANGED <<rows, payouts, failures>>
  BY <1>3 DEF ApplyAccepted, Decide, ApplyReason, store, chains
<1>4. ASSUME NEW t \in Tasks, ApplyAppend(t)
      PROVE  UNCHANGED <<status, log, consumeIds, payouts, failures>>
  BY <1>4 DEF ApplyAppend, chains
<1>5. ASSUME NEW t \in Tasks, ApplyRecord(t)
      PROVE  UNCHANGED <<depositTxs, consumeIds, payoutIds, payouts, failures>>
  BY <1>5 DEF ApplyRecord, chains
<1>6. ASSUME NEW t \in Tasks, TurnsToPay(t) PROVE UNCHANGED <<rows, payouts, failures>>
  BY <1>6 DEF TurnsToPay, chains
<1>7. ASSUME NEW t \in Tasks, Pays(t) PROVE UNCHANGED <<rows, failures>>
  BY <1>7 DEF Pays, MintSubmit, ReleaseSend, store
<1>8. ASSUME NEW t \in Tasks, Stores(t)
      PROVE  UNCHANGED <<status, log, depositTxs, consumeIds, payouts, failures>>
  BY <1>8 DEF Stores, MintAppend, ReleaseAppend, chains
<1>9. ASSUME NEW t \in Tasks, OpensNote(t) \/ ConsumeSubmit(t)
      PROVE  UNCHANGED <<rows, payouts, failures>>
  BY <1>9 DEF OpensNote, ConsumeKeyed, ConsumeSubmit, store, chains
<1>10. ASSUME NEW t \in Tasks, ConsumeAppend(t)
       PROVE  UNCHANGED <<status, log, depositTxs, payoutIds, payouts, failures>>
  BY <1>10 DEF ConsumeAppend, chains
<1>11. ASSUME NEW q \in Quotes, CreateQuote(q)
       PROVE  UNCHANGED <<depositTxs, consumeIds, payoutIds, payouts, failures>>
  BY <1>11 DEF CreateQuote, chains
<1> QED BY <1>0, <1>1, <1>2, <1>3, <1>4, <1>5, <1>6, <1>7, <1>8, <1>9, <1>10, <1>11
        DEF StepSort, Decides, rows

-----------------------------------------------------------------------------
(***************************************************************************)
(* Hashes and notes are stored once.                                          *)
(***************************************************************************)

\* A sequence stays injective when it gets an element it lacks.
LEMMA AppendedInjective ==
    ASSUME NEW S, NEW s \in Seq(S), NEW e \in S, IsInjective(s), e \notin Range(s)
    PROVE  IsInjective(Append(s, e))
<1>1. /\ \A i \in 1..Len(s) : Append(s, e)[i] = s[i]
      /\ Append(s, e)[Len(s) + 1] = e
      /\ 1..Len(Append(s, e)) = 1..Len(s) \cup {Len(s) + 1}
  BY AppendedRow
<1>2. DOMAIN s = 1..Len(s) /\ DOMAIN Append(s, e) = 1..Len(Append(s, e))
  BY AppendProperties, LenProperties
<1>3. \A i \in 1..Len(s) : s[i] # e
  BY <1>2 DEF Range
<1> QED BY <1>1, <1>2, <1>3 DEF IsInjective

\* Two tasks do not append one event.
LEMMA OneCarrier ==
    ASSUME OneOwnerPerEvent, NEW t \in Tasks, NEW u \in Tasks,
           pc[t] \in Holding, pc[u] \in Holding,
           job[t].q = job[u].q, job[t].ev = job[u].ev
    PROVE  t = u
BY OwnersKnown DEF Carried

\* An EVM deposit is told from another by its hash.
LEMMA DetectionsDiffer ==
    ASSUME NEW ev \in Events, NEW e \in Events, ev.kind = "EVM_DEPOSIT_DETECTED",
           e.kind = "EVM_DEPOSIT_DETECTED", ev.datum = e.datum
    PROVE  ev = e /\ ev.datum \in Txs
<1>1. /\ ev \in [kind : {"EVM_DEPOSIT_DETECTED", "EVM_DEPOSIT_CONFIRMED"}, datum : Txs]
      /\ e \in [kind : {"EVM_DEPOSIT_DETECTED", "EVM_DEPOSIT_CONFIRMED"}, datum : Txs]
  BY DEF Events, SettlementKinds
<1> QED BY <1>1

\* A hash that is appended was not there, and is not appended again.
LEMMA HashesStep ==
    ASSUME OneOwnerPerEvent, HashesOnce, StepSort
    PROVE  HashesOnce'
<1> DEFINE Appends(t) == pc[t] = "append" /\ job[t].ev.kind = "EVM_DEPOSIT_DETECTED"
<1>0. TypeOK /\ \A q \in Quotes : depositTxs[q] \in Seq(Txs)
  BY OwnersKnown DEF TypeOK, StoreOK
<1>1. ASSUME NEW u \in Tasks, Appends(u)'
      PROVE  Still(u) \/ ApplyAccepted(u)
  <2>1. "append" \in Telling \ ({"decide", "payout", "mintSubmit", "consumeSubmit",
                                 "consumeAppend"} \cup Sent)
    BY DEF Telling, Applying, Decided, Sent
  <2>2. Still(u) \/ Decides(u)
    BY <1>0, <1>1, <2>1, Arrivals, ArrivalLabels DEF Arrives
  <2>3. ApplyReason(u) \/ ApplyAppend(u) => pc'[u] = "record"
    BY <1>0 DEF ApplyReason, ApplyAppend, Goto, TypeOK, ProcessOK, TasksOK
  <2> QED BY <1>1, <2>2, <2>3 DEF Decides
<1>2. ASSUME NEW u \in Tasks, ApplyAccepted(u), Appends(u)'
      PROVE  job'[u].ev.datum \notin Range(depositTxs'[job'[u].q])
  <2>1. PICK q \in Quotes, ev \in Events : q = job[u].q /\ ev = job[u].ev
    BY OwnersKnown
  <2>2. job'[u].q = q /\ job'[u].ev = ev
    BY <1>0, <1>2, <2>1, DecideShape DEF Decides
  <2>3. depositTxs' = depositTxs
    BY <1>2 DEF ApplyAccepted, Decide, store, rows
  <2>4. ~Contains(depositTxs[q], ev.datum)
    <3>1. AddsDepositHash(q, ev) \/ AddsPayoutId(q, ev)
      BY <1>0, <1>2, <2>1 DEF ApplyAccepted, Decide, TypeOK, ProcessOK, TasksOK
    <3> QED BY <1>2, <2>2, <3>1 DEF AddsDepositHash, AddsPayoutId
  <2> QED BY <1>0, <2>2, <2>3, <2>4, ContainsRange
<1>3. ASSUME NEW u \in Tasks, Still(u), Appends(u)'
      PROVE  Appends(u) /\ job'[u] = job[u]
  BY <1>3 DEF Still
<1>4. CASE depositTxs' = depositTxs
  <2>1. ASSUME NEW u \in Tasks, Appends(u)'
        PROVE  job'[u].ev.datum \notin Range(depositTxs'[job'[u].q])
    <3>1. CASE Still(u)
      <4>1. Appends(u) /\ job'[u] = job[u]
        BY <1>3, <2>1, <3>1
      <4>2. job[u].ev.datum \notin Range(depositTxs[job[u].q])
        BY <4>1 DEF HashesOnce
      <4> QED BY <1>4, <4>1, <4>2
    <3> QED BY <1>1, <1>2, <2>1, <3>1
  <2> QED BY <1>4, <2>1 DEF HashesOnce
<1>5. ASSUME NEW t \in Tasks, ApplyAppend(t), depositTxs' # depositTxs PROVE HashesOnce'
  <2>1. PICK q \in Quotes, ev \in Events : q = job[t].q /\ ev = job[t].ev
    BY OwnersKnown
  <2>2. ev.kind = "EVM_DEPOSIT_DETECTED" /\ Appends(t)
    BY <1>5, <2>1 DEF ApplyAppend
  <2>3. ev.datum \in Txs /\ ev.datum \notin Range(depositTxs[q])
    BY <2>1, <2>2, DetectionsDiffer DEF HashesOnce
  <2>4. depositTxs' = [depositTxs EXCEPT ![q] = Append(@, ev.datum)]
    BY <1>5, <2>1, <2>2 DEF ApplyAppend
  <2>5. /\ depositTxs'[q] = Append(depositTxs[q], ev.datum)
        /\ \A p \in Quotes \ {q} : depositTxs'[p] = depositTxs[p]
    BY <1>0, <2>4 DEF TypeOK, StoreOK
  <2>6. Range(depositTxs'[q]) = Range(depositTxs[q]) \cup {ev.datum}
    BY <1>0, <2>3, <2>5, AppendedRange
  <2>7. \A p \in Quotes : IsInjective(depositTxs'[p])
    BY <1>0, <2>3, <2>5, AppendedInjective DEF HashesOnce
  <2>8. ASSUME NEW u \in Tasks, Appends(u)'
        PROVE  job'[u].ev.datum \notin Range(depositTxs'[job'[u].q])
    <3>1. pc'[t] = "record" /\ OnlyMoves(t)
      BY <1>0, <1>5, MovesAlone DEF ApplyAppend
    <3>2. u # t /\ Still(u)
      BY <2>8, <3>1 DEF OnlyMoves, Still
    <3>3. Appends(u) /\ job'[u] = job[u]
      BY <1>3, <2>8, <3>2
    <3>4. PICK p \in Quotes, e \in Events : p = job[u].q /\ e = job[u].ev
      BY OwnersKnown
    <3>5. e.datum \notin Range(depositTxs[p])
      BY <3>3, <3>4 DEF HashesOnce
    <3>6. CASE p = q
      <4>1. e # ev
        BY <2>1, <2>2, <3>2, <3>3, <3>4, <3>6, OneCarrier DEF Holding, Applying, Decided
      <4>2. e.datum # ev.datum
        BY <2>2, <3>3, <3>4, <4>1, DetectionsDiffer
      <4> QED BY <2>6, <3>3, <3>4, <3>5, <3>6, <4>2
    <3>7. CASE p # q
      BY <2>5, <3>3, <3>4, <3>5, <3>7
    <3> QED BY <3>6, <3>7
  <2> QED BY <2>7, <2>8 DEF HashesOnce
<1> QED BY <1>0, <1>4, <1>5, Writers

\* A note that is consumed was not, and is not consumed again.
LEMMA NotesStep ==
    ASSUME OneOwnerPerEvent, WellGrounded, NotesOnce, StepSort
    PROVE  NotesOnce'
<1>0. /\ TypeOK /\ "poller" \in Tasks
      /\ \A q \in Quotes : consumeIds[q] \in Seq(Notes)
  BY OwnersKnown DEF TypeOK, StoreOK, Tasks, Loops
<1>1. PICK q \in Quotes, n \in {job["poller"].note} : q = job["poller"].q /\ n = job["poller"].note
  BY <1>0, OwnersKnown
<1>2. CASE consumeIds' = consumeIds
  <2>1. ASSUME pc'["poller"] \in {"consumeSubmit", "consumeAppend"}
        PROVE  job'["poller"].note \notin Range(consumeIds'[job'["poller"].q])
    <3>1. "consumeSubmit" \in Telling /\ "consumeAppend" \in Telling
      BY DEF Telling
    <3>2. \/ Still("poller") \/ OpensNote("poller") \/ ConsumeSubmit("poller")
      <4>1. {"consumeSubmit", "consumeAppend"}
              \cap (Applying \cup Sent \cup {"payout", "mintSubmit"}) = {}
        BY DEF Applying, Decided, Sent
      <4> QED BY <1>0, <2>1, <3>1, <4>1, Arrivals, ArrivalLabels
              DEF Arrives, Applying, Decided
    <3>3. CASE Still("poller")
      BY <1>2, <2>1, <3>3 DEF Still, NotesOnce
    <3>4. CASE OpensNote("poller")
      <4>1. job'["poller"] = job["poller"]
        BY <1>0, <3>4, ArrivalLabels
      <4>2. ConsumeKey(n) \notin keys[q]
        BY <1>1, <3>4 DEF OpensNote
      <4>3. n \notin Range(consumeIds[q])
        BY <4>2, QuotesAccounted DEF Accounted
      <4> QED BY <1>1, <1>2, <4>1, <4>3
    <3>5. CASE ConsumeSubmit("poller")
      <4>1. job'["poller"] = job["poller"]
        BY <1>0, <3>5, ArrivalLabels
      <4> QED BY <1>2, <3>5, <4>1 DEF ConsumeSubmit, NotesOnce
    <3> QED BY <3>2, <3>3, <3>4, <3>5
  <2> QED BY <1>2, <2>1 DEF NotesOnce
<1>3. ASSUME NEW t \in Tasks, ConsumeAppend(t) PROVE NotesOnce'
  <2>1. pc[t] = "consumeAppend"
    BY <1>3 DEF ConsumeAppend
  <2>2. t = "poller" /\ n \in Notes
    <3>1. "consumeAppend" \in NoteLabels
      BY DEF NoteLabels
    <3>2. t = "poller"
      BY <2>1, <3>1, StandingAt
    <3> QED BY <1>0, <1>1, <2>1, <3>1, <3>2, JobTyped DEF TypeOK, ProcessOK
  <2>3. n \notin Range(consumeIds[q])
    BY <1>1, <2>1, <2>2 DEF NotesOnce
  <2>4. consumeIds' = [consumeIds EXCEPT ![q] = Append(@, n)]
    BY <1>1, <1>3, <2>2 DEF ConsumeAppend
  <2>5. /\ consumeIds'[q] = Append(consumeIds[q], n)
        /\ \A p \in Quotes \ {q} : consumeIds'[p] = consumeIds[p]
    BY <1>0, <2>4 DEF TypeOK, StoreOK
  <2>6. \A p \in Quotes : IsInjective(consumeIds'[p])
    BY <1>0, <2>2, <2>3, <2>5, AppendedInjective DEF NotesOnce
  <2>7. pc'["poller"] \notin {"consumeSubmit", "consumeAppend"}
    BY <1>0, <1>3, <2>2, LeavesTelling DEF Telling
  <2> QED BY <2>6, <2>7 DEF NotesOnce
<1> QED BY <1>0, <1>2, <1>3, Writers

-----------------------------------------------------------------------------
(***************************************************************************)
(* A payout costs a failure before it is sent again.                          *)
(***************************************************************************)

\* A task that has sent a payout stores its id next, or fails.
LEMMA LeavesSent ==
    ASSUME TypeOK, StepSort, NEW v \in Tasks, pc[v] \in Sent
    PROVE  Still(v) \/ Stores(v) \/ failures < failures'
<1>1. CASE Aside
  BY <1>1 DEF Aside
<1>2. ASSUME NEW t \in Tasks, OnlyMoves(t), pc[t] \notin Sent PROVE Still(v)
  BY <1>2 DEF OnlyMoves, Still
<1>3. ASSUME NEW t \in Tasks, NEW q \in Quotes, NEW ev \in Events, Raises(t, q, ev)
      PROVE  Still(v)
  BY <1>2, <1>3 DEF Raises, Claims
<1>4. ASSUME NEW t \in Tasks, Decides(t) \/ ApplyRecord(t) PROVE Still(v)
  <2>1. pc[t] \in Applying /\ OnlyMoves(t)
    BY <1>4, DecideShape, LeavesTelling DEF ApplyRecord, Applying, Decided
  <2> QED BY <1>2, <2>1 DEF Applying, Decided, Sent
<1>5. ASSUME NEW t \in Tasks, TurnsToPay(t) \/ Pays(t) PROVE Still(v)
  <2>1. pc[t] \notin Sent /\ OnlyMoves(t)
    BY <1>5, ArrivalLabels DEF TurnsToPay, Pays, MintSubmit, ReleaseSend, Sent
  <2> QED BY <1>2, <2>1
<1>6. ASSUME NEW t \in Tasks, Stores(t) PROVE Still(v) \/ Stores(v)
  BY <1>6, LeavesTelling DEF OnlyMoves, Still
<1>7. ASSUME NEW t \in Tasks, OpensNote(t) \/ ConsumeSubmit(t) \/ ConsumeAppend(t)
      PROVE  Still(v)
  <2>1. pc[t] \notin Sent /\ OnlyMoves(t)
    BY <1>7, ArrivalLabels, LeavesTelling
       DEF OpensNote, ConsumeKeyed, ConsumeSubmit, ConsumeAppend, Sent
  <2> QED BY <1>2, <2>1
<1>8. ASSUME NEW q \in Quotes, CreateQuote(q) PROVE Still(v)
  BY <1>8 DEF CreateQuote, process, Still
<1> QED BY <1>1, <1>3, <1>4, <1>5, <1>6, <1>7, <1>8 DEF StepSort

\* Who stores a payout id occupies its quote and leaves the way to a payout.
LEMMA IdsWritten ==
    ASSUME OneOwnerPerEvent, StepSort, NEW q \in Quotes, payoutIds'[q] # payoutIds[q]
    PROVE  /\ payoutIds'[q] # <<>>
           /\ \E t \in Tasks : /\ Occupied(t) /\ job[t].q = q /\ OnlyMoves(t)
                               /\ pc'[t] \notin {"payout", "mintSubmit"}
<1>0. TypeOK
  BY OwnersKnown
<1>1. PICK t \in Tasks : ApplyAppend(t) \/ Stores(t)
  BY <1>0, Writers
<1>2. PICK p \in Quotes, ev \in Events, n \in Nat : p = job[t].q /\ ev = job[t].ev /\ n = job[t].id
  BY OwnersKnown
<1>3. CASE ApplyAppend(t)
  <2>1. payoutIds' = [payoutIds EXCEPT ![p] = Append(@, ev.datum)]
        /\ ev.kind # "EVM_DEPOSIT_DETECTED" /\ pc[t] = "append"
    BY <1>2, <1>3 DEF ApplyAppend
  <2>2. ev.kind = "SETTLEMENT_SUCCEEDED"
    BY <1>2, <2>1, OwnersKnown DEF Justified
  <2>3. ev.datum \in Nat
    <3>1. ev \in [kind : SettlementKinds, datum : Nat]
      BY <2>2 DEF Events
    <3> QED BY <3>1
  <2>4. p = q /\ payoutIds'[q] # <<>>
    BY <1>0, <2>1, <2>3, PayoutIdAdded
  <2>5. Occupied(t)
    BY <1>2, <2>1, <2>2 DEF Occupied, SettleKinds, Applying, Decided
  <2>6. pc'[t] \in Decided /\ OnlyMoves(t)
    BY <1>0, <1>3, DecideShape DEF Decides
  <2> QED BY <1>2, <2>4, <2>5, <2>6 DEF Decided
<1>4. CASE Stores(t)
  <2>1. payoutIds' = [payoutIds EXCEPT ![p] = Append(@, n)] /\ pc[t] \in Sent
    BY <1>2, <1>4 DEF Stores, MintAppend, ReleaseAppend, Sent
  <2>2. p = q /\ payoutIds'[q] # <<>>
    BY <1>0, <2>1, PayoutIdAdded
  <2>3. OnlyMoves(t) /\ pc'[t] \notin Telling
    BY <1>0, <1>4, LeavesTelling
  <2>4. Occupied(t)
    BY <2>1 DEF Occupied, Sent, Settling
  <2> QED BY <1>2, <2>2, <2>3, <2>4 DEF Telling
<1> QED BY <1>1, <1>3, <1>4

\* A payout is sent one at a time.
LEMMA PayoutsWritten ==
    ASSUME TypeOK, StepSort, NEW q \in Quotes
    PROVE  \/ Len(payouts'[q]) = Len(payouts[q])
           \/ \E t \in Tasks : /\ Pays(t) /\ job[t].q = q
                               /\ Len(payouts'[q]) = Len(payouts[q]) + 1
<1>1. ASSUME NEW t \in Tasks, Pays(t)
      PROVE  \/ Len(payouts'[q]) = Len(payouts[q])
             \/ job[t].q = q /\ Len(payouts'[q]) = Len(payouts[q]) + 1
  <2>1. payouts' = [payouts EXCEPT ![job[t].q] = Append(@, "pending")]
    BY <1>1 DEF Pays, MintSubmit, ReleaseSend, SendPayout
  <2>2. payouts[q] \in Seq(Fates) /\ "pending" \in Fates
    BY DEF TypeOK, ChainsOK, Fates
  <2>3. Len(Append(payouts[q], "pending")) = Len(payouts[q]) + 1
    BY <2>2, AppendedRow
  <2> QED BY <2>1, <2>3 DEF TypeOK, ChainsOK
<1> QED BY <1>1, Writers

\* Who is on the way to a payout was, or found that the quote has none.
LEMMA TurnsKnown ==
    ASSUME TypeOK, StepSort, NEW q \in Quotes, Paying(q)'
    PROVE  \/ \E u \in Tasks : Still(u) /\ pc[u] \in {"payout", "mintSubmit"} /\ job[u].q = q
           \/ /\ UNCHANGED <<payoutIds, payouts, failures>>
              /\ Paying(q) \/ payoutIds[q] = <<>>
<1>1. PICK u \in Tasks : pc'[u] \in {"payout", "mintSubmit"} /\ job'[u].q = q
  BY DEF Paying
<1>2. {"payout", "mintSubmit"} \subseteq Telling
      /\ {"payout", "mintSubmit"} \cap
           (Applying \cup Sent \cup {"consumeSubmit", "consumeAppend"}) = {}
  BY DEF Telling, Applying, Decided, Sent
<1>3. Still(u) \/ TurnsToPay(u)
  BY <1>1, <1>2, Arrivals, ArrivalLabels DEF Arrives, Applying
<1>4. CASE Still(u)
  BY <1>1, <1>4 DEF Still
<1>5. CASE TurnsToPay(u)
  <2>1. job[u].q = q /\ UNCHANGED <<payoutIds, payouts, failures>>
    BY <1>1, <1>5 DEF TurnsToPay, rows, chains
  <2> QED BY <1>5, <2>1 DEF TurnsToPay, Paying
<1> QED BY <1>3, <1>4, <1>5

\* A payout is sent only while its quote has none on record and nobody is storing one.
LEMMA PaysStep ==
    ASSUME OneOwnerPerEvent, OneSettler, PaysOnce, StepSort, TypeOK'
    PROVE  PaysOnce'
<1>0. TypeOK /\ failures \in Nat /\ failures' \in Nat /\ failures <= failures'
  BY OwnersKnown, Writers, ConstantsAssumption DEF TypeOK, ProcessOK
<1> SUFFICES ASSUME NEW q \in Quotes
             PROVE  /\ Len(payouts'[q]) <= 1 + failures'
                    /\ Paying(q)' => payoutIds'[q] = <<>>
                    /\ payoutIds'[q] = <<>> /\ Storing(q)' = {} => Len(payouts'[q]) <= failures'
  BY DEF PaysOnce
<1>1. /\ Len(payouts[q]) <= 1 + failures
      /\ Paying(q) => payoutIds[q] = <<>>
      /\ payoutIds[q] = <<>> /\ Storing(q) = {} => Len(payouts[q]) <= failures
  BY DEF PaysOnce
<1>2. Len(payouts[q]) \in Nat
  <2>1. payouts[q] \in Seq(Fates)
    BY <1>0 DEF TypeOK, ChainsOK
  <2> QED BY <2>1, LenProperties
<1>3. \A t \in Tasks : pc[t] \in Sent \cup {"payout", "mintSubmit"} => Occupied(t)
  BY DEF Occupied, Sent, Settling
<1>4. ASSUME Paying(q)' PROVE payoutIds'[q] = <<>>
  <2>1. ASSUME NEW u \in Tasks, Still(u), pc[u] \in {"payout", "mintSubmit"}, job[u].q = q
        PROVE  payoutIds'[q] = <<>>
    <3>1. payoutIds[q] = <<>> /\ Occupied(u)
      BY <1>1, <1>3, <2>1 DEF Paying
    <3>2. ASSUME payoutIds'[q] # payoutIds[q] PROVE FALSE
      <4>1. PICK t \in Tasks : /\ Occupied(t) /\ job[t].q = q
                               /\ pc'[t] \notin {"payout", "mintSubmit"}
        BY <3>2, IdsWritten
      <4>2. t = u
        BY <2>1, <3>1, <4>1 DEF OneSettler
      <4> QED BY <2>1, <4>1, <4>2 DEF Still
    <3> QED BY <3>1, <3>2
  <2>2. CASE UNCHANGED payoutIds /\ (Paying(q) \/ payoutIds[q] = <<>>)
    BY <1>1, <2>2
  <2> QED BY <1>0, <1>4, <2>1, <2>2, TurnsKnown
<1>5. ASSUME NEW t \in Tasks, Pays(t), job[t].q = q
      PROVE  /\ Len(payouts[q]) <= failures
             /\ Storing(q)' # {}
  <2>1. pc[t] \in {"payout", "mintSubmit"}
    BY <1>5 DEF Pays, MintSubmit, ReleaseSend
  <2>2. payoutIds[q] = <<>>
    BY <1>1, <1>5, <2>1 DEF Paying
  <2>3. ASSUME NEW v \in Storing(q) PROVE FALSE
    <3>1. v \in Tasks /\ pc[v] \in Sent /\ job[v].q = q
      BY <2>3 DEF Storing, Sent
    <3>2. v = t
      BY <1>3, <1>5, <2>1, <3>1 DEF OneSettler
    <3> QED BY <2>1, <3>1, <3>2 DEF Sent
  <2>4. pc'[t] \in Sent /\ job'[t].q = q
    BY <1>0, <1>5, ArrivalLabels
  <2> QED BY <1>1, <2>2, <2>3, <2>4 DEF Storing, Sent
<1>6. Len(payouts'[q]) <= 1 + failures'
  <2>1. CASE Len(payouts'[q]) = Len(payouts[q])
    BY <1>0, <1>1, <1>2, <2>1
  <2>2. CASE \E t \in Tasks : Pays(t) /\ job[t].q = q /\ Len(payouts'[q]) = Len(payouts[q]) + 1
    BY <1>0, <1>2, <1>5, <2>2
  <2> QED BY <1>0, <2>1, <2>2, PayoutsWritten
<1>7. ASSUME payoutIds'[q] = <<>>, Storing(q)' = {} PROVE Len(payouts'[q]) <= failures'
  <2>1. payoutIds[q] = <<>>
    BY <1>7, IdsWritten
  <2>2. Len(payouts'[q]) = Len(payouts[q])
    BY <1>0, <1>5, <1>7, PayoutsWritten
  <2>3. CASE Storing(q) = {}
    BY <1>0, <1>1, <1>2, <2>1, <2>2, <2>3
  <2>4. ASSUME NEW v \in Storing(q) PROVE Len(payouts'[q]) <= failures'
    <3>1. v \in Tasks /\ pc[v] \in Sent /\ job[v].q = q
      BY <2>4 DEF Storing, Sent
    <3>2. ~Still(v)
      BY <1>7, <3>1 DEF Still, Storing, Sent
    <3>3. ~Stores(v)
      <4>1. ASSUME Stores(v) PROVE payoutIds'[q] # <<>>
        <5>1. PICK n \in Nat : n = job[v].id
          BY <3>1, OwnersKnown
        <5>2. payoutIds' = [payoutIds EXCEPT ![q] = Append(@, n)]
          BY <3>1, <4>1, <5>1 DEF Stores, MintAppend, ReleaseAppend
        <5> QED BY <1>0, <5>2, PayoutIdAdded
      <4> QED BY <1>7, <4>1
    <3>4. failures < failures'
      BY <1>0, <3>1, <3>2, <3>3, LeavesSent
    <3> QED BY <1>0, <1>1, <1>2, <2>2, <3>4
  <2> QED BY <2>3, <2>4
<1> QED BY <1>4, <1>6, <1>7

-----------------------------------------------------------------------------
(***************************************************************************)
(* A payout is in the rows, in a task's hands, or hidden by a failure.        *)
(***************************************************************************)

\* A crash or a failed call takes the payout x out of the hands of task v.
Loses(v, x) ==
    /\ pc[v] \in Sent /\ x = <<job[v].q, job[v].id>>
    /\ failures < failures'

\* Two tasks never hold payouts of one direction: the resume pass runs alone, and one loop
\* serves the direction.
LEMMA StorersAlone ==
    ASSUME OneOwnerPerEvent, WellGrounded, OnDuty, NEW t \in Tasks, NEW u \in Tasks,
           pc[t] \in Sent, pc[u] \in Sent, Origin[job[t].q] = Origin[job[u].q]
    PROVE  t = u
<1>1. Occupied(t) /\ Occupied(u)
  BY DEF Occupied, Sent, Settling
<1>2. Serves(t, job[t].q) /\ Serves(u, job[u].q) /\ Busy(t) /\ Busy(u)
  BY <1>1, OccupiedServes
<1>3. t = "resume" <=> u = "resume"
  BY <1>2 DEF OnDuty
<1> QED BY <1>2, <1>3 DEF Serves

\* What a row names stays named, and what a task holds stays held, is named next, or is lost.
LEMMA SightKept ==
    ASSUME TypeOK, StepSort, Grows, NEW q \in Quotes, NEW k \in InSight(q)
    PROVE  k \in InSight(q)' \/ \E v \in Tasks : Loses(v, <<q, k>>)
<1>1. CASE k \in Range(payoutIds[q])
  BY <1>1 DEF Grows, InSight
<1>2. ASSUME NEW v \in Storing(q), k = job[v].id
      PROVE  k \in InSight(q)' \/ Loses(v, <<q, k>>)
  <2>1. v \in Tasks /\ pc[v] \in Sent /\ job[v].q = q /\ k \in Nat
    BY <1>2, JobTyped DEF Storing, Sent, TypeOK, ProcessOK
  <2>2. CASE Still(v)
    <3>1. v \in Storing(q)' /\ k = job'[v].id
      BY <1>2, <2>1, <2>2 DEF Still, Storing, Sent
    <3> QED BY <3>1 DEF InSight
  <2>3. CASE Stores(v)
    <3>1. payoutIds' = [payoutIds EXCEPT ![q] = Append(@, k)]
      BY <1>2, <2>1, <2>3 DEF Stores, MintAppend, ReleaseAppend
    <3>2. k \in Nat
      BY <2>1
    <3>3. Range(payoutIds'[q]) = Range(payoutIds[q]) \cup {k}
      BY <3>1, <3>2, PayoutIdAdded
    <3>4. k \in Range(payoutIds'[q])
      BY <3>3
    <3> QED BY <3>4 DEF InSight
  <2>4. CASE failures < failures'
    BY <1>2, <2>1, <2>4 DEF Loses
  <2> QED BY <2>1, <2>2, <2>3, <2>4, LeavesSent
<1>3. \A v \in Storing(q) : v \in Tasks
  BY DEF Storing
<1> QED BY <1>1, <1>2, <1>3 DEF InSight

\* A payout that is sent is in the hands of its task.
LEMMA SentInSight ==
    ASSUME TypeOK, StepSort, NEW q \in Quotes, NEW k \in 1..Len(payouts'[q])
    PROVE  k \in 1..Len(payouts[q]) \/ k \in InSight(q)'
<1>1. Len(payouts[q]) \in Nat
  <2>1. payouts[q] \in Seq(Fates)
    BY DEF TypeOK, ChainsOK
  <2> QED BY <2>1, LenProperties
<1>2. ASSUME NEW t \in Tasks, Pays(t), job[t].q = q,
             Len(payouts'[q]) = Len(payouts[q]) + 1, k = Len(payouts[q]) + 1
      PROVE  k \in InSight(q)'
  <2>1. pc'[t] \in Sent /\ job'[t].q = q
    BY <1>2, ArrivalLabels
  <2>2. job' = [job EXCEPT ![t].id = k]
    BY <1>2 DEF Pays, MintSubmit, ReleaseSend, SendPayout
  <2>3. job'[t].id = k
    BY <2>2 DEF TypeOK, ProcessOK, TasksOK, Jobs
  <2>4. t \in Storing(q)'
    BY <2>1 DEF Storing, Sent
  <2> QED BY <2>3, <2>4 DEF InSight
<1> QED BY <1>1, <1>2, PayoutsWritten

\* A payout goes out of sight only when the task that holds it fails.
LEMMA HiddenByFailure ==
    ASSUME TypeOK, StepSort, Grows, NEW chain, NEW x \in Hidden(chain)'
    PROVE  x \in Hidden(chain) \/ \E v \in Tasks : Loses(v, x) /\ Origin[job[v].q] = chain
<1>1. PICK q \in From(chain) : x \in {q} \X ((1..Len(payouts'[q])) \ InSight(q)')
  BY DEF Hidden, From
<1>2. PICK k \in 1..Len(payouts'[q]) : x = <<q, k>> /\ k \notin InSight(q)'
  BY <1>1
<1>3. q \in Quotes /\ Origin[q] = chain
  BY DEF From
<1>4. k \in 1..Len(payouts[q])
  BY <1>2, <1>3, SentInSight
<1>5. CASE k \notin InSight(q)
  BY <1>2, <1>4, <1>5 DEF Hidden
<1>6. CASE k \in InSight(q)
  <2>1. PICK v \in Tasks : Loses(v, <<q, k>>)
    BY <1>2, <1>3, <1>6, SightKept
  <2> QED BY <1>2, <1>3, <2>1 DEF Loses
<1> QED BY <1>5, <1>6

\* The payouts out of sight are finitely many, and each is the price of a failure.
HiddenCounted ==
    \A chain \in {"evm", "miden"} :
        IsFiniteSet(Hidden(chain)) /\ Cardinality(Hidden(chain)) <= failures

\* A step hides nothing, or counts a failure and hides one payout of a direction at most.
LEMMA HiddenStep ==
    ASSUME OneOwnerPerEvent, WellGrounded, OnDuty, HiddenCounted, StepSort, Grows
    PROVE  HiddenCounted'
<1>0. TypeOK /\ failures \in Nat /\ failures' \in {failures, failures + 1}
  BY OwnersKnown, Writers, ConstantsAssumption DEF TypeOK, ProcessOK
<1> SUFFICES ASSUME NEW chain \in {"evm", "miden"}
             PROVE  IsFiniteSet(Hidden(chain)') /\ Cardinality(Hidden(chain)') <= failures'
  BY DEF HiddenCounted
<1> DEFINE H == Hidden(chain)
<1>1. IsFiniteSet(H) /\ Cardinality(H) <= failures /\ Cardinality(H) \in Nat
  BY FS_CardinalityType DEF HiddenCounted
<1>2. CASE failures' = failures
  <2>1. H' \in SUBSET H
    BY <1>0, <1>2, HiddenByFailure DEF Loses
  <2> HIDE DEF H
  <2>2. IsFiniteSet(H') /\ Cardinality(H') <= Cardinality(H)
    BY <1>1, <2>1, FS_Subset
  <2>3. Cardinality(H') \in Nat
    BY <2>2, FS_CardinalityType
  <2> QED BY <1>0, <1>1, <1>2, <2>2, <2>3 DEF H
<1>3. CASE failures' = failures + 1
  <2>1. PICK x : H' \in SUBSET (H \cup {x})
    <3>1. CASE \E v \in Tasks : pc[v] \in Sent /\ Origin[job[v].q] = chain
      <4>1. PICK v \in Tasks : pc[v] \in Sent /\ Origin[job[v].q] = chain
        BY <3>1
      <4>2. ASSUME NEW y \in H' PROVE y \in H \cup {<<job[v].q, job[v].id>>}
        <5>1. ASSUME NEW u \in Tasks, Loses(u, y), Origin[job[u].q] = chain
              PROVE  y = <<job[v].q, job[v].id>>
          BY <4>1, <5>1, StorersAlone DEF Loses
        <5> QED BY <1>0, <5>1, HiddenByFailure
      <4> QED BY <4>2
    <3>2. CASE ~ \E v \in Tasks : pc[v] \in Sent /\ Origin[job[v].q] = chain
      <4>1. H' \in SUBSET H
        BY <1>0, <3>2, HiddenByFailure DEF Loses
      <4> QED BY <4>1
    <3> QED BY <3>1, <3>2
  <2> DEFINE K == H \cup {x}
  <2> HIDE DEF H
  <2>2. /\ IsFiniteSet(K)
        /\ Cardinality(K) = Cardinality(H) \/ Cardinality(K) = Cardinality(H) + 1
    BY <1>1, FS_AddElement
  <2>3. H' \in SUBSET K
    BY <2>1
  <2> HIDE DEF K
  <2>4. IsFiniteSet(H') /\ Cardinality(H') <= Cardinality(K)
    BY <2>2, <2>3, FS_Subset
  <2>5. Cardinality(H') \in Nat
    BY <2>4, FS_CardinalityType
  <2> QED BY <1>0, <1>1, <1>3, <2>2, <2>4, <2>5 DEF H
<1> QED BY <1>0, <1>2, <1>3

-----------------------------------------------------------------------------
(***************************************************************************)
(* SUCCESS is final for the claim of settlement.                              *)
(***************************************************************************)

\* A quote that has reached SUCCESS has burned the key of its claim.
LEMMA SuccessClaimed ==
    ASSUME OneOwnerPerEvent, WellGrounded, NEW q \in Quotes, Succeeds(q)
    PROVE  Initiated \in keys[q]
<1>1. PICK i \in 1..Len(log[q]) : log[q][i].to = "SUCCESS"
  BY DEF Succeeds
<1>2. PICK ev : ev = log[q][i].ev /\ ev.kind = "SETTLEMENT_SUCCEEDED"
  BY <1>1, QuotesAccounted DEF Accounted
<1>3. ev \in keys[q]
  <2>1. ev \in Recorded(q)
    BY <1>2 DEF Recorded, Journal!Recorded
  <2>2. ev # QuoteCreated
    BY <1>2 DEF QuoteCreated, Event
  <2> QED BY <2>1, <2>2, OwnersKnown DEF Burned
<1>4. Stands(q, ev)
  BY <1>3 DEF WellGrounded
<1> QED BY <1>2, <1>4 DEF Stands, SettleKinds

\* A row to PROCESSING is the claim's, and a row to SUCCESS is that of a payout.
LEMMA RecordedKind ==
    ASSUME OneOwnerPerEvent, WellGrounded, NEW t \in Tasks, pc[t] = "record"
    PROVE  /\ job[t].to = "PROCESSING" => job[t].ev = Initiated
           /\ job[t].to = "SUCCESS" => job[t].ev.kind = "SETTLEMENT_SUCCEEDED"
<1>1. \E short \in BOOLEAN : job[t].to = TargetStatus(job[t].ev.kind, job[t].from, short)
  BY OwnersKnown DEF Justified, Decided
<1>2. Stands(job[t].q, job[t].ev)
  BY CarriedStands DEF Holding, Applying, Decided
<1> QED BY <1>1, <1>2, StatusReached DEF Stands

\* The rows of one quote are written by the task that records an event on it.
LEMMA RowsWritten ==
    ASSUME TypeOK, StepSort, NEW q \in Quotes
    PROVE  \/ log'[q] = log[q] /\ status'[q] = status[q]
           \/ \E t \in Tasks, row \in Entries :
                /\ ApplyRecord(t) /\ job[t].q = q /\ row.to = job[t].to
                /\ log'[q] = Append(log[q], row) /\ status'[q] = row.to
           \/ \E row \in Entries :
                /\ CreateQuote(q) /\ row.to = "PENDING_DEPOSIT"
                /\ log'[q] = Append(log[q], row) /\ status'[q] = row.to
<1>1. CASE UNCHANGED <<status, log>>
  BY <1>1
<1>2. ASSUME NEW t \in Tasks, ApplyRecord(t)
      PROVE  \/ log'[q] = log[q] /\ status'[q] = status[q]
             \/ \E row \in Entries :
                  /\ job[t].q = q /\ row.to = job[t].to
                  /\ log'[q] = Append(log[q], row) /\ status'[q] = row.to
  <2>1. PICK p \in Quotes, row \in Entries :
          p = job[t].q /\ row.to = job[t].to /\ RecordEvent(p, row)
    <3>1. Entry(job[t].ev, job[t].from, job[t].to, job[t].reason).to = job[t].to
      BY DEF Entry
    <3> QED BY <1>2, <3>1, RecordShape
  <2> QED BY <2>1, RecordGrows
<1>3. ASSUME NEW p \in Quotes, CreateQuote(p)
      PROVE  \/ log'[q] = log[q] /\ status'[q] = status[q]
             \/ \E row \in Entries :
                  /\ CreateQuote(q) /\ row.to = "PENDING_DEPOSIT"
                  /\ log'[q] = Append(log[q], row) /\ status'[q] = row.to
  <2>1. PICK row \in Entries : row.to = "PENDING_DEPOSIT" /\ RecordEvent(p, row)
    <3>1. Entry(QuoteCreated, "NONE", "PENDING_DEPOSIT", "default") \in Entries
      BY DEF Entry, Entries, Statuses, Reasons
    <3>2. Entry(QuoteCreated, "NONE", "PENDING_DEPOSIT", "default").to = "PENDING_DEPOSIT"
      BY DEF Entry
    <3> QED BY <1>3, <3>1, <3>2 DEF CreateQuote
  <2> QED BY <1>3, <2>1, RecordGrows
<1> QED BY <1>1, <1>2, <1>3, Writers

\* A quote that succeeds succeeded before, or gets its row now.
LEMMA SuccessReached ==
    ASSUME TypeOK, StepSort, NEW q \in Quotes
    PROVE  /\ Succeeds(q) => Succeeds(q)'
           /\ Succeeds(q)' => \/ Succeeds(q)
                              \/ \E t \in Tasks : /\ ApplyRecord(t) /\ job[t].q = q
                                                  /\ job[t].to = "SUCCESS"
                                                  /\ status'[q] = "SUCCESS"
<1>1. ASSUME NEW row \in Entries, log'[q] = Append(log[q], row)
      PROVE  Succeeds(q)' <=> Succeeds(q) \/ row.to = "SUCCESS"
  <2>1. log[q] \in Seq(Entries)
    BY DEF TypeOK, StoreOK
  <2>2. /\ \A i \in 1..Len(log[q]) : log'[q][i] = log[q][i]
        /\ log'[q][Len(log[q]) + 1] = row
        /\ 1..Len(log'[q]) = 1..Len(log[q]) \cup {Len(log[q]) + 1}
    BY <1>1, <2>1, AppendedRow
  <2> QED BY <2>2 DEF Succeeds
<1>2. CASE log'[q] = log[q]
  BY <1>2 DEF Succeeds
<1> QED BY <1>1, <1>2, RowsWritten

\* No quote that succeeded is claimed, and none is claimed while it succeeds.
LEMMA SettledStep ==
    ASSUME OneOwnerPerEvent, WellGrounded, OneSettler, StaysSettled, StepSort
    PROVE  StaysSettled'
<1>0. TypeOK
  BY OwnersKnown
<1> SUFFICES ASSUME NEW q \in Quotes, Succeeds(q)'
             PROVE  /\ status'[q] # "PROCESSING"
                    /\ \A u \in Tasks : pc'[u] \in Applying /\ job'[u].q = q
                                          => job'[u].ev # Initiated
  BY DEF StaysSettled
<1>1. CASE Succeeds(q)
  <2>1. /\ status[q] # "PROCESSING"
        /\ \A u \in Tasks : pc[u] \in Applying /\ job[u].q = q => job[u].ev # Initiated
    BY <1>1 DEF StaysSettled
  <2>2. Initiated \in keys[q]
    BY <1>1, SuccessClaimed
  <2>3. status'[q] # "PROCESSING"
    <3>1. ASSUME NEW t \in Tasks, ApplyRecord(t), job[t].q = q PROVE job[t].to # "PROCESSING"
      <4>1. pc[t] = "record" /\ pc[t] \in Applying
        BY <3>1 DEF ApplyRecord, Applying, Decided
      <4> QED BY <2>1, <3>1, <4>1, RecordedKind
    <3> QED BY <1>0, <2>1, <3>1, RowsWritten
  <2>4. ASSUME NEW u \in Tasks, pc'[u] \in Applying, job'[u].q = q, job'[u].ev = Initiated
        PROVE  FALSE
    <3>1. pc'[u] \in Telling
          /\ pc'[u] \notin Sent \cup {"payout", "mintSubmit", "consumeSubmit", "consumeAppend"}
      BY <2>4 DEF Telling, Applying, Decided, Sent
    <3>2. \/ Still(u) \/ Decides(u) \/ \E p \in Quotes, ev \in Events : Raises(u, p, ev)
      BY <1>0, <3>1, Arrivals, ArrivalLabels DEF Arrives
    <3>3. CASE Still(u)
      BY <2>1, <2>4, <3>3 DEF Still
    <3>4. CASE Decides(u)
      BY <1>0, <2>1, <2>4, <3>4, DecideShape
    <3>5. ASSUME NEW p \in Quotes, NEW ev \in Events, Raises(u, p, ev) PROVE FALSE
      BY <2>2, <2>4, <3>5 DEF Raises, Claims
    <3> QED BY <3>2, <3>3, <3>4, <3>5
  <2> QED BY <2>3, <2>4
<1>2. ASSUME NEW t \in Tasks, ApplyRecord(t), job[t].q = q, job[t].to = "SUCCESS",
             status'[q] = "SUCCESS"
      PROVE  /\ status'[q] # "PROCESSING"
             /\ \A u \in Tasks : pc'[u] \in Applying /\ job'[u].q = q => job'[u].ev # Initiated
  <2>1. pc[t] = "record" /\ pc[t] \in Applying
    BY <1>2 DEF ApplyRecord, Applying, Decided
  <2>2. job[t].ev.kind = "SETTLEMENT_SUCCEEDED" /\ Occupied(t)
    BY <1>2, <2>1, RecordedKind DEF Occupied, SettleKinds
  <2>3. OnlyMoves(t) /\ pc'[t] \notin Applying
    BY <1>0, <1>2, LeavesTelling DEF Telling
  <2>4. ASSUME NEW u \in Tasks, pc'[u] \in Applying, job'[u].q = q, job'[u].ev = Initiated
        PROVE  FALSE
    <3>1. u # t /\ pc[u] \in Applying /\ job[u].q = q /\ job[u].ev = Initiated
      BY <2>3, <2>4 DEF OnlyMoves
    <3>2. Occupied(u)
      BY <3>1 DEF Occupied, SettleKinds, Initiated, Event
    <3> QED BY <1>2, <2>2, <3>1, <3>2 DEF OneSettler
  <2> QED BY <1>2, <2>4
<1> QED BY <1>0, <1>1, <1>2, SuccessReached

-----------------------------------------------------------------------------
(***************************************************************************)
(* The invariant, and what follows from it.                                   *)
(***************************************************************************)

\* At the start nothing was stored, paid or settled.
LEMMA InitPayments == Init => HashesOnce /\ NotesOnce /\ PaysOnce /\ StaysSettled
<1> SUFFICES ASSUME Init PROVE HashesOnce /\ NotesOnce /\ PaysOnce /\ StaysSettled
  OBVIOUS
<1>1. /\ \A q \in Quotes : /\ depositTxs[q] = <<>> /\ consumeIds[q] = <<>>
                           /\ payouts[q] = <<>> /\ payoutIds[q] = <<>> /\ log[q] = <<>>
      /\ \A t \in Tasks : pc[t] = "idle"
      /\ failures = 0
  BY DEF Init
<1>2. IsInjective(<<>>)
  BY DEF IsInjective
<1>3. HashesOnce
  BY <1>1, <1>2 DEF HashesOnce
<1>4. NotesOnce
  BY <1>1, <1>2 DEF NotesOnce, Tasks, Loops
<1>5. PaysOnce
  BY <1>1 DEF PaysOnce, Paying
<1>6. StaysSettled
  BY <1>1 DEF StaysSettled, Succeeds
<1> QED BY <1>3, <1>4, <1>5, <1>6

\* All of the invariant but what follows from the rest of it.
PaymentsLeft ==
    /\ OneOwnerPerEvent /\ WellGrounded /\ OnDuty
    /\ HashesOnce /\ NotesOnce /\ PaysOnce /\ StaysSettled

\* Every step keeps it.
LEMMA PaymentsStep ==
    ASSUME PaymentsLeft, [Next]_vars
    PROVE  PaymentsLeft' /\ StepSort
<1>1. OneOwnerPerEvent /\ WellGrounded /\ OnDuty /\ TypeOK
  BY OwnersKnown DEF PaymentsLeft
<1>2. OneOwnerPerEvent' /\ TypeOK'
  BY <1>1, OwnerStep DEF OneOwnerPerEvent
<1>3. WellGrounded' /\ OnDuty'
  BY <1>1, <1>2, GroundsStep, DutyStep
<1>4. StepSort /\ OneSettler
  BY <1>1, StepSorts, SettlersAlone
<1>5. HashesOnce' /\ NotesOnce' /\ PaysOnce' /\ StaysSettled'
  BY <1>1, <1>2, <1>4, HashesStep, NotesStep, PaysStep, SettledStep DEF PaymentsLeft
<1> QED BY <1>2, <1>3, <1>4, <1>5 DEF PaymentsLeft

\* Every payout, refund, hash and note is on record for one reason and once, and one task
\* at a time settles a quote: the invariant behind the theorems below.
THEOREM PaymentsKept == Spec => []PaymentsGrounded
<1>1. Init => PaymentsLeft
  BY InitTyped, InitOwned, InitGrounded, InitDuty, InitPayments
     DEF PaymentsLeft, OneOwnerPerEvent, Owned
<1>2. PaymentsLeft /\ [Next]_vars => PaymentsLeft'
  BY PaymentsStep
<1>3. PaymentsLeft => PaymentsGrounded
  BY SettlersAlone DEF PaymentsLeft, PaymentsGrounded
<1> QED BY <1>1, <1>2, <1>3, PTL DEF Spec

\* A hash is stored once, and every confirmation of an EVM deposit names the first hash
\* of its quote, whatever is submitted before and after it.
THEOREM FirstHashConfirmed == Spec => []ConfirmsFirstHash
<1>1. PaymentsGrounded => ConfirmsFirstHash
  <2> SUFFICES ASSUME PaymentsGrounded, NEW q \in Quotes
               PROVE  /\ IsInjective(depositTxs[q])
                      /\ \A i \in ConfirmedEntries(q) :
                           Origin[q] = "evm" =>
                             HasHash(q) /\ log[q][i].ev = Confirmed(FirstTx(q))
    BY DEF ConfirmsFirstHash
  <2>1. OneOwnerPerEvent /\ WellGrounded /\ IsInjective(depositTxs[q])
    BY DEF PaymentsGrounded, HashesOnce
  <2>2. ASSUME NEW i \in ConfirmedEntries(q), Origin[q] = "evm"
        PROVE  HasHash(q) /\ log[q][i].ev = Confirmed(FirstTx(q))
    <3>1. PICK ev : ev = log[q][i].ev /\ ev.kind \in Confirmations /\ ev \in Recorded(q)
      BY DEF ConfirmedEntries, Recorded, Journal!Recorded
    <3>2. ev # QuoteCreated
      BY <3>1 DEF QuoteCreated, Event, Confirmations
    <3>3. ev \in keys[q]
      BY <2>1, <3>1, <3>2, OwnersKnown DEF Burned
    <3>4. Stands(q, ev)
      BY <2>1, <3>3 DEF WellGrounded
    <3> QED BY <2>2, <3>1, <3>4 DEF Stands, Funded, FundedKinds
  <2> QED BY <2>1, <2>2
<1> QED BY <1>1, PaymentsKept, PTL

\* A note is recorded as consumed once, for the quote it pays, and not before a
\* transaction that consumes it was submitted, however often the poller comes back to it.
THEOREM NotesConsumedOnce == Spec => []ConsumesOnce
<1>1. PaymentsGrounded => ConsumesOnce
  <2> SUFFICES ASSUME PaymentsGrounded, NEW q \in Quotes
               PROVE  /\ IsInjective(consumeIds[q])
                      /\ \A i \in 1..Len(consumeIds[q]) :
                           /\ PaysTo[consumeIds[q][i]] = q
                           /\ consumes[consumeIds[q][i]] # "none"
    BY DEF ConsumesOnce
  <2>1. OneOwnerPerEvent /\ Accounted(q) /\ IsInjective(consumeIds[q])
    BY QuotesAccounted DEF PaymentsGrounded, NotesOnce
  <2>2. consumeIds[q] \in Seq(Notes)
    BY <2>1, OwnersKnown DEF TypeOK, StoreOK
  <2>3. \A i \in 1..Len(consumeIds[q]) : consumeIds[q][i] \in Range(consumeIds[q])
    BY <2>2, LenProperties DEF Range
  <2> QED BY <2>1, <2>3 DEF Accounted
<1> QED BY <1>1, PaymentsKept, PTL

\* However the retries, restarts and loops interleave, each crash or failed call costs at
\* most one extra mint or release of a quote.
THEOREM PayoutsBounded == Spec => []PayoutsBoundedByFailures
<1>1. PaymentsGrounded => PayoutsBoundedByFailures
  BY DEF PaymentsGrounded, PaysOnce, PayoutsBoundedByFailures
<1> QED BY <1>1, PaymentsKept, PTL

\* A mint or release that was sent is in the rows or in a task's hands; each crash or failed
\* call hides one of a direction at most, over all the quotes.
THEOREM PayoutsOnRecord == Spec => []PayoutsAreRecorded
<1>1. Init => HiddenCounted
  <2> SUFFICES ASSUME Init, NEW chain \in {"evm", "miden"}
               PROVE  IsFiniteSet(Hidden(chain)) /\ Cardinality(Hidden(chain)) <= failures
    BY DEF HiddenCounted
  <2>1. \A q \in Quotes : payouts[q] = <<>>
    BY DEF Init
  <2>2. \A q \in Quotes : 1..Len(payouts[q]) = {}
    BY <2>1, EmptySeq
  <2>3. Hidden(chain) = {}
    BY <2>2 DEF Hidden, From
  <2>4. failures = 0
    BY DEF Init
  <2> QED BY <2>3, <2>4, FS_EmptySet
<1>2. PaymentsGrounded /\ HiddenCounted /\ [Next]_vars => HiddenCounted'
  <2> SUFFICES ASSUME PaymentsGrounded, HiddenCounted, [Next]_vars PROVE HiddenCounted'
    OBVIOUS
  <2>1. OneOwnerPerEvent /\ WellGrounded /\ OnDuty /\ TypeOK
    BY OwnersKnown DEF PaymentsGrounded
  <2>2. PaymentsLeft' /\ StepSort
    BY PaymentsStep DEF PaymentsGrounded, PaymentsLeft
  <2>3. TypeOK'
    BY <2>2 DEF PaymentsLeft, OneOwnerPerEvent
  <2>4. Grows
    BY <2>1, <2>3, GroundsStep DEF Advances
  <2> QED BY <2>1, <2>2, <2>4, HiddenStep
<1>3. HiddenCounted => PayoutsAreRecorded
  BY DEF HiddenCounted, PayoutsAreRecorded
<1> QED BY <1>1, <1>2, <1>3, PaymentsKept, PTL DEF Spec

\* A quote that reached SUCCESS is never claimed again: no stale row moves it back to
\* PROCESSING.
THEOREM SuccessNotReopened == Spec => NeverReopensSuccess
<1>1. PaymentsGrounded /\ [Next]_vars =>
        [\A q \in Quotes :
            (\E i \in 1..Len(log[q]) : log[q][i].to = "SUCCESS") => status'[q] # "PROCESSING"]_vars
  <2> SUFFICES ASSUME PaymentsGrounded, [Next]_vars, NEW q \in Quotes, Succeeds(q)
               PROVE  status'[q] # "PROCESSING"
    BY DEF Succeeds
  <2>1. PaymentsLeft' /\ StepSort /\ TypeOK
    BY PaymentsStep, OwnersKnown DEF PaymentsGrounded, PaymentsLeft
  <2>2. Succeeds(q)'
    BY <2>1, SuccessReached
  <2> QED BY <2>1, <2>2 DEF PaymentsLeft, StaysSettled
<1> QED BY <1>1, PaymentsKept, PTL DEF Spec, NeverReopensSuccess
=============================================================================
