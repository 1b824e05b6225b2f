-------------------------- MODULE BridgeGroundsProofs --------------------------
(***************************************************************************)
(* WellGrounded is inductive: every task stands at its step, and every key,   *)
(* row and list entry is there, on grounds no later step takes back.          *)
(***************************************************************************)
EXTENDS BridgeProofs, BridgeGrounds

-----------------------------------------------------------------------------
(***************************************************************************)
(* Grounds are never taken back.                                              *)
(***************************************************************************)

\* What no step of the system undoes.
Grows ==
    /\ landed \subseteq landed'
    /\ \A q \in Quotes :
         /\ keys[q] \subseteq keys'[q]
         /\ HasHash(q) => depositTxs'[q] # <<>> /\ depositTxs'[q][1] = depositTxs[q][1]
         /\ Len(payouts[q]) <= Len(payouts'[q])
         /\ Range(payoutIds[q]) \subseteq Range(payoutIds'[q])
    /\ \A n \in Notes : consumes[n] # "none" => consumes'[n] # "none"

\* The elements of an extended sequence.
LEMMA AppendedRange ==
    ASSUME NEW S, NEW s \in Seq(S), NEW e \in S
    PROVE  /\ Range(Append(s, e)) = Range(s) \cup {e}
           /\ s # <<>> => Append(s, e)[1] = s[1]
           /\ Append(s, e) # <<>>
<1>1. /\ Len(Append(s, e)) = Len(s) + 1 /\ Len(s) \in Nat
      /\ \A i \in 1..Len(s) : Append(s, e)[i] = s[i]
      /\ Append(s, e)[Len(s) + 1] = e
      /\ 1..Len(Append(s, e)) = 1..Len(s) \cup {Len(s) + 1}
  BY AppendedRow
<1>2. DOMAIN s = 1..Len(s) /\ DOMAIN Append(s, e) = 1..Len(Append(s, e))
  BY AppendProperties, LenProperties
<1>3. Range(Append(s, e)) = Range(s) \cup {e}
  BY <1>1, <1>2 DEF Range
<1>4. s # <<>> => 1 \in 1..Len(s)
  BY <1>1, EmptySeq
<1>5. Append(s, e) # <<>>
  BY <1>1, EmptySeq
<1> QED BY <1>1, <1>3, <1>4, <1>5

\* The deposit of a quote stays there.
LEMMA FundedStays ==
    ASSUME Grows, NEW q \in Quotes, Funded(q)
    PROVE  Funded(q)'
<1>1. CASE Origin[q] = "evm"
  BY <1>1 DEF Funded, Grows, HasHash, PaidBy, FirstTx
<1>2. CASE Origin[q] # "evm"
  <2>1. PICK n \in landed \cap Notes : PaysTo[n] = q /\ Takes(q, n)
    BY <1>2 DEF Funded
  <2>2. n \in landed' \cap Notes
    BY <2>1 DEF Grows
  <2> QED BY <1>2, <2>1, <2>2 DEF Funded, Takes
<1> QED BY <1>1, <1>2

\* A payout known by its place in the list of payouts keeps it.
LEMMA PlaceStays ==
    ASSUME TypeOK, TypeOK', Grows, NEW q \in Quotes, NEW i \in 1..Len(payouts[q])
    PROVE  i \in 1..Len(payouts'[q])
<1>1. Len(payouts[q]) \in Nat /\ Len(payouts'[q]) \in Nat
  BY LenProperties DEF TypeOK, ChainsOK
<1> QED BY <1>1 DEF Grows

\* A task that stays where it is keeps its grounds.
LEMMA GroundsStay ==
    ASSUME TypeOK, TypeOK', Grows, NEW t, NEW l, NEW j \in Jobs, Grounded(t, l, j),
           l \in NoteLabels => j.note \in Notes
    PROVE  Grounded(t, l, j)'
<1>1. j.q \in Quotes /\ j.note \in Notes \cup {None}
  BY DEF Jobs
<1>2. Funded(j.q) => Funded(j.q)'
  BY <1>1, FundedStays
<1>3. j.id \in 1..Len(payouts[j.q]) => j.id \in 1..Len(payouts'[j.q])
  BY <1>1, PlaceStays
<1>4. Initiated \in keys[j.q] => Initiated \in keys'[j.q]
  BY <1>1 DEF Grows
<1>5. j.ev.datum \in Range(payoutIds[j.q]) => j.ev.datum \in Range(payoutIds'[j.q])
  BY <1>1 DEF Grows
<1>6. ConsumeKey(j.note) \in keys[j.q] => ConsumeKey(j.note) \in keys'[j.q]
  BY <1>1 DEF Grows
<1>7. Serves(t, j.q)' = Serves(t, j.q)
  BY DEF Serves
<1>8. l = "consumeAppend" /\ consumes[j.note] # "none" => consumes'[j.note] # "none"
  BY DEF Grows, NoteLabels
<1> QED BY <1>2, <1>3, <1>4, <1>5, <1>6, <1>7, <1>8 DEF Grounded

\* So does a key.
LEMMA StandsStays ==
    ASSUME TypeOK, TypeOK', Grows, NEW q \in Quotes, NEW key, Stands(q, key)
    PROVE  Stands(q, key)'
<1>1. Funded(q) => Funded(q)'
  BY FundedStays
<1>2. key.kind \in Confirmations /\ Origin[q] = "evm" => FirstTx(q)' = FirstTx(q)
  <2>1. key.kind \in Confirmations => key.kind \in FundedKinds
    BY DEF FundedKinds
  <2> QED BY <2>1 DEF Stands, Funded, Grows, FirstTx
<1>3. Initiated \in keys[q] => Initiated \in keys'[q]
  BY DEF Grows
<1>4. key.datum \in 1..Len(payouts[q]) => key.datum \in 1..Len(payouts'[q])
  BY PlaceStays
<1> QED BY <1>1, <1>2, <1>3, <1>4 DEF Stands

-----------------------------------------------------------------------------
(***************************************************************************)
(* What a step has to show: its tasks, keys, rows and list entries have       *)
(* their grounds, or had them already.                                        *)
(***************************************************************************)
TasksGo ==
    \A t \in Tasks :
        \/ pc'[t] = pc[t] /\ job'[t] = job[t]
        \/ \E l \in Labels, j \in Jobs : pc'[t] = l /\ job'[t] = j /\ Grounded(t, l, j)'

KeysGo == \A q \in Quotes : \A key \in keys'[q] : key \in keys[q] \/ Stands(q, key)'

RowsGo ==
    \A q \in Quotes :
        /\ status'[q] = "PROCESSING" => status[q] = "PROCESSING" \/ Initiated \in keys[q]
        /\ PaidFor(q)' => PaidFor(q) \/ Funded(q)
        /\ Range(payoutIds'[q]) \subseteq Range(payoutIds[q]) \cup 1..Len(payouts[q])
        /\ \/ log'[q] = log[q]
           \/ \E row \in Entries :
                /\ log'[q] = Append(log[q], row)
                /\ row.to = "SUCCESS" => /\ row.ev.kind = "SETTLEMENT_SUCCEEDED"
                                         /\ row.ev.datum \in Range(payoutIds[q])
        /\ \A n \in Range(consumeIds'[q]) :
             \/ n \in Range(consumeIds[q])
             \/ n \in Notes /\ PaysTo[n] = q /\ consumes[n] # "none" /\ ConsumeKey(n) \in keys[q]

ListsGo ==
    \A t \in Tasks : \A r \in todo'[t] :
        \/ r \in todo[t]
        \/ /\ r.q \in Quotes
           /\ r.status = "PROCESSING" => Initiated \in keys[r.q]
           /\ t \in {"watcher", "poller"} => Serves(t, r.q)

Advances == Grows /\ TasksGo /\ KeysGo /\ RowsGo /\ ListsGo

\* The rows of a quote stay accounted for.
LEMMA RowsKeep ==
    ASSUME TypeOK, TypeOK', Grows, RowsGo, NEW q \in Quotes, Accounted(q)
    PROVE  Accounted(q)'
<1>1. status'[q] = "PROCESSING" => Initiated \in keys'[q]
  BY DEF RowsGo, Grows, Accounted
<1>2. PaidFor(q)' => Funded(q)'
  BY FundedStays DEF RowsGo, Accounted
<1>3. Range(payoutIds'[q]) \subseteq 1..Len(payouts'[q])
  BY PlaceStays DEF RowsGo, Accounted
<1>4. ASSUME NEW i \in 1..Len(log'[q]), log'[q][i].to = "SUCCESS"
      PROVE  /\ log'[q][i].ev.kind = "SETTLEMENT_SUCCEEDED"
             /\ log'[q][i].ev.datum \in Range(payoutIds'[q])
  <2>1. Range(payoutIds[q]) \subseteq Range(payoutIds'[q])
    BY DEF Grows
  <2>2. CASE log'[q] = log[q]
    BY <1>4, <2>1, <2>2 DEF Accounted
  <2>3. ASSUME NEW row \in Entries, log'[q] = Append(log[q], row),
               row.to = "SUCCESS" => /\ row.ev.kind = "SETTLEMENT_SUCCEEDED"
                                     /\ row.ev.datum \in Range(payoutIds[q])
        PROVE  /\ log'[q][i].ev.kind = "SETTLEMENT_SUCCEEDED"
               /\ log'[q][i].ev.datum \in Range(payoutIds'[q])
    <3>1. /\ \A k \in 1..Len(log[q]) : log'[q][k] = log[q][k]
          /\ log'[q][Len(log[q]) + 1] = row
          /\ 1..Len(log'[q]) = 1..Len(log[q]) \cup {Len(log[q]) + 1}
      BY <2>3, AppendedRow DEF TypeOK, StoreOK
    <3> QED BY <1>4, <2>1, <2>3, <3>1 DEF Accounted
  <2> QED BY <2>2, <2>3 DEF RowsGo
<1>5. ASSUME NEW n \in Range(consumeIds'[q])
      PROVE  PaysTo[n] = q /\ consumes'[n] # "none" /\ ConsumeKey(n) \in keys'[q]
  <2>1. n \in Notes
    BY DEF TypeOK, StoreOK, Range
  <2> QED BY <2>1 DEF RowsGo, Accounted, Grows
<1> QED BY <1>1, <1>2, <1>3, <1>4, <1>5 DEF Accounted

\* A step that shows all this keeps the invariant.
LEMMA AdvanceKeeps ==
    ASSUME TypeOK, TypeOK', WellGrounded, Advances
    PROVE  WellGrounded'
<1> USE DEF Advances
<1>1. ASSUME NEW t \in Tasks PROVE Grounded(t, pc[t], job[t])'
  <2>1. CASE pc'[t] = pc[t] /\ job'[t] = job[t]
    <3>1. PICK l \in Labels, j \in Jobs : l = pc[t] /\ j = job[t]
      BY DEF TypeOK, ProcessOK, TasksOK
    <3>2. Grounded(t, l, j) /\ (l \in NoteLabels => j.note \in Notes)
      BY <3>1, JobTyped DEF WellGrounded, TypeOK, ProcessOK
    <3>3. Grounded(t, l, j)'
      BY <3>2, GroundsStay
    <3> QED BY <2>1, <3>1, <3>3 DEF Grounded
  <2>2. ASSUME NEW l \in Labels, NEW j \in Jobs, pc'[t] = l, job'[t] = j, Grounded(t, l, j)'
        PROVE  Grounded(t, pc[t], job[t])'
    BY <2>2 DEF Grounded
  <2> QED BY <2>1, <2>2 DEF TasksGo
<1>2. ASSUME NEW t \in Tasks PROVE Listed(t)'
  <2>1. ASSUME NEW r \in todo'[t]
        PROVE  /\ r.status = "PROCESSING" => Initiated \in keys'[r.q]
               /\ t \in {"watcher", "poller"} => Serves(t, r.q)
    <3>1. r.q \in Quotes
      BY DEF TypeOK, ProcessOK
    <3> QED BY <3>1 DEF ListsGo, WellGrounded, Listed, Grows
  <2> QED BY <2>1 DEF Listed, Serves
<1>3. ASSUME NEW q \in Quotes PROVE Accounted(q)'
  BY RowsKeep DEF WellGrounded
<1>4. ASSUME NEW q \in Quotes, NEW key \in keys'[q] PROVE Stands(q, key)'
  BY StandsStays DEF KeysGo, WellGrounded
<1> QED BY <1>1, <1>2, <1>3, <1>4 DEF WellGrounded

-----------------------------------------------------------------------------
(***************************************************************************)
(* The control flow of a task.                                                *)
(***************************************************************************)

\* A step that leaves the rows and the chains alone.
LEMMA Untouched ==
    ASSUME UNCHANGED <<rows, chains>>, \A q \in Quotes : keys[q] \subseteq keys'[q]
    PROVE  Grows /\ RowsGo
<1>1. Grows
  BY DEF Grows, rows, chains, HasHash
<1>2. RowsGo
  BY DEF RowsGo, rows, chains, PaidFor
<1> QED BY <1>1, <1>2

\* A step that burns no key.
LEMMA NoKeyBurned ==
    ASSUME keys' = keys
    PROVE  KeysGo /\ \A q \in Quotes : keys[q] \subseteq keys'[q]
BY DEF KeysGo

\* A key needs grounds when it is burned.
LEMMA KeyBurned ==
    ASSUME TypeOK, NEW q \in Quotes, NEW key, BurnKey(q, key), Stands(q, key)'
    PROVE  KeysGo /\ \A p \in Quotes : keys[p] \subseteq keys'[p]
<1>1. /\ keys'[q] = keys[q] \cup {key}
      /\ \A p \in Quotes \ {q} : keys'[p] = keys[p]
  BY DEF BurnKey, TypeOK, StoreOK
<1>2. \A p \in Quotes : keys[p] \subseteq keys'[p]
  BY <1>1
<1>3. ASSUME NEW p \in Quotes, NEW k \in keys'[p] PROVE k \in keys[p] \/ Stands(p, k)'
  <2>1. CASE p = q /\ k = key
    BY <2>1 DEF Stands
  <2>2. CASE ~(p = q /\ k = key)
    BY <1>1, <2>2
  <2> QED BY <2>1, <2>2
<1>4. KeysGo
  BY <1>3 DEF KeysGo
<1> QED BY <1>2, <1>4

\* A step that lists nothing new.
LEMMA NothingListed ==
    ASSUME \A t \in Tasks : todo'[t] \subseteq todo[t]
    PROVE  ListsGo
BY DEF ListsGo

\* With no task moving, all stay where they are.
LEMMA StillGoes ==
    ASSUME UNCHANGED <<pc, job>>
    PROVE  TasksGo
BY DEF TasksGo

\* A task needs grounds for the label it moves to.
LEMMA MoveGoes ==
    ASSUME TypeOK, NEW t \in Tasks, NEW l \in Labels, NEW j \in Jobs,
           pc' = [pc EXCEPT ![t] = l], job' = [job EXCEPT ![t] = j], Grounded(t, l, j)'
    PROVE  TasksGo
<1>1. \A u \in Tasks \ {t} : pc'[u] = pc[u] /\ job'[u] = job[u]
  BY DEF TypeOK, ProcessOK, TasksOK
<1>2. pc'[t] = l /\ job'[t] = j
  BY DEF TypeOK, ProcessOK, TasksOK
<1> QED BY <1>1, <1>2 DEF TasksGo

\* The grounds a task has for its step hold after it.
LEMMA HeldGrounds ==
    ASSUME TypeOK, TypeOK', WellGrounded, Grows, NEW t \in Tasks
    PROVE  \E l \in Labels, j \in Jobs : l = pc[t] /\ j = job[t] /\ Grounded(t, l, j)'
<1>1. PICK l \in Labels, j \in Jobs : l = pc[t] /\ j = job[t]
  BY DEF TypeOK, ProcessOK, TasksOK
<1>2. Grounded(t, l, j) /\ (l \in NoteLabels => j.note \in Notes)
  BY <1>1, JobTyped DEF WellGrounded, TypeOK, ProcessOK
<1>3. Grounded(t, l, j)'
  BY <1>2, GroundsStay
<1> QED BY <1>1, <1>3

\* An idle task needs no grounds.
LEMMA IdleGrounded ==
    ASSUME NEW t, NEW j, j.ret = "idle"
    PROVE  Grounded(t, "idle", j) /\ Grounded(t, "idle", j)'
BY DEF Grounded, Settling, Refunding, NoteLabels, Applying, Decided, PayoutOut

\* An error ends a task.
LEMMA AbortGoes ==
    ASSUME TypeOK, NEW t \in Tasks, Abort(t)
    PROVE  TasksGo /\ ListsGo
<1>1. NoJob \in Jobs /\ NoJob.ret = "idle" /\ "idle" \in Labels
  BY NoJobTyped DEF NoJob, Labels
<1>2. TasksGo
  BY <1>1, IdleGrounded, MoveGoes DEF Abort
<1>3. \A u \in Tasks : todo'[u] \subseteq todo[u]
  BY DEF Abort, TypeOK, ProcessOK
<1> QED BY <1>2, <1>3, NothingListed

\* Going on with a quote at l needs the grounds for l and for nothing else.
LEMMA ContinueGoes ==
    ASSUME TypeOK, NEW t \in Tasks, NEW q \in Quotes, NEW l \in Returns \cup {"payout", "verify"},
           Continue(t, q, l),
           l # "idle" => Funded(q)',
           l \in Settling => Serves(t, q),
           l \in Settling \ {"settle"} => Initiated \in keys'[q],
           l \in NoteLabels => t = "poller" /\ Origin[q] = "miden" /\ PaysTo[job[t].note] = q
    PROVE  TasksGo
<1>1. l \in Labels
  BY DEF Returns, Labels, NoteLabels
<1>2. CASE l = "idle"
  <2>1. NoJob \in Jobs /\ NoJob.ret = "idle"
    BY NoJobTyped DEF NoJob
  <2>2. pc' = [pc EXCEPT ![t] = l] /\ job' = [job EXCEPT ![t] = NoJob]
    BY <1>2 DEF Continue
  <2> QED BY <1>1, <1>2, <2>1, <2>2, IdleGrounded, MoveGoes
<1>3. CASE l # "idle"
  <2>1. PICK j \in Jobs : j = Fresh(t, q)
    BY FreshTyped DEF TypeOK, ProcessOK
  <2>2. j.q = q /\ j.ret = "idle" /\ j.note = job[t].note
    BY <2>1 DEF Fresh, NoJob
  <2>3. l \notin PayoutOut \cup Applying \cup {"reason", "record", "consumeSubmit", "consumeAppend"}
    BY DEF Returns, PayoutOut, Applying, Decided
  <2>4. Serves(t, q)' = Serves(t, q)
    BY DEF Serves
  <2>5. l \in Settling \/ l \in NoteLabels
    BY <1>3 DEF Returns, Settling, NoteLabels
  <2>6. Grounded(t, l, j)'
    BY <1>3, <2>2, <2>3, <2>4, <2>5 DEF Grounded, NoteLabels
  <2>7. pc' = [pc EXCEPT ![t] = l] /\ job' = [job EXCEPT ![t] = j]
    BY <1>3, <2>1 DEF Continue
  <2> QED BY <1>1, <2>6, <2>7, MoveGoes
<1> QED BY <1>2, <1>3

\* A task carries the grounds for its return along.
LEMMA ReturnGoes ==
    ASSUME TypeOK, TypeOK', WellGrounded, Grows, NEW t \in Tasks, Return(t)
    PROVE  TasksGo
<1>1. PICK l \in Labels, j \in Jobs : l = pc[t] /\ j = job[t] /\ Grounded(t, l, j)'
  BY HeldGrounds
<1>2. j.ret \in Returns /\ j.q \in Quotes /\ Continue(t, j.q, j.ret)
  BY <1>1 DEF Jobs, Return
<1>3. j.ret # "idle" => Funded(j.q)' /\ Serves(t, j.q)
  BY <1>1 DEF Grounded, Serves
<1>4. j.ret \in Settling \ {"settle"} => Initiated \in keys'[j.q]
  BY <1>1, <1>2 DEF Grounded, Returns, Settling
<1>5. j.ret \in NoteLabels => t = "poller" /\ Origin[j.q] = "miden" /\ PaysTo[job[t].note] = j.q
  BY <1>1 DEF Grounded
<1>6. j.ret \in Settling => j.ret # "idle"
  BY DEF Settling
<1> QED BY <1>2, <1>3, <1>4, <1>5, <1>6, ContinueGoes

\* A call of apply needs grounds for its event, and for what follows its Ok.
LEMMA CallApplyGoes ==
    ASSUME TypeOK, TypeOK', WellGrounded, NEW t \in Tasks, NEW q \in Quotes,
           NEW ev \in Events, NEW ret \in Returns, CallApply(t, q, ev, ret),
           UNCHANGED <<rows, chains>>,
           Stands(q, ev)',
           ret # "idle" => Funded(q) /\ Serves(t, q),
           ev.kind \in SettleKinds => Serves(t, q),
           ret = "reload" => ev = Initiated,
           ret \in NoteLabels => t = "poller" /\ Origin[q] = "miden" /\ PaysTo[job[t].note] = q
    PROVE  Grows /\ RowsGo /\ KeysGo /\ TasksGo
<1>1. KeysGo /\ \A p \in Quotes : keys[p] \subseteq keys'[p]
  <2>1. keys' = keys \/ BurnKey(q, ev)
    BY DEF CallApply
  <2> QED BY <2>1, NoKeyBurned, KeyBurned
<1>2. Grows /\ RowsGo
  BY <1>1, Untouched
<1>3. ret # "idle" => Funded(q)'
  BY <1>2, FundedStays
<1>4. ev \in keys'[q]
  BY DEF CallApply, BurnKey, TypeOK, StoreOK
<1>5. TasksGo
  <2>1. CASE ev \in keys[q]
    <3>1. Continue(t, q, ret)
      BY <2>1 DEF CallApply
    <3>2. /\ ret \in Settling \ {"settle"} => Initiated \in keys'[q]
          /\ ret \in Settling => Serves(t, q)
      BY <1>4 DEF Returns, Settling
    <3> QED BY <1>3, <3>1, <3>2, ContinueGoes
  <2>2. CASE ev \notin keys[q]
    <3>1. PICK j \in Jobs : j = [Fresh(t, q) EXCEPT !.ev = ev, !.ret = ret]
      <4>1. Fresh(t, q) \in Jobs
        BY FreshTyped DEF TypeOK, ProcessOK
      <4>2. [Fresh(t, q) EXCEPT !.ev = ev, !.ret = ret] \in Jobs
        BY <4>1 DEF Jobs
      <4> QED BY <4>2
    <3>2. j.q = q /\ j.ret = ret /\ j.ev = ev /\ j.note = job[t].note
      BY <3>1 DEF Fresh, NoJob
    <3>3. Serves(t, q)' = Serves(t, q)
      BY DEF Serves
    <3>4. Grounded(t, "decide", j)'
      BY <1>3, <1>4, <3>2, <3>3
         DEF Grounded, Settling, Refunding, NoteLabels, PayoutOut, Applying, Decided
    <3>5. pc' = [pc EXCEPT ![t] = "decide"] /\ job' = [job EXCEPT ![t] = j]
      BY <2>2, <3>1 DEF CallApply
    <3> QED BY <3>4, <3>5, MoveGoes DEF Labels
  <2> QED BY <2>1, <2>2
<1> QED BY <1>1, <1>2, <1>5

-----------------------------------------------------------------------------
(***************************************************************************)
(* Lifecycle::apply.                                                          *)
(***************************************************************************)

\* What a step may rely on.
LEMMA OwnersKnown ==
    ASSUME OneOwnerPerEvent
    PROVE  /\ TypeOK /\ Opened /\ Burned /\ Carried /\ Justified
           /\ \A t \in Tasks : job[t] \in Jobs /\ job[t].q \in Quotes /\ job[t].ev \in Events
                               /\ job[t].ret \in Returns /\ job[t].id \in Nat
BY JobTyped DEF OneOwnerPerEvent, TypeOK, ProcessOK

\* Only its own event moves a quote to PROCESSING, and to SUCCESS.
LEMMA StatusReached ==
    ASSUME NEW kind, NEW from, NEW short
    PROVE  /\ TargetStatus(kind, from, short) = "PROCESSING" => kind = "SETTLEMENT_INITIATED"
           /\ TargetStatus(kind, from, short) = "SUCCESS" => kind = "SETTLEMENT_SUCCEEDED"
BY DEF TargetStatus, DeadlineTarget, NoTarget

\* A sequence contains what is in its range.
LEMMA ContainsRange ==
    ASSUME NEW S, NEW s \in Seq(S), NEW e
    PROVE  Contains(s, e) <=> e \in Range(s)
<1>1. DOMAIN s = 1..Len(s)
  BY LenProperties
<1> QED BY <1>1 DEF Contains, Range

\* A task that has loaded the quote goes on towards the row of its event.
LEMMA AcceptAdvances ==
    ASSUME OneOwnerPerEvent, TypeOK', WellGrounded, NEW t \in Tasks, ApplyAccepted(t)
    PROVE  Advances
<1>0. TypeOK /\ Justified
  BY OwnersKnown
<1>1. UNCHANGED <<rows, chains, keys, todo>>
  BY DEF ApplyAccepted, Decide, store
<1>2. Grows /\ RowsGo /\ KeysGo /\ ListsGo
  BY <1>1, NoKeyBurned, Untouched, NothingListed
<1>3. PICK l \in Labels, j \in Jobs : l = pc[t] /\ j = job[t] /\ Grounded(t, l, j)'
  BY <1>0, <1>2, HeldGrounds
<1>4. l = "decide" /\ Target(t) \in Statuses /\ status[j.q] \in Statuses \cup {"NONE"}
  BY <1>0, <1>3, TargetOfTaskTyped DEF ApplyAccepted, Decide, Jobs, TypeOK, StoreOK
<1>5. PICK k \in Jobs : k = [j EXCEPT !.from = status[j.q], !.to = Target(t)]
  BY <1>4 DEF Jobs
<1>6. k.q = j.q /\ k.ret = j.ret /\ k.ev = j.ev /\ k.note = j.note /\ k.id = j.id
  BY <1>5 DEF Jobs
<1>7. PICK m \in {"reason", "append", "record"} : pc'[t] = m
  BY <1>0 DEF ApplyAccepted, Decide, TypeOK, ProcessOK, TasksOK
<1>8. pc' = [pc EXCEPT ![t] = m]
  BY <1>0, <1>7 DEF ApplyAccepted, Decide, TypeOK, ProcessOK, TasksOK
<1>9. m = "reason" => j.ev.kind = "DEADLINE_EXPIRED"
  BY <1>0, <1>3, <1>7 DEF ApplyAccepted, Decide, TypeOK, ProcessOK, TasksOK
<1>10. m = "record" /\ j.ev.kind = "SETTLEMENT_SUCCEEDED" => j.ev.datum \in Range(payoutIds[j.q])
  <2>1. m = "record" /\ j.ev.kind = "SETTLEMENT_SUCCEEDED" => Contains(payoutIds[j.q], j.ev.datum)
    BY <1>0, <1>3, <1>7
       DEF ApplyAccepted, Decide, AddsPayoutId, TypeOK, ProcessOK, TasksOK
  <2>2. payoutIds[j.q] \in Seq(Nat)
    BY <1>0 DEF TypeOK, StoreOK, Jobs
  <2> QED BY <2>1, <2>2, ContainsRange
<1>11. payoutIds' = payoutIds
  BY <1>1 DEF rows
<1>12. Grounded(t, m, k)'
  BY <1>3, <1>4, <1>6, <1>9, <1>10, <1>11
     DEF Grounded, Settling, Refunding, NoteLabels, PayoutOut, Applying, Decided, Serves
<1>13. job' = [job EXCEPT ![t] = k]
  BY <1>3, <1>5 DEF ApplyAccepted, Decide
<1>14. TasksGo
  BY <1>0, <1>8, <1>12, <1>13, MoveGoes DEF Labels
<1> QED BY <1>2, <1>14 DEF Advances

\* The reason of a deadline row changes no grounds.
LEMMA ReasonAdvances ==
    ASSUME OneOwnerPerEvent, TypeOK', WellGrounded, NEW t \in Tasks, ApplyReason(t)
    PROVE  Advances
<1>0. TypeOK
  BY OwnersKnown
<1>1. UNCHANGED <<rows, chains, keys, todo>>
  BY DEF ApplyReason, store
<1>2. Grows /\ RowsGo /\ KeysGo /\ ListsGo
  BY <1>1, NoKeyBurned, Untouched, NothingListed
<1>3. PICK l \in Labels, j \in Jobs : l = pc[t] /\ j = job[t] /\ Grounded(t, l, j)'
  BY <1>0, <1>2, HeldGrounds
<1>4. PICK r \in Reasons : job' = [job EXCEPT ![t].reason = r]
  BY DEF ApplyReason, Reasons
<1>5. PICK k \in Jobs : k = [j EXCEPT !.reason = r]
  BY DEF Jobs
<1>6. k.q = j.q /\ k.ret = j.ret /\ k.ev = j.ev /\ k.note = j.note /\ k.id = j.id
  BY <1>5 DEF Jobs
<1>7. l = "reason" /\ pc' = [pc EXCEPT ![t] = "record"] /\ job' = [job EXCEPT ![t] = k]
  BY <1>3, <1>4, <1>5 DEF ApplyReason
<1>8. Grounded(t, "record", k)'
  BY <1>3, <1>6, <1>7
     DEF Grounded, Settling, Refunding, NoteLabels, PayoutOut, Applying, Decided, Serves
<1>9. TasksGo
  BY <1>0, <1>7, <1>8, MoveGoes DEF Labels
<1> QED BY <1>2, <1>9 DEF Advances

\* The payout id of a Succeeded event a task carries is the place of a payout.
LEMMA CarriedStands ==
    ASSUME OneOwnerPerEvent, WellGrounded, NEW t \in Tasks, pc[t] \in Holding
    PROVE  job[t].ev \in keys[job[t].q] /\ Stands(job[t].q, job[t].ev)
BY OwnersKnown DEF Carried, WellGrounded

\* Appending to a payout list keeps the others.
LEMMA PayoutIdAdded ==
    ASSUME TypeOK, NEW q \in Quotes, NEW id \in Nat,
           payoutIds' = [payoutIds EXCEPT ![q] = Append(@, id)]
    PROVE  /\ Range(payoutIds'[q]) = Range(payoutIds[q]) \cup {id}
           /\ payoutIds'[q] # <<>>
           /\ \A p \in Quotes \ {q} : payoutIds'[p] = payoutIds[p]
<1>1. payoutIds[q] \in Seq(Nat) /\ payoutIds'[q] = Append(payoutIds[q], id)
  BY DEF TypeOK, StoreOK
<1>2. \A p \in Quotes \ {q} : payoutIds'[p] = payoutIds[p]
  BY DEF TypeOK, StoreOK
<1> QED BY <1>1, <1>2, AppendedRange

\* append_tx_hash for an event adds a hash to the end, or a payout that was sent.
LEMMA AppendAdvances ==
    ASSUME OneOwnerPerEvent, TypeOK', WellGrounded, NEW t \in Tasks, ApplyAppend(t)
    PROVE  Advances
<1> DEFINE q == job[t].q
           ev == job[t].ev
<1>0. /\ TypeOK /\ Justified /\ q \in Quotes /\ ev \in Events
      /\ pc[t] = "append" /\ Goto(t, "record")
      /\ UNCHANGED <<status, log, keys, consumeIds, refundIds, chains>>
  BY OwnersKnown DEF ApplyAppend
<1>1. KeysGo /\ ListsGo
  BY <1>0, NoKeyBurned, NothingListed DEF Goto
<1>2. Grows /\ RowsGo /\ (ev.kind = "SETTLEMENT_SUCCEEDED" => ev.datum \in Range(payoutIds'[q]))
  <2>1. CASE ev.kind = "EVM_DEPOSIT_DETECTED"
    <3>1. payoutIds' = payoutIds /\ depositTxs' = [depositTxs EXCEPT ![q] = Append(@, ev.datum)]
      BY <2>1 DEF ApplyAppend
    <3>2. ev.datum \in Txs
      BY <1>0, <2>1 DEF Events, SettlementKinds
    <3>3. depositTxs[q] \in Seq(Txs) /\ depositTxs'[q] = Append(depositTxs[q], ev.datum)
      BY <1>0, <3>1 DEF TypeOK, StoreOK
    <3>4. \A p \in Quotes \ {q} : depositTxs'[p] = depositTxs[p]
      BY <1>0, <3>1 DEF TypeOK, StoreOK
    <3>5. \A p \in Quotes : depositTxs[p] # <<>> =>
             depositTxs'[p] # <<>> /\ depositTxs'[p][1] = depositTxs[p][1]
      <4> HIDE DEF q, ev
      <4> QED BY <3>2, <3>3, <3>4, AppendedRange
    <3>6. Grows
      BY <1>0, <3>1, <3>5 DEF Grows, HasHash, chains
    <3>7. RowsGo
      BY <1>0, <3>1 DEF RowsGo, PaidFor, chains
    <3> QED BY <2>1, <3>6, <3>7
  <2>2. CASE ev.kind # "EVM_DEPOSIT_DETECTED"
    <3>1. depositTxs' = depositTxs /\ payoutIds' = [payoutIds EXCEPT ![q] = Append(@, ev.datum)]
      BY <2>2 DEF ApplyAppend
    <3>2. ev.kind = "SETTLEMENT_SUCCEEDED"
      BY <1>0, <2>2 DEF Justified
    <3>3. ev.datum \in Nat /\ ev.datum \in 1..Len(payouts[q])
      <4>1. Stands(q, ev)
        BY <1>0, CarriedStands DEF Holding, Applying, Decided
      <4>2. ev.datum \in 1..Len(payouts[q])
        BY <3>2, <4>1 DEF Stands
      <4> QED BY <4>2
    <3>4. /\ Range(payoutIds'[q]) = Range(payoutIds[q]) \cup {ev.datum}
          /\ \A p \in Quotes \ {q} : payoutIds'[p] = payoutIds[p]
      <4> HIDE DEF q, ev
      <4> QED BY <1>0, <3>1, <3>3, PayoutIdAdded
    <3>5. Grows
      <4> HIDE DEF q, ev
      <4> QED BY <1>0, <3>1, <3>4 DEF Grows, HasHash, chains
    <3>6. RowsGo
      <4> HIDE DEF q, ev
      <4> QED BY <1>0, <3>3, <3>4 DEF RowsGo, PaidFor, chains
    <3> QED BY <3>4, <3>5, <3>6
  <2> QED BY <2>1, <2>2
<1>3. PICK l \in Labels, j \in Jobs : l = pc[t] /\ j = job[t] /\ Grounded(t, l, j)'
  BY <1>0, <1>2, HeldGrounds
<1>4. Grounded(t, "record", j)'
  BY <1>0, <1>2, <1>3
     DEF Grounded, Settling, Refunding, NoteLabels, PayoutOut, Applying, Decided, Serves
<1>5. pc' = [pc EXCEPT ![t] = "record"] /\ job' = [job EXCEPT ![t] = j]
  BY <1>0, <1>3 DEF Goto, TypeOK, ProcessOK, TasksOK
<1>6. TasksGo
  BY <1>0, <1>4, <1>5, MoveGoes DEF Labels
<1> QED BY <1>1, <1>2, <1>6 DEF Advances

\* The row a task decided on has the status its event leads to.
LEMMA RecordAdvances ==
    ASSUME OneOwnerPerEvent, TypeOK', WellGrounded, NEW t \in Tasks, ApplyRecord(t)
    PROVE  Advances
<1>0. /\ TypeOK /\ Justified /\ pc[t] = "record"
      /\ UNCHANGED <<keys, depositTxs, consumeIds, payoutIds, refundIds, chains>>
  BY OwnersKnown DEF ApplyRecord
<1>1. PICK l \in Labels, j \in Jobs : l = pc[t] /\ j = job[t] /\ Grounded(t, l, j)
  BY <1>0 DEF TypeOK, ProcessOK, TasksOK, WellGrounded
<1>2. PICK row \in Entries : row = Entry(j.ev, j.from, j.to, j.reason)
  BY <1>1, RecordShape, <1>0
<1>3. /\ row.ev = j.ev /\ row.to = j.to /\ j.q \in Quotes
      /\ log' = [log EXCEPT ![j.q] = Append(@, row)] /\ status' = [status EXCEPT ![j.q] = row.to]
  BY <1>1, <1>2 DEF ApplyRecord, RecordEvent, Entry, Jobs
<1>4. j.ev \in keys[j.q] /\ Stands(j.q, j.ev)
  BY <1>0, <1>1, CarriedStands DEF Holding, Applying, Decided
<1>5. /\ row.to = "PROCESSING" => Initiated \in keys[j.q]
      /\ row.to = "SUCCESS" => j.ev.kind = "SETTLEMENT_SUCCEEDED"
  <2>1. PICK short \in BOOLEAN : j.to = TargetStatus(j.ev.kind, j.from, short)
    BY <1>0, <1>1 DEF Justified, Decided
  <2> QED BY <1>3, <1>4, <2>1, StatusReached DEF Stands
<1>6. row.to = "SUCCESS" => j.ev.datum \in Range(payoutIds[j.q])
  BY <1>0, <1>1, <1>5 DEF Grounded
<1>7. Grows /\ KeysGo
  BY <1>0, NoKeyBurned DEF Grows, HasHash, chains
<1>8. RowsGo
  <2>1. ASSUME NEW p \in Quotes
        PROVE  /\ status'[p] = "PROCESSING" => status[p] = "PROCESSING" \/ Initiated \in keys[p]
               /\ \/ log'[p] = log[p]
                  \/ /\ log'[p] = Append(log[p], row)
                     /\ row.to = "SUCCESS" => /\ row.ev.kind = "SETTLEMENT_SUCCEEDED"
                                              /\ row.ev.datum \in Range(payoutIds[p])
    <3>1. CASE p = j.q
      <4>1. log'[p] = Append(log[p], row) /\ status'[p] = row.to
        BY <1>0, <1>3, <3>1 DEF TypeOK, StoreOK
      <4> QED BY <1>3, <1>5, <1>6, <3>1, <4>1
    <3>2. CASE p # j.q
      BY <1>0, <1>3, <3>2 DEF TypeOK, StoreOK
    <3> QED BY <3>1, <3>2
  <2> QED BY <1>0, <2>1 DEF RowsGo, PaidFor, chains
<1>9. TasksGo /\ todo' = todo
  <2>1. Grounded(t, l, j)'
    BY <1>0, <1>1, <1>7, GroundsStay DEF NoteLabels
  <2>2. CASE Return(t)
    BY <1>0, <1>7, <2>2, ReturnGoes DEF Return
  <2>3. CASE OwesRefund(j.ev.kind, j.to)
    <3>1. Goto(t, "refundSend")
      BY <1>1, <2>3 DEF ApplyRecord, OwesRefund, Confirmations
    <3>2. Funded(j.q)'
      BY <1>3, <1>4, <1>7, <2>3, FundedStays
         DEF Stands, OwesRefund, FundedKinds, SettleKinds
    <3>3. Grounded(t, "refundSend", j)'
      BY <1>0, <1>1, <2>1, <3>2
         DEF Grounded, Settling, Refunding, NoteLabels, PayoutOut, Applying, Decided, Serves
    <3>4. pc' = [pc EXCEPT ![t] = "refundSend"] /\ job' = [job EXCEPT ![t] = j]
      BY <1>0, <1>1, <3>1 DEF Goto, TypeOK, ProcessOK, TasksOK
    <3> QED BY <1>0, <3>1, <3>3, <3>4, MoveGoes DEF Labels, Goto
  <2>4. CASE Goto(t, "refundCheck")
    <3>1. Grounded(t, "refundCheck", j)'
      BY <1>0, <1>1, <2>1
         DEF Grounded, Settling, Refunding, NoteLabels, PayoutOut, Applying, Decided, Serves
    <3>2. pc' = [pc EXCEPT ![t] = "refundCheck"] /\ job' = [job EXCEPT ![t] = j]
      BY <1>0, <1>1, <2>4 DEF Goto, TypeOK, ProcessOK, TasksOK
    <3> QED BY <1>0, <2>4, <3>1, <3>2, MoveGoes DEF Labels, Goto
  <2> QED BY <1>1, <2>2, <2>3, <2>4 DEF ApplyRecord
<1>10. ListsGo
  BY <1>9, NothingListed
<1> QED BY <1>7, <1>8, <1>9, <1>10 DEF Advances

\* Every step of apply has its grounds.
LEMMA ApplyAdvances ==
    ASSUME OneOwnerPerEvent, TypeOK', WellGrounded, NEW t \in Tasks, Apply(t)
    PROVE  Advances
<1>0. TypeOK
  BY OwnersKnown
<1>1. CASE ApplyIgnored(t) \/ RefundNotOwed(t)
  <2>1. UNCHANGED <<rows, chains, keys, todo>> /\ Return(t)
    BY <1>1 DEF ApplyIgnored, RefundNotOwed, Return, store
  <2>2. Grows /\ RowsGo /\ KeysGo /\ ListsGo
    BY <2>1, NoKeyBurned, Untouched, NothingListed
  <2> QED BY <1>0, <2>1, <2>2, ReturnGoes DEF Advances
<1>2. CASE ApplyRejected(t)
  <2>1. UNCHANGED <<rows, chains, keys>> /\ Abort(t)
    BY <1>2 DEF ApplyRejected, store
  <2> QED BY <1>0, <2>1, NoKeyBurned, Untouched, AbortGoes DEF Advances
<1> QED BY <1>1, <1>2, AcceptAdvances, ReasonAdvances, AppendAdvances, RecordAdvances DEF Apply

-----------------------------------------------------------------------------
(***************************************************************************)
(* Refunds, on either chain.                                                  *)
(***************************************************************************)

\* A confirmation in the log burned its key, so the deposit is there.
LEMMA ConfirmedFunded ==
    ASSUME OneOwnerPerEvent, WellGrounded, NEW q \in Quotes, HasConfirmed(q)
    PROVE  Funded(q)
<1>1. PICK i \in 1..Len(log[q]) : log[q][i].ev.kind \in Confirmations
  BY DEF HasConfirmed, ConfirmedEntries
<1> DEFINE ev == log[q][i].ev
<1>2. ev \in Recorded(q)
  BY DEF Recorded, Journal!Recorded
<1>3. ev # QuoteCreated
  BY <1>1 DEF QuoteCreated, Event, Confirmations
<1>4. ev \in keys[q]
  BY <1>2, <1>3, OwnersKnown DEF Burned
<1>5. Stands(q, ev)
  BY <1>4 DEF WellGrounded
<1> QED BY <1>1, <1>5 DEF Stands, FundedKinds

\* A task that is to refund a quote now has its deposit.
LEMMA RefundFunded ==
    ASSUME OneOwnerPerEvent, WellGrounded, NEW t \in Tasks, RefundsNow(t, job[t].q)
    PROVE  Funded(job[t].q)
<1>1. job[t].q \in Quotes
  BY OwnersKnown
<1>2. CASE pc[t] = "refundSend"
  BY <1>2 DEF WellGrounded, Grounded, Refunding
<1>3. CASE HasConfirmed(job[t].q)
  BY <1>1, <1>3, ConfirmedFunded
<1> QED BY <1>2, <1>3 DEF RefundsNow

\* A payment for a quote whose deposit is there touches no rows.
LEMMA SendRows ==
    ASSUME TypeOK, UNCHANGED <<rows, keys, landed, consumes>>, NEW q \in Quotes, Funded(q),
           \A p \in Quotes \ {q} : payouts'[p] = payouts[p] /\ refunds'[p] = refunds[p],
           \A p \in Quotes : Len(payouts[p]) <= Len(payouts'[p])
    PROVE  Grows /\ RowsGo /\ KeysGo
<1>1. Grows
  BY DEF Grows, rows, HasHash
<1>2. \A p \in Quotes : PaidFor(p)' => PaidFor(p) \/ Funded(p)
  BY DEF PaidFor
<1>3. RowsGo
  BY <1>2 DEF RowsGo, rows
<1>4. KeysGo
  BY NoKeyBurned
<1> QED BY <1>1, <1>3, <1>4

\* A task that goes on with what it carries needs grounds for its next label only.
LEMMA GoesOn ==
    ASSUME TypeOK, TypeOK', WellGrounded, Grows, NEW t \in Tasks,
           NEW l \in Labels \ Applying, NEW j \in Jobs,
           pc' = [pc EXCEPT ![t] = l], job' = [job EXCEPT ![t] = j],
           j.q = job[t].q, j.ret = job[t].ret, j.note = job[t].note,
           l \in Settling \cup Refunding \cup NoteLabels => Funded(j.q),
           l \in Settling => Serves(t, j.q) /\ (l # "settle" => Initiated \in keys[j.q]),
           l \in PayoutOut => j.id \in 1..Len(payouts'[j.q]),
           l \in NoteLabels => t = "poller" /\ Origin[j.q] = "miden" /\ PaysTo[j.note] = j.q,
           l \in {"consumeSubmit", "consumeAppend"} => ConsumeKey(j.note) \in keys'[j.q],
           l = "consumeAppend" => consumes'[j.note] # "none"
    PROVE  TasksGo
<1>1. PICK m \in Labels, k \in Jobs : m = pc[t] /\ k = job[t] /\ Grounded(t, m, k)'
  BY HeldGrounds
<1>2. j.q \in Quotes /\ (Funded(j.q) => Funded(j.q)')
  BY FundedStays DEF Jobs
<1>3. Initiated \in keys[j.q] => Initiated \in keys'[j.q]
  BY <1>2 DEF Grows
<1>4. l # "reason" /\ l # "record" /\ l \notin Applying
  BY DEF Applying, Decided
<1>5. Serves(t, j.q)' = Serves(t, j.q)
  BY DEF Serves
<1>6. Grounded(t, l, j)'
  BY <1>1, <1>2, <1>3, <1>4, <1>5 DEF Grounded
<1> QED BY <1>6, MoveGoes

\* What a task at a label holds.
LEMMA StandingAt ==
    ASSUME WellGrounded, NEW t \in Tasks
    PROVE  /\ pc[t] \in Settling \cup Refunding \cup NoteLabels => Funded(job[t].q)
           /\ pc[t] \in Settling => Serves(t, job[t].q)
           /\ pc[t] \in Settling \ {"settle"} => Initiated \in keys[job[t].q]
           /\ pc[t] \in PayoutOut => job[t].id \in 1..Len(payouts[job[t].q])
           /\ pc[t] \in NoteLabels => /\ t = "poller" /\ Origin[job[t].q] = "miden"
                                      /\ PaysTo[job[t].note] = job[t].q
           /\ pc[t] \in {"consumeSubmit", "consumeAppend"}
                => ConsumeKey(job[t].note) \in keys[job[t].q]
           /\ pc[t] = "consumeAppend" => consumes[job[t].note] # "none"
BY DEF WellGrounded, Grounded

\* The same for a jump.
LEMMA GotoGoes ==
    ASSUME TypeOK, TypeOK', WellGrounded, Grows, NEW t \in Tasks, NEW l \in Labels \ Applying,
           Goto(t, l),
           l \in Settling \cup Refunding \cup NoteLabels => Funded(job[t].q),
           l \in Settling => Serves(t, job[t].q) /\ (l # "settle" => Initiated \in keys[job[t].q]),
           l \in PayoutOut => job[t].id \in 1..Len(payouts'[job[t].q]),
           l \in NoteLabels => /\ t = "poller" /\ Origin[job[t].q] = "miden"
                               /\ PaysTo[job[t].note] = job[t].q,
           l \in {"consumeSubmit", "consumeAppend"} => ConsumeKey(job[t].note) \in keys'[job[t].q],
           l = "consumeAppend" => consumes'[job[t].note] # "none"
    PROVE  TasksGo /\ ListsGo
<1>1. PICK j \in Jobs : j = job[t]
  BY JobTyped DEF TypeOK, ProcessOK
<1>2. pc' = [pc EXCEPT ![t] = l] /\ job' = [job EXCEPT ![t] = j]
  BY <1>1 DEF Goto, TypeOK, ProcessOK, TasksOK
<1>3. TasksGo
  BY <1>1, <1>2, GoesOn
<1>4. ListsGo
  BY NothingListed DEF Goto
<1> QED BY <1>3, <1>4

\* The key of a payout helper stands for nothing.
LEMMA PlainKey ==
    ASSUME NEW q, NEW n
    PROVE  /\ Stands(q, MintKey)' /\ Stands(q, NoteRefundKey)'
           /\ Stands(q, RefundKey(n))' /\ Stands(q, ReleaseKey(n))' /\ Stands(q, ConsumeKey(n))'
BY DEF Stands, FundedKinds, SettleKinds, Confirmations, MintKey, NoteRefundKey, RefundKey,
       ReleaseKey, ConsumeKey, Event

\* The ids of refunds are no grounds for anything.
LEMMA RefundIdsOnly ==
    ASSUME UNCHANGED <<status, log, depositTxs, consumeIds, payoutIds, chains>>,
           \A q \in Quotes : keys[q] \subseteq keys'[q]
    PROVE  Grows /\ RowsGo
<1>1. Grows
  BY DEF Grows, chains, HasHash
<1>2. RowsGo
  BY DEF RowsGo, chains, PaidFor
<1> QED BY <1>1, <1>2

\* The labels of a refund.
LEMMA RefundLabels ==
    /\ Refunding \subseteq Labels \ Applying
    /\ \A l \in Refunding :
         /\ l \notin Settling \cup PayoutOut \cup NoteLabels
         /\ l \notin {"consumeSubmit", "consumeAppend"}
BY DEF Refunding, Labels, Applying, Decided, Settling, PayoutOut, NoteLabels

\* A task sends the refund of a deposit that is there.
LEMMA SendRefundAdvances ==
    ASSUME OneOwnerPerEvent, TypeOK', WellGrounded, NEW t \in Tasks, Funded(job[t].q),
           NEW amount, SendRefund(t, amount), UNCHANGED <<store, landed, consumes, payouts, todo>>,
           NEW l \in Refunding, pc' = [pc EXCEPT ![t] = l],
           job' = [job EXCEPT ![t].id = Len(refunds[job[t].q]) + 1]
    PROVE  Advances
<1> DEFINE q == job[t].q
<1>0. TypeOK /\ q \in Quotes /\ refunds[q] \in Seq([cause : Events, amount : Nat])
  BY OwnersKnown DEF TypeOK, ChainsOK
<1>1. \A p \in Quotes \ {q} : refunds'[p] = refunds[p]
  BY <1>0 DEF SendRefund, TypeOK, ChainsOK
<1>2. Grows /\ RowsGo /\ KeysGo
  <2>1. UNCHANGED <<rows, keys, landed, consumes>>
    BY DEF store
  <2>2. \A p \in Quotes : Len(payouts[p]) <= Len(payouts'[p])
    BY <1>0, LenProperties DEF TypeOK, ChainsOK
  <2> QED BY <1>0, <1>1, <2>1, <2>2, SendRows
<1>3. Len(refunds[q]) + 1 \in Nat
  BY <1>0, LenProperties
<1>4. PICK j \in Jobs : j = [job[t] EXCEPT !.id = Len(refunds[q]) + 1]
  BY <1>3, OwnersKnown DEF Jobs
<1>5. j.q = q /\ j.ret = job[t].ret /\ j.note = job[t].note
  BY <1>4, OwnersKnown DEF Jobs
<1>6. job' = [job EXCEPT ![t] = j]
  BY <1>4
<1>7. TasksGo
  <2>1. Funded(j.q) /\ j.q = job[t].q
    BY <1>5
  <2>2. TypeOK /\ Grows
    BY <1>0, <1>2
  <2>3. l \in Labels \ Applying /\ l \notin Settling \cup PayoutOut \cup NoteLabels
    BY RefundLabels
  <2>4. l \notin {"consumeSubmit", "consumeAppend"}
    BY RefundLabels
  <2> QED BY <1>5, <1>6, <2>1, <2>2, <2>3, <2>4, GoesOn
<1>8. ListsGo
  BY NothingListed
<1> QED BY <1>2, <1>7, <1>8 DEF Advances

\* The refund on the EVM chain has its grounds.
LEMMA RefundAdvances ==
    ASSUME OneOwnerPerEvent, TypeOK', WellGrounded, NEW t \in Tasks, Refund(t)
    PROVE  Advances
<1> DEFINE q == job[t].q
<1>0. TypeOK /\ q \in Quotes
  BY OwnersKnown
<1>1. CASE RefundSend(t)
  <2>1. Funded(q)
    BY <1>1, RefundFunded DEF RefundSend
  <2> QED BY <1>1, <2>1, SendRefundAdvances DEF RefundSend, Refunding
<1>2. CASE RefundAppend(t)
  <2>1. KeysGo /\ \A p \in Quotes : keys[p] \subseteq keys'[p]
    BY <1>0, <1>2, PlainKey, KeyBurned DEF RefundAppend
  <2>2. Grows /\ RowsGo
    BY <1>2, <2>1, RefundIdsOnly DEF RefundAppend
  <2>3. Funded(q)
    BY <1>2, StandingAt DEF RefundAppend, Refunding
  <2>4. "refundConfirm" \in Refunding /\ Goto(t, "refundConfirm")
    BY <1>2 DEF RefundAppend, Refunding
  <2>5. TasksGo /\ ListsGo
    BY <1>0, <2>2, <2>3, <2>4, RefundLabels, GotoGoes
  <2> QED BY <2>1, <2>2, <2>5 DEF Advances
<1>3. CASE RefundConfirm(t)
  <2>1. UNCHANGED <<status, log, keys, depositTxs, consumeIds, payoutIds, chains, todo>> /\ Return(t)
    BY <1>3 DEF RefundConfirm, Return
  <2>2. Grows /\ RowsGo /\ KeysGo /\ ListsGo
    BY <2>1, RefundIdsOnly, NoKeyBurned, NothingListed
  <2> QED BY <1>0, <2>1, <2>2, ReturnGoes DEF Advances
<1> QED BY <1>1, <1>2, <1>3 DEF Refund

\* A task whose next refund id is known goes on with it.
LEMMA NoteRefundGoes ==
    ASSUME OneOwnerPerEvent, TypeOK', WellGrounded, NEW t \in Tasks, Grows, Funded(job[t].q),
           NEW id \in Nat, NEW l \in Refunding, pc' = [pc EXCEPT ![t] = l],
           job' = [job EXCEPT ![t].id = id]
    PROVE  TasksGo
<1>1. PICK j \in Jobs : j = [job[t] EXCEPT !.id = id]
  BY OwnersKnown DEF Jobs
<1>2. j.q = job[t].q /\ j.ret = job[t].ret /\ j.note = job[t].note
  BY <1>1, OwnersKnown DEF Jobs
<1>3. job' = [job EXCEPT ![t] = j]
  BY <1>1
<1>4. Funded(j.q) /\ TypeOK
  BY <1>2, OwnersKnown
<1> QED BY <1>2, <1>3, <1>4, RefundLabels, GoesOn

\* The refund on Miden has its grounds.
LEMMA NoteRefundAdvances ==
    ASSUME OneOwnerPerEvent, TypeOK', WellGrounded, NEW t \in Tasks, NoteRefund(t)
    PROVE  Advances
<1> DEFINE q == job[t].q
<1>0. TypeOK /\ q \in Quotes /\ RefundAmount(q) \in Nat /\ refundIds[q] \in Seq(Nat)
  BY OwnersKnown, RefundAmountTyped DEF TypeOK, StoreOK
<1>a. {"refundSubmit", "refundStore", "refundWait"} \subseteq Refunding
  BY DEF Refunding
<1>1. CASE NoteRefundKeyed(t)
  <2>1. KeysGo /\ \A p \in Quotes : keys[p] \subseteq keys'[p]
    BY <1>0, <1>1, PlainKey, KeyBurned DEF NoteRefundKeyed
  <2>2. Grows /\ RowsGo
    BY <1>1, <2>1, Untouched DEF NoteRefundKeyed
  <2>3. Funded(q)
    BY <1>1, RefundFunded DEF NoteRefundKeyed
  <2>4. TasksGo
    BY <1>0, <1>1, <1>a, <2>2, <2>3, NoteRefundGoes DEF NoteRefundKeyed
  <2>5. ListsGo
    BY <1>1, NothingListed DEF NoteRefundKeyed
  <2> QED BY <2>1, <2>2, <2>4, <2>5 DEF Advances
<1>2. CASE NoteRefundPoll(t)
  <2>1. UNCHANGED <<rows, chains, keys, todo>>
    BY <1>2 DEF NoteRefundPoll, store
  <2>2. Grows /\ RowsGo /\ KeysGo /\ ListsGo
    BY <2>1, Untouched, NoKeyBurned, NothingListed
  <2>3. Funded(q)
    BY <1>2, RefundFunded DEF NoteRefundPoll
  <2>4. TasksGo
    <3>1. CASE refundIds[q] = <<>>
      BY <1>0, <1>2, <1>a, <2>2, <2>3, <3>1, NoteRefundGoes DEF NoteRefundPoll
    <3>2. CASE refundIds[q] # <<>>
      <4>1. Last(refundIds[q]) \in Nat
        BY <1>0, <3>2, LastTyped
      <4> QED BY <1>0, <1>2, <1>a, <2>2, <2>3, <3>2, <4>1, NoteRefundGoes DEF NoteRefundPoll
    <3> QED BY <3>1, <3>2
  <2> QED BY <2>2, <2>4 DEF Advances
<1>3. CASE NoteRefundSubmit(t)
  <2>1. Funded(q)
    BY <1>3, StandingAt DEF NoteRefundSubmit, Refunding
  <2> QED BY <1>3, <1>a, <2>1, SendRefundAdvances DEF NoteRefundSubmit
<1>4. CASE NoteRefundAppend(t)
  <2>1. UNCHANGED <<status, log, keys, depositTxs, consumeIds, payoutIds, chains>>
    BY <1>4 DEF NoteRefundAppend
  <2>2. Grows /\ RowsGo /\ KeysGo
    BY <2>1, RefundIdsOnly, NoKeyBurned
  <2>3. Funded(q) /\ Goto(t, "refundWait")
    BY <1>4, StandingAt DEF NoteRefundAppend, Refunding
  <2>4. TasksGo /\ ListsGo
    BY <1>0, <1>a, <2>2, <2>3, RefundLabels, GotoGoes
  <2> QED BY <2>2, <2>4 DEF Advances
<1>5. CASE NoteRefundCommitted(t)
  <2>1. UNCHANGED <<rows, chains, keys, todo>> /\ Return(t)
    BY <1>5 DEF NoteRefundCommitted, Return, store
  <2>2. Grows /\ RowsGo /\ KeysGo /\ ListsGo
    BY <2>1, Untouched, NoKeyBurned, NothingListed
  <2> QED BY <1>0, <2>1, <2>2, ReturnGoes DEF Advances
<1> QED BY <1>1, <1>2, <1>3, <1>4, <1>5 DEF NoteRefund

-----------------------------------------------------------------------------
(***************************************************************************)
(* Lifecycle::settle and the payouts.                                         *)
(***************************************************************************)

\* The last element of a sequence is in its range.
LEMMA LastInRange ==
    ASSUME NEW S, NEW s \in Seq(S), s # <<>>
    PROVE  Last(s) \in Range(s)
<1>1. Len(s) \in 1..Len(s) /\ DOMAIN s = 1..Len(s)
  BY EmptySeq, LenProperties
<1> QED BY <1>1 DEF Last, Range

\* A step that moves tasks and nothing else.
LEMMA QuietGoes ==
    ASSUME UNCHANGED <<rows, chains, keys>>, \A t \in Tasks : todo'[t] \subseteq todo[t]
    PROVE  Grows /\ RowsGo /\ KeysGo /\ ListsGo
BY NoKeyBurned, Untouched, NothingListed

\* A call of apply burns the key of its event, unless it is there.
LEMMA CallBurns ==
    ASSUME TypeOK, NEW t, NEW q \in Quotes, NEW ev, NEW ret, CallApply(t, q, ev, ret)
    PROVE  ev \in keys'[q] /\ keys[q] \subseteq keys'[q]
BY DEF CallApply, BurnKey, TypeOK, StoreOK

\* A deposit that is there is still there after a step that only burns keys.
LEMMA FundedSame ==
    ASSUME UNCHANGED <<rows, chains>>, NEW q, Funded(q)
    PROVE  Funded(q)'
BY DEF Funded, rows, chains, HasHash, PaidBy, FirstTx, Takes

\* A task that settles a quote raises an event of settlement on it.
LEMMA SettlerCalls ==
    ASSUME OneOwnerPerEvent, TypeOK', WellGrounded, NEW t \in Tasks, pc[t] \in Settling,
           NEW ev \in Events, NEW ret \in {"idle", "reload"},
           CallApply(t, job[t].q, ev, ret), UNCHANGED <<rows, chains, todo>>,
           ev = Initiated \/ Initiated \in keys[job[t].q],
           ev.kind \in SettleKinds,
           ev.kind = "SETTLEMENT_INITIATED" => ev = Initiated,
           ev.kind = "SETTLEMENT_SUCCEEDED" => ev.datum \in 1..Len(payouts[job[t].q]),
           ret = "reload" => ev = Initiated
    PROVE  Advances
<1>0. PICK q \in Quotes : q = job[t].q
  BY OwnersKnown
<1>1. TypeOK /\ CallApply(t, q, ev, ret) /\ Funded(q) /\ Serves(t, q)
  BY <1>0, OwnersKnown, StandingAt
<1>2. Funded(q)' /\ Initiated \in keys'[q] /\ payouts' = payouts
  BY <1>0, <1>1, CallBurns, FundedSame DEF chains
<1>3. ev.kind \notin Confirmations
  BY DEF SettleKinds, Confirmations
<1>4. Stands(q, ev)'
  BY <1>0, <1>2, <1>3 DEF Stands
<1>5. ret \in Returns /\ ret \notin NoteLabels
  BY DEF Returns, NoteLabels
<1>6. Grows /\ RowsGo /\ KeysGo /\ TasksGo
  BY <1>0, <1>1, <1>4, <1>5, CallApplyGoes
<1>7. ListsGo
  BY NothingListed
<1> QED BY <1>6, <1>7 DEF Advances

\* settle has its grounds: whoever is at it has the deposit, and past the claim its event.
LEMMA SettleAdvances ==
    ASSUME OneOwnerPerEvent, TypeOK', WellGrounded, NEW t \in Tasks, Settle(t)
    PROVE  Advances
<1>0. PICK q \in Quotes : q = job[t].q
  BY OwnersKnown
<1>a. TypeOK /\ payoutIds[q] \in Seq(Nat)
  BY <1>0, OwnersKnown DEF TypeOK, StoreOK
<1>1. CASE SettleDone(t)
  <2>1. UNCHANGED <<rows, chains, keys, todo>> /\ Continue(t, q, "idle")
    BY <1>0, <1>1 DEF SettleDone, store
  <2>2. "idle" \in Returns /\ "idle" \notin Settling \cup NoteLabels
    BY DEF Returns, Settling, NoteLabels
  <2>3. TasksGo
    BY <1>a, <2>1, <2>2, ContinueGoes
  <2>4. Grows /\ RowsGo /\ KeysGo /\ ListsGo
    BY <2>1, QuietGoes
  <2> QED BY <2>3, <2>4 DEF Advances
<1>2. CASE SettleClaim(t)
  <2>1. pc[t] \in Settling /\ CallApply(t, job[t].q, Initiated, "reload")
    BY <1>2 DEF SettleClaim, Settling
  <2>2. Initiated \in Events /\ Initiated.kind = "SETTLEMENT_INITIATED"
    BY EventsTyped DEF Initiated, Event
  <2>3. UNCHANGED <<rows, chains, todo>>
    BY <1>2 DEF SettleClaim
  <2> QED BY <2>1, <2>2, <2>3, SettlerCalls DEF SettleKinds
<1>3. ASSUME NEW out \in Outputs, SettleRequote(t, out) PROVE Advances
  <2>1. UNCHANGED <<rows, chains, todo>> /\ Claimed(t) /\ pc[t] \in Settling
    BY <1>3 DEF SettleRequote, Claimed, Settling
  <2>2. Initiated \in keys[q]
    BY <1>0, <2>1, StandingAt DEF Claimed, Settling, WellGrounded, Accounted
  <2>3. CASE CallApply(t, q, Slippage(out), "idle")
    <3>1. Slippage(out) \in Events /\ Slippage(out).kind = "SLIPPAGE_EXCEEDED"
      BY ConstantsAssumption, EventsTyped DEF Slippage, Event
    <3> QED BY <1>0, <2>1, <2>2, <2>3, <3>1, SettlerCalls DEF SettleKinds
  <2>4. CASE payoutIds[q] # <<>> /\ CallApply(t, q, Succeeded(Last(payoutIds[q])), "idle")
    <3>1. Last(payoutIds[q]) \in Nat
      BY <1>a, <2>4, LastTyped
    <3>2. Last(payoutIds[q]) \in 1..Len(payouts[q])
      BY <1>a, <2>4, LastInRange DEF WellGrounded, Accounted
    <3>3. PICK ev \in Events : /\ ev = Succeeded(Last(payoutIds[q]))
                               /\ ev.kind = "SETTLEMENT_SUCCEEDED"
                               /\ ev.datum = Last(payoutIds[q])
      BY <3>1, EventsTyped DEF Succeeded, Event
    <3> QED BY <1>0, <2>1, <2>2, <2>4, <3>2, <3>3, SettlerCalls DEF SettleKinds
  <2>5. CASE Continue(t, q, "payout") /\ keys' = keys
    <3>1. Grows /\ RowsGo /\ KeysGo /\ ListsGo
      BY <2>1, <2>5, QuietGoes
    <3>2. Funded(q)' /\ Serves(t, q)
      BY <1>0, <2>1, StandingAt, FundedSame
    <3>3. "payout" \notin NoteLabels
      BY DEF NoteLabels
    <3>4. TasksGo
      BY <1>a, <2>2, <2>5, <3>2, <3>3, ContinueGoes
    <3> QED BY <3>1, <3>4 DEF Advances
  <2> QED BY <1>0, <1>3, <2>3, <2>4, <2>5 DEF SettleRequote
<1> QED BY <1>1, <1>2, <1>3 DEF Settle

\* The labels of a payout.
LEMMA PayoutLabels ==
    /\ Settling \subseteq Labels \ Applying
    /\ \A l \in Settling :
         /\ l \notin Refunding \cup NoteLabels
         /\ l \notin {"consumeSubmit", "consumeAppend"}
    /\ {"mintSubmit", "mintAppend", "mintWait", "releaseAppend", "releaseWait"}
         \subseteq Settling \ {"settle"}
    /\ PayoutOut = {"mintAppend", "mintWait", "releaseAppend", "releaseWait"}
BY DEF Refunding, Labels, Applying, Decided, Settling, PayoutOut, NoteLabels

\* A task goes on towards a payout with the payout it is about.
LEMMA PayoutGoes ==
    ASSUME OneOwnerPerEvent, TypeOK', WellGrounded, Grows, NEW t \in Tasks,
           pc[t] \in Settling \ {"settle"}, NEW l \in Settling \ {"settle"}, NEW id \in Nat,
           pc' = [pc EXCEPT ![t] = l], job' = [job EXCEPT ![t].id = id],
           l \in PayoutOut => id \in 1..Len(payouts'[job[t].q])
    PROVE  TasksGo
<1>1. PICK j \in Jobs : j = [job[t] EXCEPT !.id = id]
  BY OwnersKnown DEF Jobs
<1>2. j.q = job[t].q /\ j.ret = job[t].ret /\ j.note = job[t].note /\ j.id = id
  BY <1>1, OwnersKnown DEF Jobs
<1>3. job' = [job EXCEPT ![t] = j]
  BY <1>1
<1>4. TypeOK /\ Funded(j.q) /\ Serves(t, j.q) /\ Initiated \in keys[j.q]
  BY <1>2, OwnersKnown, StandingAt
<1> QED BY <1>2, <1>3, <1>4, PayoutLabels, GoesOn

\* Or jumps ahead with the one it has.
LEMMA PayoutJumps ==
    ASSUME OneOwnerPerEvent, TypeOK', WellGrounded, Grows, NEW t \in Tasks,
           pc[t] \in Settling \ {"settle"}, NEW l \in Settling \ {"settle"}, Goto(t, l),
           l \in PayoutOut => pc[t] \in PayoutOut
    PROVE  TasksGo /\ ListsGo
<1>1. job[t].id \in Nat /\ pc' = [pc EXCEPT ![t] = l] /\ TypeOK
  BY OwnersKnown DEF Goto
<1>2. job' = [job EXCEPT ![t].id = job[t].id]
  BY OwnersKnown DEF Goto, TypeOK, ProcessOK, TasksOK, Jobs
<1>3. l \in PayoutOut => job[t].id \in 1..Len(payouts'[job[t].q])
  BY <1>1, OwnersKnown, StandingAt, PlaceStays
<1>4. TasksGo
  BY <1>1, <1>2, <1>3, PayoutGoes
<1>5. ListsGo
  BY NothingListed DEF Goto
<1> QED BY <1>4, <1>5

\* A task that settles a quote sends its payout.
LEMMA SendPayoutAdvances ==
    ASSUME OneOwnerPerEvent, TypeOK', WellGrounded, NEW t \in Tasks,
           pc[t] \in Settling \ {"settle"}, NEW l \in Settling \ {"settle"}, SendPayout(t),
           pc' = [pc EXCEPT ![t] = l], UNCHANGED <<store, landed, consumes, refunds, todo>>
    PROVE  Advances
<1>0. PICK q \in Quotes : q = job[t].q
  BY OwnersKnown
<1>1. TypeOK /\ payouts[q] \in Seq(Fates) /\ "pending" \in Fates
  BY OwnersKnown DEF TypeOK, ChainsOK, Fates
<1>2. /\ payouts'[q] = Append(payouts[q], "pending")
      /\ \A p \in Quotes \ {q} : payouts'[p] = payouts[p]
      /\ job' = [job EXCEPT ![t].id = Len(payouts[q]) + 1]
  BY <1>0, <1>1 DEF SendPayout, TypeOK, ChainsOK
<1>3. /\ Len(payouts'[q]) = Len(payouts[q]) + 1 /\ Len(payouts[q]) \in Nat
      /\ Len(payouts[q]) + 1 \in 1..Len(payouts'[q])
  BY <1>1, <1>2, AppendedRow
<1>4. \A p \in Quotes : Len(payouts[p]) <= Len(payouts'[p])
  <2>1. \A p \in Quotes : Len(payouts[p]) \in Nat
    BY <1>1, LenProperties DEF TypeOK, ChainsOK
  <2> QED BY <1>2, <1>3, <2>1
<1>5. Grows /\ RowsGo /\ KeysGo
  <2>1. UNCHANGED <<rows, keys, landed, consumes>> /\ Funded(q)
    BY <1>0, StandingAt DEF store
  <2> QED BY <1>1, <1>2, <1>4, <2>1, SendRows
<1>6. TasksGo
  <2>1. PICK id \in Nat : id = Len(payouts[q]) + 1
    BY <1>3
  <2>2. job' = [job EXCEPT ![t].id = id] /\ id \in 1..Len(payouts'[job[t].q])
    BY <1>0, <1>2, <1>3, <2>1
  <2> QED BY <1>5, <2>2, PayoutGoes
<1>7. ListsGo
  BY NothingListed
<1> QED BY <1>5, <1>6, <1>7 DEF Advances

\* Storing the id of a payout.
LEMMA IdStored ==
    ASSUME OneOwnerPerEvent, WellGrounded, NEW t \in Tasks, pc[t] \in PayoutOut,
           payoutIds' = [payoutIds EXCEPT ![job[t].q] = Append(@, job[t].id)],
           UNCHANGED <<status, log, depositTxs, consumeIds, chains>>,
           \A p \in Quotes : keys[p] \subseteq keys'[p]
    PROVE  Grows /\ RowsGo
<1>0. PICK q \in Quotes, id \in Nat : q = job[t].q /\ id = job[t].id
  BY OwnersKnown
<1>1. TypeOK /\ id \in 1..Len(payouts[q])
  BY <1>0, OwnersKnown, StandingAt
<1>2. /\ Range(payoutIds'[q]) = Range(payoutIds[q]) \cup {id}
      /\ \A p \in Quotes \ {q} : payoutIds'[p] = payoutIds[p]
  BY <1>0, <1>1, PayoutIdAdded
<1>3. Grows
  BY <1>2 DEF Grows, HasHash, chains
<1>4. RowsGo
  BY <1>1, <1>2 DEF RowsGo, PaidFor, chains
<1> QED BY <1>3, <1>4

\* A settled payout lets settle call apply with its id.
LEMMA PayoutSucceeds ==
    ASSUME OneOwnerPerEvent, TypeOK', WellGrounded, NEW t \in Tasks, pc[t] \in PayoutOut,
           CallApply(t, job[t].q, Succeeded(job[t].id), "idle"), UNCHANGED <<rows, chains, todo>>
    PROVE  Advances
<1>0. pc[t] \in Settling \ {"settle"}
  BY PayoutLabels
<1>1. PICK ev \in Events : /\ ev = Succeeded(job[t].id)
                           /\ ev.kind = "SETTLEMENT_SUCCEEDED" /\ ev.datum = job[t].id
  BY OwnersKnown, EventsTyped DEF Succeeded, Event
<1> QED BY <1>0, <1>1, StandingAt, SettlerCalls DEF SettleKinds

\* The mint has its grounds.
LEMMA MintAdvances ==
    ASSUME OneOwnerPerEvent, TypeOK', WellGrounded, NEW t \in Tasks, Mint(t)
    PROVE  Advances
<1>0. PICK q \in Quotes : q = job[t].q
  BY OwnersKnown
<1>a. TypeOK /\ payoutIds[q] \in Seq(Nat) /\ "payout" \in Settling \ {"settle"}
  BY <1>0, OwnersKnown DEF TypeOK, StoreOK, Settling
<1>1. CASE MintKeyed(t)
  <2>1. /\ BurnKey(q, MintKey) /\ UNCHANGED <<rows, chains>>
        /\ pc[t] \in Settling \ {"settle"} /\ Goto(t, "mintSubmit")
    BY <1>0, <1>1, <1>a DEF MintKeyed, Mints
  <2>2. KeysGo /\ \A p \in Quotes : keys[p] \subseteq keys'[p]
    BY <1>a, <2>1, PlainKey, KeyBurned
  <2>3. Grows /\ RowsGo
    BY <2>1, <2>2, Untouched
  <2>4. TasksGo /\ ListsGo
    BY <2>1, <2>3, PayoutLabels, PayoutJumps
  <2> QED BY <2>2, <2>3, <2>4 DEF Advances
<1>2. CASE MintPoll(t)
  <2>1. UNCHANGED <<rows, chains, keys, todo>> /\ pc[t] \in Settling \ {"settle"}
    BY <1>2, <1>a DEF MintPoll, Mints, store, Goto
  <2>2. Grows /\ RowsGo /\ KeysGo /\ ListsGo
    BY <2>1, QuietGoes
  <2>3. CASE Goto(t, "mintSubmit")
    <3>1. TasksGo
      BY <2>1, <2>2, <2>3, PayoutLabels, PayoutJumps
    <3> QED BY <2>2, <3>1 DEF Advances
  <2>4. CASE payoutIds[q] # <<>>
    <3>1. Last(payoutIds[q]) \in Nat
      BY <1>a, <2>4, LastTyped
    <3>2. Last(payoutIds[q]) \in 1..Len(payouts'[q])
      BY <1>a, <2>1, <2>4, LastInRange DEF WellGrounded, Accounted, chains
    <3>3. /\ pc' = [pc EXCEPT ![t] = "mintWait"]
          /\ job' = [job EXCEPT ![t].id = Last(payoutIds[q])]
      BY <1>0, <1>2, <2>4 DEF MintPoll
    <3>4. TasksGo
      BY <1>0, <2>1, <2>2, <3>1, <3>2, <3>3, PayoutLabels, PayoutGoes
    <3> QED BY <2>2, <3>4 DEF Advances
  <2> QED BY <1>0, <1>2, <2>3, <2>4 DEF MintPoll
<1>3. CASE MintSubmit(t)
  <2>1. pc[t] \in Settling \ {"settle"} /\ "mintAppend" \in Settling \ {"settle"}
    BY <1>3, PayoutLabels DEF MintSubmit
  <2>2. /\ SendPayout(t) /\ pc' = [pc EXCEPT ![t] = "mintAppend"]
        /\ UNCHANGED <<store, landed, consumes, refunds, todo>>
    BY <1>3 DEF MintSubmit
  <2> QED BY <2>1, <2>2, SendPayoutAdvances
<1>4. CASE MintAppend(t)
  <2>1. pc[t] \in PayoutOut /\ pc[t] \in Settling \ {"settle"} /\ Goto(t, "mintWait")
    BY <1>4, PayoutLabels DEF MintAppend
  <2>2. KeysGo /\ \A p \in Quotes : keys[p] \subseteq keys'[p]
    BY <1>4, NoKeyBurned DEF MintAppend
  <2>3. Grows /\ RowsGo
    BY <1>4, <2>1, <2>2, IdStored DEF MintAppend
  <2>4. TasksGo /\ ListsGo
    BY <2>1, <2>3, PayoutLabels, PayoutJumps
  <2> QED BY <2>2, <2>3, <2>4 DEF Advances
<1>5. CASE MintCommitted(t)
  <2>1. pc[t] \in PayoutOut
    BY <1>5, PayoutLabels DEF MintCommitted
  <2> QED BY <1>5, <2>1, PayoutSucceeds DEF MintCommitted
<1>6. CASE MintDiscarded(t)
  <2>1. UNCHANGED <<rows, chains, keys>> /\ Abort(t)
    BY <1>6 DEF MintDiscarded, store
  <2>2. Grows /\ RowsGo /\ KeysGo
    BY <2>1, NoKeyBurned, Untouched
  <2> QED BY <1>a, <2>1, <2>2, AbortGoes DEF Advances
<1> QED BY <1>1, <1>2, <1>3, <1>4, <1>5, <1>6 DEF Mint

\* The release has its grounds.
LEMMA ReleaseAdvances ==
    ASSUME OneOwnerPerEvent, TypeOK', WellGrounded, NEW t \in Tasks, Release(t)
    PROVE  Advances
<1>0. PICK q \in Quotes : q = job[t].q
  BY OwnersKnown
<1>1. CASE ReleaseSend(t)
  <2>1. pc[t] \in Settling \ {"settle"} /\ "releaseAppend" \in Settling \ {"settle"}
    BY <1>1, PayoutLabels DEF ReleaseSend, Settling
  <2>2. /\ SendPayout(t) /\ pc' = [pc EXCEPT ![t] = "releaseAppend"]
        /\ UNCHANGED <<store, landed, consumes, refunds, todo>>
    BY <1>1 DEF ReleaseSend
  <2> QED BY <2>1, <2>2, SendPayoutAdvances
<1>2. CASE ReleaseAppend(t)
  <2>1. pc[t] \in PayoutOut /\ pc[t] \in Settling \ {"settle"} /\ Goto(t, "releaseWait")
    BY <1>2, PayoutLabels DEF ReleaseAppend
  <2>2. TypeOK /\ BurnKey(q, ReleaseKey(job[t].id))
    BY <1>0, <1>2, OwnersKnown DEF ReleaseAppend
  <2>3. KeysGo /\ \A p \in Quotes : keys[p] \subseteq keys'[p]
    BY <2>2, PlainKey, KeyBurned
  <2>4. Grows /\ RowsGo
    BY <1>2, <2>1, <2>3, IdStored DEF ReleaseAppend
  <2>5. TasksGo /\ ListsGo
    BY <2>1, <2>4, PayoutLabels, PayoutJumps
  <2> QED BY <2>3, <2>4, <2>5 DEF Advances
<1>3. CASE ReleaseConfirmed(t)
  <2>1. pc[t] \in PayoutOut
    BY <1>3, PayoutLabels DEF ReleaseConfirmed
  <2> QED BY <1>3, <2>1, PayoutSucceeds DEF ReleaseConfirmed
<1> QED BY <1>1, <1>2, <1>3 DEF Release

-----------------------------------------------------------------------------
(***************************************************************************)
(* The poller with a note.                                                    *)
(***************************************************************************)

\* What the poller holds with a note.
LEMMA NoteHeld ==
    ASSUME OneOwnerPerEvent, WellGrounded, NEW t \in Tasks, pc[t] \in NoteLabels
    PROVE  /\ t = "poller" /\ job[t].note \in Notes /\ Funded(job[t].q) /\ Serves(t, job[t].q)
           /\ Origin[job[t].q] = "miden" /\ PaysTo[job[t].note] = job[t].q
<1>1. /\ t = "poller" /\ Funded(job[t].q)
      /\ Origin[job[t].q] = "miden" /\ PaysTo[job[t].note] = job[t].q
  BY StandingAt
<1>2. job[t].note \in Notes
  BY OwnersKnown, JobTyped DEF TypeOK, ProcessOK
<1> QED BY <1>1, <1>2 DEF Serves

\* The labels of the poller with a note.
LEMMA NoteSteps ==
    /\ NoteLabels \subseteq Labels \ Applying
    /\ \A l \in NoteLabels : l \notin Settling \cup PayoutOut \cup Refunding
    /\ {"consumeSubmit", "consumeAppend", "consumeWait"} \subseteq NoteLabels
BY DEF Refunding, Labels, Applying, Decided, Settling, PayoutOut, NoteLabels

\* The poller goes on with its quote, to the faucet's check or to settle.
LEMMA OnwardGoes ==
    ASSUME OneOwnerPerEvent, TypeOK', WellGrounded, Grows, NEW t \in Tasks, pc[t] \in NoteLabels,
           NEW l \in {"verify", "settle"}, Continue(t, job[t].q, l), todo' = todo
    PROVE  TasksGo /\ ListsGo
<1>0. PICK q \in Quotes : q = job[t].q
  BY OwnersKnown
<1>1. TypeOK /\ Funded(q)' /\ Serves(t, q)
  BY <1>0, OwnersKnown, NoteHeld, FundedStays
<1>2. t = "poller" /\ Origin[q] = "miden" /\ PaysTo[job[t].note] = q /\ Continue(t, q, l)
  BY <1>0, NoteHeld
<1>3. l \in Returns \cup {"payout", "verify"} /\ l \notin Settling \ {"settle"}
  BY DEF Returns, Settling
<1>4. TasksGo
  BY <1>1, <1>2, <1>3, ContinueGoes
<1>5. ListsGo
  BY NothingListed
<1> QED BY <1>4, <1>5

\* The poller applies an event of its note.
LEMMA NoteCalls ==
    ASSUME OneOwnerPerEvent, TypeOK', WellGrounded, NEW t \in Tasks, pc[t] \in NoteLabels,
           NEW ret \in {"confirm", "consume"}, NEW ev \in Events,
           ev.kind \in {"MIDEN_DEPOSIT_DETECTED", "MIDEN_DEPOSIT_CONFIRMED"},
           CallApply(t, job[t].q, ev, ret), UNCHANGED <<rows, chains, todo>>
    PROVE  Advances
<1>0. PICK q \in Quotes : q = job[t].q
  BY OwnersKnown
<1>1. TypeOK /\ Funded(q)' /\ Funded(q) /\ Serves(t, q)
  BY <1>0, OwnersKnown, NoteHeld, FundedSame
<1>2. t = "poller" /\ Origin[q] = "miden" /\ PaysTo[job[t].note] = q /\ CallApply(t, q, ev, ret)
  BY <1>0, NoteHeld
<1>3. ret \in Returns /\ ev.kind \notin SettleKinds
  BY DEF Returns, SettleKinds
<1>4. Stands(q, ev)'
  BY <1>1, <1>2, <1>3 DEF Stands, SettleKinds
<1>5. Grows /\ RowsGo /\ KeysGo /\ TasksGo
  BY <1>1, <1>2, <1>3, <1>4, CallApplyGoes
<1>6. ListsGo
  BY NothingListed
<1> QED BY <1>5, <1>6 DEF Advances

\* Submitting the transaction that consumes a note takes no grounds away.
LEMMA ConsumesOnly ==
    ASSUME UNCHANGED <<rows, keys, landed, payouts, refunds>>,
           \A n \in Notes : consumes[n] # "none" => consumes'[n] # "none"
    PROVE  Grows /\ RowsGo /\ KeysGo
<1>1. Grows
  BY DEF Grows, rows, HasHash
<1>2. RowsGo
  BY DEF RowsGo, rows, PaidFor
<1> QED BY <1>1, <1>2, NoKeyBurned

\* The poller with a note has its grounds.
LEMMA TakeNoteAdvances ==
    ASSUME OneOwnerPerEvent, TypeOK', WellGrounded, NEW t \in Tasks, TakeNote(t)
    PROVE  Advances
<1>0. PICK q \in Quotes : q = job[t].q
  BY OwnersKnown
<1>a. TypeOK
  BY OwnersKnown
<1>b. pc[t] \in NoteLabels
  BY DEF TakeNote, NoteFound, NoteCounted, ConsumeKeyed, ConsumeSubmit, ConsumeAppend,
         ConsumeCommitted, ConsumeDiscarded, NoteVerified, NoteForeign, NoteLabels
<1>c. PICK n \in Notes : n = job[t].note
  BY <1>b, NoteHeld
<1>d. /\ t = "poller" /\ Funded(q) /\ Origin[q] = "miden" /\ PaysTo[n] = q
  BY <1>0, <1>b, <1>c, NoteHeld
<1>1. CASE NoteFound(t)
  <2>1. PICK ev \in Events : ev = NoteDetected(n) /\ ev.kind = "MIDEN_DEPOSIT_DETECTED"
    BY EventsTyped DEF NoteDetected, Event
  <2> QED BY <1>1, <1>b, <1>c, <2>1, NoteCalls DEF NoteFound
<1>2. CASE NoteCounted(t)
  <2>1. PICK ev \in Events : ev = NoteConfirmed(n) /\ ev.kind = "MIDEN_DEPOSIT_CONFIRMED"
    BY EventsTyped DEF NoteConfirmed, Event
  <2> QED BY <1>2, <1>b, <1>c, <2>1, NoteCalls DEF NoteCounted
<1>3. CASE ConsumeKeyed(t)
  <2>1. UNCHANGED <<rows, chains>>
    BY <1>3 DEF ConsumeKeyed
  <2>2. CASE Onward(t) /\ keys' = keys
    <3>1. PICK l \in {"verify", "settle"} : Continue(t, job[t].q, l) /\ todo' = todo
      BY <2>2 DEF Onward
    <3>2. Grows /\ RowsGo /\ KeysGo
      BY <2>1, <2>2, NoKeyBurned, Untouched
    <3> QED BY <1>b, <3>1, <3>2, OnwardGoes DEF Advances
  <2>3. CASE BurnKey(q, ConsumeKey(n)) /\ Goto(t, "consumeSubmit")
    <3>1. KeysGo /\ \A p \in Quotes : keys[p] \subseteq keys'[p]
      BY <1>a, <2>3, PlainKey, KeyBurned
    <3>2. Grows /\ RowsGo
      BY <2>1, <3>1, Untouched
    <3>3. ConsumeKey(n) \in keys'[q]
      BY <1>a, <2>3 DEF BurnKey, TypeOK, StoreOK
    <3>4. TasksGo /\ ListsGo
      BY <1>0, <1>a, <1>c, <1>d, <2>3, <3>2, <3>3, NoteSteps, GotoGoes
    <3> QED BY <3>1, <3>2, <3>4 DEF Advances
  <2> QED BY <1>0, <1>3, <1>c, <2>2, <2>3 DEF ConsumeKeyed
<1>4. CASE ConsumeSubmit(t)
  <2>1. /\ consumes' = [consumes EXCEPT ![n] = "pending"] /\ Goto(t, "consumeAppend")
        /\ UNCHANGED <<rows, keys, landed, payouts, refunds>>
    BY <1>4, <1>c DEF ConsumeSubmit, store
  <2>2. /\ \A m \in Notes : consumes[m] # "none" => consumes'[m] # "none"
        /\ consumes'[n] # "none"
    BY <1>a, <2>1 DEF TypeOK, ChainsOK
  <2>3. Grows /\ RowsGo /\ KeysGo
    BY <2>1, <2>2, ConsumesOnly
  <2>4. ConsumeKey(n) \in keys'[q]
    BY <1>0, <1>4, <1>c, <2>1, StandingAt DEF ConsumeSubmit
  <2>5. TasksGo /\ ListsGo
    BY <1>0, <1>a, <1>c, <1>d, <2>1, <2>2, <2>3, <2>4, NoteSteps, GotoGoes
  <2> QED BY <2>3, <2>5 DEF Advances
<1>5. CASE ConsumeAppend(t)
  <2>1. /\ consumeIds' = [consumeIds EXCEPT ![q] = Append(@, n)] /\ Goto(t, "consumeWait")
        /\ UNCHANGED <<status, log, keys, depositTxs, payoutIds, chains>>
    BY <1>0, <1>5, <1>c DEF ConsumeAppend
  <2>2. consumes[n] # "none" /\ ConsumeKey(n) \in keys[q]
    BY <1>0, <1>5, <1>c, StandingAt DEF ConsumeAppend
  <2>3. /\ Range(consumeIds'[q]) = Range(consumeIds[q]) \cup {n}
        /\ \A p \in Quotes \ {q} : consumeIds'[p] = consumeIds[p]
    <3>1. consumeIds[q] \in Seq(Notes) /\ consumeIds'[q] = Append(consumeIds[q], n)
      BY <1>a, <2>1 DEF TypeOK, StoreOK
    <3>2. \A p \in Quotes \ {q} : consumeIds'[p] = consumeIds[p]
      BY <1>a, <2>1 DEF TypeOK, StoreOK
    <3> QED BY <3>1, <3>2, AppendedRange
  <2>4. Grows
    BY <2>1 DEF Grows, HasHash, chains
  <2>5. RowsGo
    BY <1>d, <2>1, <2>2, <2>3 DEF RowsGo, PaidFor, chains
  <2>6. KeysGo
    BY <2>1, NoKeyBurned
  <2>7. TasksGo /\ ListsGo
    BY <1>0, <1>a, <1>c, <1>d, <2>1, <2>4, NoteSteps, GotoGoes
  <2> QED BY <2>4, <2>5, <2>6, <2>7 DEF Advances
<1>6. CASE ConsumeCommitted(t) \/ NoteVerified(t)
  <2>1. PICK l \in {"verify", "settle"} : Continue(t, job[t].q, l) /\ todo' = todo
    BY <1>6 DEF ConsumeCommitted, NoteVerified, Onward
  <2>2. UNCHANGED <<rows, chains, keys>>
    BY <1>6 DEF ConsumeCommitted, NoteVerified, store
  <2>3. Grows /\ RowsGo /\ KeysGo
    BY <2>2, NoKeyBurned, Untouched
  <2> QED BY <1>b, <2>1, <2>3, OnwardGoes DEF Advances
<1>7. CASE ConsumeDiscarded(t) \/ NoteForeign(t)
  <2>1. UNCHANGED <<rows, chains, keys>> /\ Abort(t)
    BY <1>7 DEF ConsumeDiscarded, NoteForeign, store
  <2> QED BY <1>a, <2>1, NoKeyBurned, Untouched, AbortGoes DEF Advances
<1> QED BY <1>1, <1>2, <1>3, <1>4, <1>5, <1>6, <1>7 DEF TakeNote

-----------------------------------------------------------------------------
(***************************************************************************)
(* Users, the loops, the chains and the failures.                             *)
(***************************************************************************)

\* The events that need no grounds.
LEMMA FreeEvents ==
    ASSUME NEW q, NEW ev, ev.kind \in Detections \cup {"DEADLINE_EXPIRED"}
    PROVE  Stands(q, ev)' /\ ev.kind \notin SettleKinds
BY DEF Stands, FundedKinds, SettleKinds, Confirmations, Detections

\* A quote can be created, a deposit submitted or made and a deadline pass at any time.
LEMMA UsersAdvance ==
    ASSUME OneOwnerPerEvent, TypeOK', WellGrounded, Users
    PROVE  Advances
<1>0. TypeOK
  BY OwnersKnown
<1>1. ASSUME NEW q \in Quotes, CreateQuote(q) PROVE Advances
  <2>1. /\ UNCHANGED <<keys, depositTxs, consumeIds, payoutIds, refundIds, chains, pc, job, todo>>
        /\ RecordEvent(q, Entry(QuoteCreated, "NONE", "PENDING_DEPOSIT", "default"))
    BY <1>1 DEF CreateQuote, process
  <2>2. PICK row \in Entries : /\ row = Entry(QuoteCreated, "NONE", "PENDING_DEPOSIT", "default")
                               /\ row.to = "PENDING_DEPOSIT"
    <3>1. /\ QuoteCreated \in Events \cup {QuoteCreated} /\ "NONE" \in Statuses \cup {"NONE"}
          /\ "PENDING_DEPOSIT" \in Statuses /\ "default" \in Reasons
      BY DEF Statuses, Reasons
    <3> DEFINE first == Entry(QuoteCreated, "NONE", "PENDING_DEPOSIT", "default")
    <3>2. first \in Entries /\ first.to = "PENDING_DEPOSIT"
      BY <3>1 DEF Entry, Entries
    <3> QED BY <3>2
  <2>3. /\ status' = [status EXCEPT ![q] = "PENDING_DEPOSIT"]
        /\ log' = [log EXCEPT ![q] = Append(@, row)]
    BY <2>1, <2>2 DEF RecordEvent
  <2>4. RowsGo
    <3>1. ASSUME NEW p \in Quotes
          PROVE  /\ status'[p] = "PROCESSING" => status[p] = "PROCESSING"
                 /\ log'[p] = log[p] \/ log'[p] = Append(log[p], row)
      <4>1. CASE p = q
        BY <1>0, <2>3, <4>1 DEF TypeOK, StoreOK
      <4>2. CASE p # q
        BY <1>0, <2>3, <4>2 DEF TypeOK, StoreOK
      <4> QED BY <4>1, <4>2
    <3> QED BY <2>1, <2>2, <3>1 DEF RowsGo, PaidFor, chains
  <2>5. Grows
    BY <2>1 DEF Grows, HasHash, chains
  <2> QED BY <2>1, <2>4, <2>5, NoKeyBurned, StillGoes, NothingListed DEF Advances
<1>2. ASSUME NEW q \in Quotes, DeadlinePasses(q) PROVE Advances
  <2>1. UNCHANGED <<rows, keys, landed, consumes, payouts, refunds, pc, job, todo>>
    BY <1>2 DEF DeadlinePasses, store, process
  <2> QED BY <2>1, ConsumesOnly, StillGoes, NothingListed DEF Advances
<1>3. ASSUME NEW h \in Handlers, NEW s \in Submissions, SubmitDeposit(h, s[1], s[2])
      PROVE  Advances
  <2>1. h \in Tasks /\ s[1] \in Quotes /\ s[2] \in Txs
    BY ConstantsAssumption DEF Tasks
  <2>2. PICK q \in Quotes, ev \in Events :
           q = s[1] /\ ev = Detected(s[2]) /\ ev.kind \in Detections
    BY <2>1, EventsTyped DEF Detected, Event, Detections
  <2>3. "idle" \in Returns /\ "idle" \notin NoteLabels
    BY DEF Returns, NoteLabels
  <2>4. CallApply(h, q, ev, "idle") /\ UNCHANGED <<rows, chains, todo>>
    BY <1>3, <2>2 DEF SubmitDeposit
  <2>5. Grows /\ RowsGo /\ KeysGo /\ TasksGo
    BY <1>0, <2>1, <2>2, <2>3, <2>4, FreeEvents, CallApplyGoes
  <2> QED BY <2>4, <2>5, NothingListed DEF Advances
<1>4. ASSUME NEW d \in Deposits, DepositLands(d) PROVE Advances
  <2>1. /\ UNCHANGED <<rows, keys, consumes, payouts, refunds, pc, job, todo>>
        /\ landed \subseteq landed'
    BY <1>4 DEF DepositLands, store, process
  <2>2. Grows
    BY <2>1 DEF Grows, rows, HasHash
  <2>3. RowsGo
    BY <2>1 DEF RowsGo, rows, PaidFor
  <2> QED BY <2>1, <2>2, <2>3, NoKeyBurned, StillGoes, NothingListed DEF Advances
<1> QED BY <1>1, <1>2, <1>3, <1>4 DEF Users

\* The key of a status a loop lists as PROCESSING is there.
LEMMA ListTaken ==
    ASSUME TypeOK, WellGrounded, NEW t \in Tasks, NEW Q \in SUBSET Quotes,
           todo' = [todo EXCEPT ![t] = Snapshot(Q)],
           t \in {"watcher", "poller"} => \A q \in Q : Serves(t, q)
    PROVE  ListsGo
<1>1. ASSUME NEW u \in Tasks, NEW r \in todo'[u]
      PROVE  \/ r \in todo[u]
             \/ /\ r.q \in Quotes
                /\ r.status = "PROCESSING" => Initiated \in keys[r.q]
                /\ u \in {"watcher", "poller"} => Serves(u, r.q)
  <2>1. CASE u # t
    BY <2>1 DEF TypeOK, ProcessOK
  <2>2. CASE u = t
    <3>1. r \in Snapshot(Q)
      BY <2>2 DEF TypeOK, ProcessOK
    <3>2. r.q \in Q /\ r.status = status[r.q]
      BY <3>1 DEF Snapshot
    <3> QED BY <2>2, <3>2 DEF WellGrounded, Accounted
  <2> QED BY <2>1, <2>2
<1> QED BY <1>1 DEF ListsGo

\* Crossing an entry off lists nothing.
LEMMA CrossedGoes ==
    ASSUME TypeOK, NEW t \in Tasks, NEW r, CrossOff(t, r)
    PROVE  ListsGo
<1>1. \A u \in Tasks : todo'[u] \subseteq todo[u]
  BY DEF CrossOff, TypeOK, ProcessOK
<1> QED BY <1>1, NothingListed

\* A quote listed as PROCESSING was claimed, and so has its deposit.
LEMMA ListedFunded ==
    ASSUME TypeOK, WellGrounded, NEW t \in Tasks, NEW r \in todo[t], r.status = "PROCESSING"
    PROVE  Funded(r.q)
<1>1. r.q \in Quotes /\ Initiated \in keys[r.q]
  BY DEF WellGrounded, Listed, TypeOK, ProcessOK
<1>2. Stands(r.q, Initiated)
  BY <1>1 DEF WellGrounded
<1>3. Initiated.kind \in FundedKinds
  BY DEF Initiated, Event, FundedKinds, SettleKinds
<1> QED BY <1>2, <1>3 DEF Stands

\* A loop settles a quote it has listed as PROCESSING.
LEMMA ListedSettles ==
    ASSUME TypeOK, WellGrounded, NEW t \in Tasks, NEW r \in todo[t], r.status = "PROCESSING",
           Serves(t, r.q), Continue(t, r.q, "settle"), CrossOff(t, r),
           UNCHANGED <<rows, chains, keys>>
    PROVE  Advances
<1>1. PICK q \in Quotes : q = r.q
  BY DEF TypeOK, ProcessOK
<1>2. Funded(q)'
  BY <1>1, ListedFunded, FundedSame
<1>3. "settle" \in Returns /\ "settle" \notin NoteLabels
  BY DEF Returns, NoteLabels
<1>4. TasksGo
  BY <1>1, <1>2, <1>3, ContinueGoes
<1>5. Grows /\ RowsGo /\ KeysGo
  BY Untouched, NoKeyBurned
<1> QED BY <1>4, <1>5, CrossedGoes DEF Advances

\* The watcher has its grounds: it confirms what it has examined.
LEMMA WatcherAdvances ==
    ASSUME OneOwnerPerEvent, TypeOK', WellGrounded, Watcher
    PROVE  Advances
<1>0. TypeOK /\ "watcher" \in Tasks /\ "idle" \in Returns /\ "settle" \in Returns
  BY OwnersKnown DEF Tasks, Loops, Returns
<1>a. "idle" \notin NoteLabels /\ "settle" \notin NoteLabels
  BY DEF NoteLabels
<1>1. CASE WatcherList
  <2>1. UNCHANGED <<rows, chains, keys, pc, job>>
    BY <1>1 DEF WatcherList, TakeList, store
  <2>2. \A q \in Tracked \cap From("evm") : Serves("watcher", q)
    BY DEF From, Serves
  <2>3. Tracked \cap From("evm") \in SUBSET Quotes
    BY DEF From
  <2>4. ListsGo
    BY <1>0, <1>1, <2>2, <2>3, ListTaken DEF WatcherList, TakeList
  <2> QED BY <2>1, <2>4, NoKeyBurned, Untouched, StillGoes DEF Advances
<1>2. ASSUME NEW r \in todo["watcher"], WatcherSkip(r) PROVE Advances
  <2>1. UNCHANGED <<rows, chains, keys, pc, job>> /\ CrossOff("watcher", r)
    BY <1>2 DEF WatcherSkip, store
  <2> QED BY <1>0, <2>1, NoKeyBurned, Untouched, StillGoes, CrossedGoes DEF Advances
<1>3. ASSUME NEW r \in todo["watcher"], WatcherReject(r) PROVE Advances
  <2>1. UNCHANGED <<rows, chains, keys>> /\ Abort("watcher")
    BY <1>3 DEF WatcherReject, store
  <2> QED BY <1>0, <2>1, NoKeyBurned, Untouched, AbortGoes DEF Advances
<1>4. ASSUME NEW r \in todo["watcher"], NEW tx \in Txs, WatcherDetect(r, tx) PROVE Advances
  <2>1. PICK q \in Quotes, ev \in Events :
           q = r.q /\ ev = Detected(tx) /\ ev.kind \in Detections
    <3>1. r.q \in Quotes
      BY <1>0, ListedTyped
    <3>2. Detected(tx) \in Events /\ Detected(tx).kind \in Detections
      BY EventsTyped DEF Detected, Event, Detections
    <3> QED BY <3>1, <3>2
  <2>2. /\ CallApply("watcher", q, ev, "idle") /\ UNCHANGED <<rows, chains>>
        /\ CrossOff("watcher", r)
    BY <1>4, <2>1 DEF WatcherDetect
  <2>3. Grows /\ RowsGo /\ KeysGo /\ TasksGo
    BY <1>0, <1>a, <2>1, <2>2, FreeEvents, CallApplyGoes
  <2> QED BY <1>0, <2>2, <2>3, CrossedGoes DEF Advances
<1>5. ASSUME NEW r \in todo["watcher"], WatcherConfirm(r) PROVE Advances
  <2>1. PICK q \in Quotes : q = r.q
    BY <1>0 DEF TypeOK, ProcessOK
  <2>2. HasHash(q) /\ PaidBy(q, FirstTx(q)) /\ FirstTx(q) \in Txs
    <3>1. HasHash(q) /\ PaidBy(q, FirstTx(q))
      BY <1>5, <2>1 DEF WatcherConfirm, Examines, Awaited
    <3>2. depositTxs[q] \in Seq(Txs) /\ 1 \in 1..Len(depositTxs[q])
      BY <1>0, <3>1, EmptySeq, LenProperties DEF HasHash, TypeOK, StoreOK
    <3> QED BY <3>1, <3>2, ElementOfSeq DEF FirstTx
  <2>3. PICK ev \in Events : ev = Confirmed(FirstTx(q)) /\ ev.kind = "EVM_DEPOSIT_CONFIRMED"
    BY <2>2, EventsTyped DEF Confirmed, Event
  <2>4. /\ CallApply("watcher", q, ev, "settle") /\ UNCHANGED <<rows, chains>>
        /\ CrossOff("watcher", r)
    BY <1>5, <2>1, <2>3 DEF WatcherConfirm, Confirm
  <2>5. Serves("watcher", q) /\ Origin[q] = "evm"
    BY <1>0, <2>1 DEF WellGrounded, Listed, Serves
  <2>6. Funded(q) /\ Funded(q)'
    BY <2>2, <2>4, <2>5, FundedSame DEF Funded
  <2>7. FirstTx(q)' = FirstTx(q)
    BY <2>4 DEF FirstTx, rows
  <2>8. Stands(q, ev)' /\ ev.kind \notin SettleKinds
    BY <2>3, <2>6, <2>7 DEF Stands, SettleKinds, Confirmed
  <2>9. Grows /\ RowsGo /\ KeysGo /\ TasksGo
    BY <1>0, <1>a, <2>4, <2>5, <2>6, <2>8, CallApplyGoes
  <2> QED BY <1>0, <2>4, <2>9, CrossedGoes DEF Advances
<1> QED BY <1>1, <1>2, <1>3, <1>4, <1>5 DEF Watcher

\* The poller has its grounds: it takes up a note it has found.
LEMMA PollerAdvances ==
    ASSUME OneOwnerPerEvent, TypeOK', WellGrounded, Poller
    PROVE  Advances
<1>0. TypeOK /\ "poller" \in Tasks
  BY OwnersKnown DEF Tasks, Loops
<1>1. CASE PollerList
  <2>1. UNCHANGED <<rows, chains, keys, pc, job>>
    BY <1>1 DEF PollerList, TakeList, store
  <2>2. \A q \in Tracked \cap From("miden") : Serves("poller", q)
    BY DEF From, Serves
  <2>3. Tracked \cap From("miden") \in SUBSET Quotes
    BY DEF From
  <2>4. ListsGo
    BY <1>0, <1>1, <2>2, <2>3, ListTaken DEF PollerList, TakeList
  <2> QED BY <2>1, <2>4, NoKeyBurned, Untouched, StillGoes DEF Advances
<1>2. ASSUME NEW r \in todo["poller"], PollerSettle(r) PROVE Advances
  <2>1. UNCHANGED <<rows, chains, keys>> /\ CrossOff("poller", r)
    BY <1>2 DEF PollerSettle, store
  <2>2. r.status = "PROCESSING" /\ Continue("poller", r.q, "settle")
    BY <1>2 DEF PollerSettle
  <2>3. Serves("poller", r.q)
    BY <1>0 DEF WellGrounded, Listed
  <2> QED BY <1>0, <2>1, <2>2, <2>3, ListedSettles
<1>3. ASSUME NEW r \in todo["poller"], PollerSkip(r) PROVE Advances
  <2>1. UNCHANGED <<rows, chains, keys, pc, job>> /\ CrossOff("poller", r)
    BY <1>3 DEF PollerSkip, store
  <2> QED BY <1>0, <2>1, NoKeyBurned, Untouched, StillGoes, CrossedGoes DEF Advances
<1>4. ASSUME NEW r \in todo["poller"], PollerReject(r) PROVE Advances
  <2>1. UNCHANGED <<rows, chains, keys>> /\ Abort("poller")
    BY <1>4 DEF PollerReject, store
  <2> QED BY <1>0, <2>1, NoKeyBurned, Untouched, AbortGoes DEF Advances
<1>5. ASSUME NEW r \in todo["poller"], NEW n \in Notes, PollerFind(r, n) PROVE Advances
  <2>0. PICK q \in Quotes : q = r.q
    BY <1>0, ListedTyped
  <2>1. UNCHANGED <<rows, chains, keys>> /\ CrossOff("poller", r)
    BY <1>5 DEF PollerFind, store
  <2>2. n \in landed \cap Notes /\ PaysTo[n] = q /\ Takes(q, n)
    BY <1>5, <2>0 DEF PollerFind, Candidates, Consumable
  <2>3. Serves("poller", q) /\ Origin[q] = "miden"
    BY <1>0, <2>0 DEF WellGrounded, Listed, Serves
  <2>4. Funded(q)'
    BY <2>1, <2>2, <2>3, FundedSame DEF Funded
  <2>5. PICK j \in Jobs : j = [NoJob EXCEPT !.q = q, !.note = n]
    BY NoJobTyped DEF Jobs
  <2>6. j.q = q /\ j.note = n /\ j.ret = "idle"
    BY <2>5 DEF NoJob
  <2>7. Grounded("poller", "detect", j)'
    BY <2>2, <2>3, <2>4, <2>6
       DEF Grounded, Settling, Refunding, NoteLabels, PayoutOut, Applying, Decided
  <2>8. /\ pc' = [pc EXCEPT !["poller"] = "detect"] /\ job' = [job EXCEPT !["poller"] = j]
        /\ "detect" \in Labels
    BY <1>5, <2>0, <2>5 DEF PollerFind, Labels, NoteLabels
  <2>9. TasksGo
    BY <1>0, <2>7, <2>8, MoveGoes
  <2> QED BY <1>0, <2>1, <2>9, NoKeyBurned, Untouched, CrossedGoes DEF Advances
<1> QED BY <1>1, <1>2, <1>3, <1>4, <1>5 DEF Poller

\* So have the deadline scanner and the resume pass.
LEMMA LoopsAdvance ==
    ASSUME OneOwnerPerEvent, TypeOK', WellGrounded, Scanner \/ Resume
    PROVE  Advances
<1>0. TypeOK /\ "scanner" \in Tasks /\ "resume" \in Tasks
  BY OwnersKnown DEF Tasks, Loops
<1>1. CASE ScannerList
  <2>1. UNCHANGED <<rows, chains, keys, pc, job>>
    BY <1>1 DEF ScannerList, TakeList, store
  <2>2. expired \cap Tracked \in SUBSET Quotes
    BY DEF Tracked
  <2>3. ListsGo
    BY <1>0, <1>1, <2>2, ListTaken DEF ScannerList, TakeList
  <2> QED BY <2>1, <2>3, NoKeyBurned, Untouched, StillGoes DEF Advances
<1>2. ASSUME NEW r \in todo["scanner"], ScannerExpire(r) PROVE Advances
  <2>1. PICK q \in Quotes, ev \in Events :
           q = r.q /\ ev = Expired /\ ev.kind = "DEADLINE_EXPIRED"
    <3>1. r.q \in Quotes
      BY <1>0, ListedTyped
    <3>2. Expired \in Events /\ Expired.kind = "DEADLINE_EXPIRED"
      BY EventsTyped DEF Expired, Event
    <3> QED BY <3>1, <3>2
  <2>2. /\ CallApply("scanner", q, ev, "idle") /\ UNCHANGED <<rows, chains>>
        /\ CrossOff("scanner", r)
    BY <1>2, <2>1 DEF ScannerExpire
  <2>3. "idle" \in Returns /\ "idle" \notin NoteLabels
    BY DEF Returns, NoteLabels
  <2>4. Grows /\ RowsGo /\ KeysGo /\ TasksGo
    BY <1>0, <2>1, <2>2, <2>3, FreeEvents, CallApplyGoes
  <2> QED BY <1>0, <2>2, <2>4, CrossedGoes DEF Advances
<1>3. CASE Boot
  <2>1. UNCHANGED <<rows, chains, keys, pc, job>>
    BY <1>3 DEF Boot, store
  <2>2. Tracked \in SUBSET Quotes
    BY DEF Tracked
  <2>3. ListsGo
    BY <1>0, <1>3, <2>2, ListTaken DEF Boot
  <2> QED BY <2>1, <2>3, NoKeyBurned, Untouched, StillGoes DEF Advances
<1>4. CASE ResumeDone
  <2>1. UNCHANGED <<rows, chains, keys, pc, job, todo>>
    BY <1>4 DEF ResumeDone, store, process
  <2> QED BY <2>1, QuietGoes, StillGoes DEF Advances
<1>5. ASSUME NEW r \in todo["resume"], ResumeQuote(r) PROVE Advances
  <2>1. UNCHANGED <<rows, chains, keys>> /\ CrossOff("resume", r)
    BY <1>5 DEF ResumeQuote, store
  <2>2. CASE r.status = "PROCESSING"
    <3>1. Continue("resume", r.q, "settle") /\ Serves("resume", r.q)
      BY <1>5, <2>2 DEF ResumeQuote, Serves
    <3> QED BY <1>0, <2>1, <2>2, <3>1, ListedSettles
  <2>3. CASE r.status # "PROCESSING"
    <3>1. UNCHANGED <<pc, job>>
      BY <1>5, <2>3 DEF ResumeQuote
    <3> QED BY <1>0, <2>1, <3>1, NoKeyBurned, Untouched, StillGoes, CrossedGoes DEF Advances
  <2> QED BY <2>2, <2>3
<1> QED BY <1>1, <1>2, <1>3, <1>4, <1>5 DEF Scanner, Resume

\* A payout whose fate is decided keeps its place.
LEMMA FatesKeepPlaces ==
    ASSUME TypeOK, NEW q \in Quotes, NEW i \in 1..Len(payouts[q]), NEW fate,
           payouts' = [payouts EXCEPT ![q][i] = fate]
    PROVE  \A p \in Quotes : Len(payouts'[p]) = Len(payouts[p])
<1>1. /\ payouts'[q] = [payouts[q] EXCEPT ![i] = fate]
      /\ \A p \in Quotes \ {q} : payouts'[p] = payouts[p]
  BY DEF TypeOK, ChainsOK
<1>2. payouts[q] \in Seq(Fates \cup {fate}) /\ payouts'[q] \in Seq(Fates \cup {fate})
  <2>1. payouts[q] \in Seq(Fates)
    BY DEF TypeOK, ChainsOK
  <2>2. payouts[q] \in Seq(Fates \cup {fate})
    BY <2>1
  <2> QED BY <1>1, <2>2
<1>3. DOMAIN payouts'[q] = DOMAIN payouts[q]
  BY <1>1
<1>4. Len(payouts'[q]) = Len(payouts[q])
  BY <1>2, <1>3, LenProperties
<1> QED BY <1>1, <1>4

\* What the chains decide and what fails takes no grounds away.
LEMMA OutsideAdvances ==
    ASSUME OneOwnerPerEvent, TypeOK', WellGrounded, PayoutFates \/ NoteFates \/ Failures
    PROVE  Advances
<1>0. TypeOK
  BY OwnersKnown
<1>1. ASSUME NEW q \in Quotes, NEW i \in 1..Len(payouts[q]),
             PayoutCommits(q, i) \/ PayoutDiscarded(q, i)
      PROVE  Advances
  <2>1. UNCHANGED <<rows, keys, landed, consumes, refunds, pc, job, todo>>
    BY <1>1 DEF PayoutCommits, PayoutDiscarded, store, process
  <2>2. PICK fate : payouts' = [payouts EXCEPT ![q][i] = fate]
    BY <1>1 DEF PayoutCommits, PayoutDiscarded
  <2>3. \A p \in Quotes : Len(payouts'[p]) = Len(payouts[p])
    BY <1>0, <2>2, FatesKeepPlaces
  <2>4. \A p \in Quotes : Len(payouts[p]) \in Nat
    BY <1>0, LenProperties DEF TypeOK, ChainsOK
  <2>5. Grows
    BY <2>1, <2>3, <2>4 DEF Grows, rows, HasHash
  <2>6. RowsGo
    BY <2>1, <2>3 DEF RowsGo, rows, PaidFor
  <2> QED BY <2>1, <2>5, <2>6, NoKeyBurned, StillGoes, NothingListed DEF Advances
<1>2. ASSUME NEW n \in Notes, ConsumeCommits(n) \/ ConsumeDiscards(n) PROVE Advances
  <2>1. UNCHANGED <<rows, keys, landed, payouts, refunds, pc, job, todo>>
    BY <1>2 DEF ConsumeCommits, ConsumeDiscards, store, process
  <2>2. \A m \in Notes : consumes[m] # "none" => consumes'[m] # "none"
    BY <1>0, <1>2 DEF ConsumeCommits, ConsumeDiscards, TypeOK, ChainsOK
  <2> QED BY <2>1, <2>2, ConsumesOnly, StillGoes, NothingListed DEF Advances
<1>3. CASE Crash
  <2>1. UNCHANGED <<rows, chains, keys>>
    BY <1>3 DEF Crash, store
  <2>2. TasksGo
    <3>1. ASSUME NEW t \in Tasks
          PROVE  pc'[t] = "idle" /\ job'[t] = NoJob /\ Grounded(t, "idle", NoJob)'
      BY <1>3, IdleGrounded DEF Crash, NoJob
    <3>2. "idle" \in Labels /\ NoJob \in Jobs
      BY NoJobTyped DEF Labels
    <3> QED BY <3>1, <3>2 DEF TasksGo
  <2>3. \A t \in Tasks : todo'[t] \subseteq todo[t]
    BY <1>3 DEF Crash
  <2> QED BY <2>1, <2>2, <2>3, QuietGoes DEF Advances
<1>4. ASSUME NEW t \in Tasks, Fault(t) PROVE Advances
  <2>1. UNCHANGED <<rows, chains, keys>> /\ Abort(t)
    BY <1>4 DEF Fault, store
  <2> QED BY <1>0, <2>1, NoKeyBurned, Untouched, AbortGoes DEF Advances
<1> QED BY <1>1, <1>2, <1>3, <1>4 DEF PayoutFates, NoteFates, Failures

-----------------------------------------------------------------------------
\* Every step keeps the grounds.
LEMMA GroundsStep ==
    ASSUME OneOwnerPerEvent, TypeOK', WellGrounded, [Next]_vars
    PROVE  WellGrounded' /\ Advances
<1>1. ASSUME NEW t \in Tasks, Step(t) PROVE Advances
  BY <1>1, ApplyAdvances, SettleAdvances, RefundAdvances, MintAdvances, TakeNoteAdvances,
     ReleaseAdvances, NoteRefundAdvances DEF Step
<1>2. ASSUME UNCHANGED vars PROVE Advances
  <2>1. UNCHANGED <<rows, chains, keys, pc, job, todo>>
    BY <1>2 DEF vars, store, process
  <2>2. Grows /\ RowsGo /\ KeysGo /\ ListsGo
    BY <2>1, QuietGoes
  <2>3. TasksGo
    BY <2>1, StillGoes
  <2> QED BY <2>2, <2>3 DEF Advances
<1>3. Advances
  BY <1>1, <1>2, UsersAdvance, WatcherAdvances, PollerAdvances, LoopsAdvance, OutsideAdvances
     DEF Next
<1> QED BY <1>3, OwnersKnown, AdvanceKeeps

\* At the start there is nothing to ground.
LEMMA InitGrounded == Init => WellGrounded
<1> SUFFICES ASSUME Init PROVE WellGrounded
  OBVIOUS
<1>1. \A t \in Tasks : Grounded(t, pc[t], job[t])
  BY IdleGrounded DEF Init, NoJob
<1>2. \A t \in Tasks : Listed(t)
  BY DEF Init, Listed
<1>3. ASSUME NEW q \in Quotes PROVE Accounted(q)
  <2>1. /\ status[q] = "NONE" /\ log[q] = <<>> /\ payoutIds[q] = <<>> /\ consumeIds[q] = <<>>
        /\ payouts[q] = <<>> /\ refunds[q] = <<>>
    BY DEF Init
  <2>2. Range(<<>>) = {}
    BY EmptySeq DEF Range
  <2>3. Len(log[q]) = 0 /\ Len(payouts[q]) + Len(refunds[q]) = 0
    BY <2>1, EmptySeq
  <2> QED BY <2>1, <2>2, <2>3 DEF Accounted, PaidFor
<1>4. \A q \in Quotes : keys[q] = {}
  BY DEF Init
<1> QED BY <1>1, <1>2, <1>3, <1>4 DEF WellGrounded

\* Whatever interleaves, fails, crashes and is repeated, every task stands at its step and
\* every key, row and list entry is there on grounds that are not taken back.
THEOREM Grounds == Spec => [](OneOwnerPerEvent /\ WellGrounded)
<1>1. Init => OneOwnerPerEvent /\ WellGrounded
  BY InitTyped, InitOwned, InitGrounded DEF OneOwnerPerEvent, Owned
<1>2. OneOwnerPerEvent /\ WellGrounded /\ [Next]_vars => (OneOwnerPerEvent /\ WellGrounded)'
  <2>1. OneOwnerPerEvent' => TypeOK'
    BY DEF OneOwnerPerEvent
  <2> QED BY <2>1, OwnerStep, GroundsStep
<1> QED BY <1>1, <1>2, PTL DEF Spec
=============================================================================
