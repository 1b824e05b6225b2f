----------------------------- MODULE UsersProofs ------------------------------
(***************************************************************************)
(* Theorems about Users for every number of tries, of quotes, of claimers,    *)
(* and of rows of the bridge service.                                        *)
(*                                                                           *)
(* The invariants: QuotesOK says what one quote may be, Positions where the   *)
(* program is with the latest one, Funded that the claim is for a deposit     *)
(* that is known, Spending which wallets are spent and by what, Running what the *)
(* evidence runner has behind it, and ClaimsOK what a claimer holds of a row. *)
(***************************************************************************)
EXTENDS Users, SequenceTheorems, TLAPS

Notes == {"none", "there", "pending", "committed"}
Legs  == {"inbound", "funding", "outbound"}
Quote == [leg : Legs, from : Nat, status : Statuses, taken : Nat, landed : SUBSET Nat,
          recorded : SUBSET Nat, lost : Nat, hash : Nat, note : Notes]

\* A quote: no payment is known that the node did not take, no payment was taken but the
\* first and those after a lost answer, and a note is there once the quote has succeeded.
QuoteOK(q) ==
    /\ q \in Quote
    /\ q.hash \in 0..q.taken
    /\ q.landed \cup q.recorded \subseteq 1..q.taken
    /\ q.taken <= 1 + q.lost
    /\ q.leg # "outbound" /\ q.note # "none" => q.status = "SUCCESS"

QuotesOK ==
    /\ quotes \in Seq(Quote)
    /\ \A i \in DOMAIN quotes : QuoteOK(quotes[i])

\* A deposit that is on the chain and on the quote.
Known(q) == q.hash \in q.landed \cap q.recorded

\* The latest quote into Miden.
IsWallet(w) ==
    /\ w \in DOMAIN quotes /\ quotes[w].leg # "outbound"
    /\ \A j \in DOMAIN quotes : quotes[j].leg # "outbound" => j <= w

\* The program, and what is true of the latest quote there.
Positions ==
    /\ leg \in Legs
    /\ at \in {"quote", "send", "confirm", "record", "poll", "claim", "claimWait", "note",
               "noteWait", "report", "failed"}
    /\ attempt \in 0..(MaxAttempts - 1)
    /\ at \in {"send", "confirm", "record", "claim", "claimWait"} => leg # "outbound"
    /\ at \in {"note", "noteWait"} => leg = "outbound"
    /\ at \in {"send", "confirm", "record", "poll", "note", "noteWait"} =>
         Latest \in DOMAIN quotes /\ quotes[Latest].leg = leg
    /\ at = "send" => quotes[Latest].taken <= quotes[Latest].lost
    /\ at = "record" => quotes[Latest].hash \in quotes[Latest].landed
    /\ at = "note" => quotes[Latest].note = "none"

\* What the wallet is for: the leg that is under way, or the funding that is spent.
WalletLeg == IF leg = "outbound" THEN "funding" ELSE leg

\* Where the program relies on a deposit, that of the wallet is known.
Funded ==
    at \in {"claim", "claimWait", "poll"} \/ leg = "outbound" =>
        \E w \in DOMAIN quotes :
            IsWallet(w) /\ Known(quotes[w]) /\ quotes[w].leg = WalletLeg

\* A wallet that was funded and claimed, and the quote that is paid from it.
Claimed(w) == w \in DOMAIN quotes /\ quotes[w].leg = "funding" /\ quotes[w].note = "committed"
Spends(i, w) == quotes[i].leg = "outbound" /\ quotes[i].from = w
Unspent(w) == \A i \in DOMAIN quotes : ~Spends(i, w)

\* What is spent is a wallet that was funded and claimed, and by one quote.
Kept ==
    /\ \A i \in DOMAIN quotes : quotes[i].leg = "outbound" => Claimed(quotes[i].from)
    /\ \A i, j \in DOMAIN quotes :
         quotes[i].leg = "outbound" /\ Spends(j, quotes[i].from) => i = j

\* A wallet that is about to be spent is claimed and not spent; one whose claim is waited for
\* is not spent.
Spending ==
    /\ Kept
    /\ \A w \in DOMAIN quotes : IsWallet(w) =>
         /\ leg = "outbound" /\ at = "quote" => Claimed(w) /\ Unspent(w)
         /\ at = "claimWait" => Unspent(w)

\* What a quote of the runner is when it goes on to the next.
Done(q) ==
    /\ q.status = "SUCCESS" /\ q.note = "committed"
    /\ q.leg # "outbound" => Known(q)

\* The runner leaves nothing undone behind it.
Running ==
    program = "e2e" /\ at # "failed" =>
        /\ \A i \in DOMAIN quotes : i < Latest => Done(quotes[i])
        /\ at \in {"quote", "report"} => \A i \in DOMAIN quotes : Done(quotes[i])
        /\ at \in {"claim", "claimWait"} => Latest \in DOMAIN quotes /\ quotes[Latest].leg # "outbound"
        /\ at = "poll" /\ leg = "outbound" => quotes[Latest].note = "committed"

\* What a claimer holds of a row: it was ready when the rows were read, and not claimed.
Claims == {NoClaim} \cup
          [at : {"proof", "planned"}, count : Nat, row : Nat, shown : BOOLEAN]
ClaimsOK ==
    /\ claim \in [Claimers -> Claims]
    /\ \A c \in Claimers : claim[c].at \in {"proof", "planned"} =>
         /\ claim[c].row \in DOMAIN rows
         /\ rows[claim[c].row].dest = "l1"
         /\ rows[claim[c].row].stage \in {"ready", "claimed", "indexed"}
         /\ ~claim[c].shown

\* The rows of the bridge service.
Stages == {"bridged", "ready", "claimed", "indexed"}
Rows == [net : {"miden", "l1"}, dest : {"miden", "l1"}, sound : BOOLEAN, stage : Stages]
RowsOK ==
    /\ rows \in Seq(Rows) /\ Len(rows) <= MaxRows
    /\ \A i \in DOMAIN rows : [rows[i] EXCEPT !.stage = "bridged"] \in NewRows

-----------------------------------------------------------------------------
\* A quote.

\* What a step does with a quote.
Follows(i) ==
    LET q == quotes[i]
        r == quotes'[i]
        paid == (Send \/ SendFails) /\ i = Latest IN
    /\ i \in DOMAIN quotes' /\ r.leg = q.leg /\ r.from = q.from
    /\ q.status = "SUCCESS" => r.status = "SUCCESS"
    /\ q.note = "committed" => r.note = "committed"
    /\ q.leg = "outbound" /\ q.note = "none" => r.note = "none" \/ (SubmitNote /\ i = Latest)
    /\ ~paid => /\ r.taken = q.taken /\ r.lost = q.lost /\ r.hash = q.hash
                /\ q.landed \subseteq r.landed
                /\ Known(q) => Known(r)

\* The latest quote is one of them, and others stay where one is changed.
LEMMA Indices ==
    ASSUME QuotesOK
    PROVE  /\ Latest \in Nat /\ DOMAIN quotes = 1..Latest
           /\ \A i \in DOMAIN quotes : quotes[i] \in Quote /\ QuoteOK(quotes[i])
BY LenProperties DEF QuotesOK, QuoteOK, Latest

\* A quote is replaced by another one that is allowed.
LEMMA OneChanged ==
    ASSUME QuotesOK, NEW i \in DOMAIN quotes, NEW r, QuoteOK(r),
           quotes' = [quotes EXCEPT ![i] = r]
    PROVE  /\ quotes' \in Seq(Quote) /\ Len(quotes') = Len(quotes) /\ DOMAIN quotes' = DOMAIN quotes
           /\ quotes'[i] = r /\ \A j \in DOMAIN quotes : j # i => quotes'[j] = quotes[j]
           /\ QuotesOK'
<1>1. quotes \in Seq(Quote) /\ i \in 1..Len(quotes) /\ r \in Quote
  BY Indices DEF QuotesOK, QuoteOK, Latest
<1>2. /\ quotes' \in Seq(Quote) /\ Len(quotes') = Len(quotes)
      /\ \A j \in 1..Len(quotes) : quotes'[j] = IF j = i THEN r ELSE quotes[j]
  BY <1>1, ExceptSeq
<1>3. DOMAIN quotes' = DOMAIN quotes /\ DOMAIN quotes = 1..Len(quotes)
  BY <1>1, <1>2, LenProperties
<1>4. \A j \in DOMAIN quotes' : QuoteOK(quotes'[j])
  BY <1>2, <1>3 DEF QuotesOK
<1>5. \A j \in DOMAIN quotes' : QuoteOK(quotes[j])'
  BY <1>4 DEF QuoteOK, Quote, Notes, Legs
<1> QED BY <1>1, <1>2, <1>3, <1>5 DEF QuotesOK, Quote, Notes, Legs

\* A quote that stays follows itself.
LEMMA SameFollows ==
    ASSUME NEW i \in DOMAIN quotes, i \in DOMAIN quotes', quotes'[i] = quotes[i]
    PROVE  Follows(i)
BY DEF Follows

\* Quotes are not added, and each follows itself.
QuotesStep ==
    /\ QuotesOK' /\ DOMAIN quotes' = DOMAIN quotes /\ Latest' = Latest
    /\ \A j \in DOMAIN quotes : Follows(j)

\* Nothing happens to the quotes.
LEMMA NoneFollows ==
    ASSUME QuotesOK, UNCHANGED quotes
    PROVE  QuotesStep
<1>1. QuotesOK' /\ DOMAIN quotes' = DOMAIN quotes
  BY DEF QuotesOK, QuoteOK, Quote, Notes, Legs
<1>2. Latest' = Latest
  BY DEF Latest
<1> QED BY <1>1, <1>2, SameFollows DEF QuotesStep

\* One quote follows, and the others stay.
LEMMA OneFollows ==
    ASSUME QuotesOK, NEW i \in DOMAIN quotes, NEW r, QuoteOK(r),
           quotes' = [quotes EXCEPT ![i] = r],
           i \in DOMAIN quotes' /\ quotes'[i] = r => Follows(i)
    PROVE  QuotesStep
<1>1. Latest' = Latest
  BY OneChanged DEF Latest
<1> QED BY <1>1, OneChanged, SameFollows DEF QuotesStep

-----------------------------------------------------------------------------
\* What each step does with the quotes.

\* The wallet is the one quote that IsWallet is true of.
LEMMA TheWallet ==
    ASSUME QuotesOK, NEW w \in DOMAIN quotes, IsWallet(w)
    PROVE  Wallet = w
<1>1. DOMAIN quotes = 1..Latest /\ Latest \in Nat
  BY Indices
<1>2. quotes[w].leg # "outbound" /\ \A j \in DOMAIN quotes : quotes[j].leg # "outbound" => j <= w
  BY DEF IsWallet
<1>3. \A v \in DOMAIN quotes :
         /\ quotes[v].leg # "outbound"
         /\ \A j \in DOMAIN quotes : quotes[j].leg # "outbound" => j <= v
         => v = w
  BY <1>1, <1>2
<1> QED BY <1>2, <1>3 DEF Wallet

\* What a new quote starts with.
LEMMA NewQuoteIs ==
    ASSUME NEW kind \in Legs, kind = "outbound" => Wallet \in Nat
    PROVE  LET q == NewQuote(kind) IN
           /\ QuoteOK(q) /\ q.leg = kind /\ (kind = "outbound" => q.from = Wallet)
           /\ q.taken = 0 /\ q.lost = 0 /\ q.note = "none"
<1> DEFINE w == IF kind = "outbound" THEN Wallet ELSE 0
           q == [leg |-> kind, from |-> w, status |-> "PENDING_DEPOSIT", taken |-> 0,
                 landed |-> {}, recorded |-> {}, lost |-> 0, hash |-> 0, note |-> "none"]
<1>1. w \in Nat /\ (kind = "outbound" => w = Wallet)
  OBVIOUS
<1>2. NewQuote(kind) = q
  BY DEF NewQuote
<1> HIDE DEF w
<1>3. QuoteOK(q)
  BY <1>1 DEF QuoteOK, Quote, Notes, Statuses
<1> QED BY <1>1, <1>2, <1>3

\* A new quote.
LEMMA QuoteAdded ==
    ASSUME QuotesOK, Positions, Funded, CreateQuoteFor
    PROVE  /\ QuotesOK' /\ DOMAIN quotes' = 1..(Latest + 1) /\ Latest' = Latest + 1
           /\ Latest \in Nat /\ DOMAIN quotes = 1..Latest
           /\ quotes'[Latest + 1].leg = leg
           /\ leg = "outbound" => quotes'[Latest + 1].from = Wallet
           /\ quotes'[Latest + 1].taken = 0 /\ quotes'[Latest + 1].lost = 0
           /\ quotes'[Latest + 1].note = "none"
           /\ \A j \in DOMAIN quotes : quotes'[j] = quotes[j]
<1> DEFINE r == NewQuote(leg)
<1>1. Latest \in Nat /\ DOMAIN quotes = 1..Latest /\ Latest = Len(quotes) /\ Latest' = Len(quotes')
  BY Indices DEF Latest
<1>2. leg = "outbound" => Wallet \in Nat
  <2> SUFFICES ASSUME leg = "outbound" PROVE Wallet \in Nat
    OBVIOUS
  <2>1. PICK w \in DOMAIN quotes : IsWallet(w)
    BY DEF Funded
  <2> QED BY <1>1, <2>1, TheWallet
<1>3. /\ QuoteOK(r) /\ r.leg = leg /\ (leg = "outbound" => r.from = Wallet)
      /\ r.taken = 0 /\ r.lost = 0 /\ r.note = "none"
  BY <1>2, NewQuoteIs DEF Positions
<1>4. quotes \in Seq(Quote) /\ r \in Quote /\ quotes' = Append(quotes, r)
  BY <1>3 DEF QuotesOK, QuoteOK, CreateQuoteFor
<1> HIDE DEF r
<1>5. /\ quotes' \in Seq(Quote) /\ Len(quotes') = Len(quotes) + 1
      /\ \A j \in 1..Len(quotes) : quotes'[j] = quotes[j]
      /\ quotes'[Len(quotes) + 1] = r
  BY <1>4, AppendProperties
<1>6. DOMAIN quotes' = 1..(Latest + 1)
  BY <1>1, <1>5, LenProperties
<1>7. \A j \in DOMAIN quotes' : QuoteOK(quotes'[j])
  <2> TAKE j \in DOMAIN quotes'
  <2>1. j \in DOMAIN quotes \/ j = Latest + 1
    BY <1>1, <1>6
  <2> QED BY <1>1, <1>3, <1>5, <2>1 DEF QuotesOK
<1>8. QuotesOK'
  <2>1. \A j \in DOMAIN quotes' : QuoteOK(quotes[j])'
    BY <1>7 DEF QuoteOK, Quote, Notes, Legs
  <2> QED BY <1>5, <2>1 DEF QuotesOK, Quote, Notes, Legs
<1> QED BY <1>1, <1>3, <1>5, <1>6, <1>8

\* A send that is answered takes one payment, and the quote's hash is that one's.
LEMMA SendQuotes ==
    ASSUME QuotesOK, Positions, Send
    PROVE  QuotesStep
<1> DEFINE q == quotes[Latest]
           r == [q EXCEPT !.taken = @ + 1, !.hash = q.taken + 1]
<1>1. Latest \in DOMAIN quotes /\ q.taken <= q.lost /\ QuoteOK(q) /\ q \in Quote
  BY Indices DEF Positions, Send
<1>2. QuoteOK(r)
  <2>1. q.taken \in Nat /\ q.lost \in Nat /\ q.hash \in 0..q.taken
    BY <1>1 DEF QuoteOK, Quote
  <2>2. r \in Quote
    <3>1. q.taken + 1 \in Nat /\ q.lost + 1 \in Nat
      BY <2>1
    <3> DEFINE t == q.taken + 1
               k == q.lost + 1
    <3> HIDE DEF t, k
    <3>2. t \in Nat /\ k \in Nat
      BY <3>1 DEF t, k
    <3>3. r = [q EXCEPT !.taken = t, !.hash = t]
      BY DEF t, k
    <3>4. [q EXCEPT !.taken = t, !.hash = t] \in Quote
      BY <1>1, <3>2 DEF Quote
    <3> QED BY <3>3, <3>4
  <2>3. /\ r.taken = q.taken + 1 /\ r.lost = q.lost /\ r.hash = q.taken + 1
        /\ r.landed = q.landed /\ r.recorded = q.recorded
        /\ r.leg = q.leg /\ r.from = q.from /\ r.status = q.status /\ r.note = q.note
    BY <1>1 DEF Quote
  <2> HIDE DEF r
  <2>4. r.hash \in 0..r.taken /\ r.taken <= 1 + r.lost
    BY <1>1, <2>1, <2>3
  <2>5. r.landed \cup r.recorded \subseteq 1..r.taken
    BY <1>1, <2>1, <2>3 DEF QuoteOK
  <2> QED BY <1>1, <2>2, <2>3, <2>4, <2>5 DEF QuoteOK
<1>3. quotes' = [quotes EXCEPT ![Latest] = r]
  BY <1>1 DEF Send, QuoteOK, Quote
<1>4. ASSUME Latest \in DOMAIN quotes', quotes'[Latest] = r
      PROVE  Follows(Latest)
  BY <1>1, <1>4 DEF Follows, Quote
<1> QED BY <1>1, <1>2, <1>3, <1>4, OneFollows

\* A send that fails may have taken one, and then an answer was lost.
LEMMA SendFailsQuotes ==
    ASSUME QuotesOK, Positions, SendFails
    PROVE  QuotesStep /\ quotes'[Latest].taken <= quotes'[Latest].lost
<1> DEFINE q == quotes[Latest]
           r == [q EXCEPT !.taken = @ + 1, !.lost = @ + 1]
<1>1. Latest \in DOMAIN quotes /\ q.taken <= q.lost /\ QuoteOK(q) /\ q \in Quote
  BY Indices DEF Positions, SendFails
<1>2. QuoteOK(r)
  <2>1. q.taken \in Nat /\ q.lost \in Nat /\ q.hash \in 0..q.taken
    BY <1>1 DEF QuoteOK, Quote
  <2>2. r \in Quote
    <3>1. q.taken + 1 \in Nat /\ q.lost + 1 \in Nat
      BY <2>1
    <3> DEFINE t == q.taken + 1
               k == q.lost + 1
    <3> HIDE DEF t, k
    <3>2. t \in Nat /\ k \in Nat
      BY <3>1 DEF t, k
    <3>3. r = [q EXCEPT !.taken = t, !.lost = k]
      BY DEF t, k
    <3>4. [q EXCEPT !.taken = t, !.lost = k] \in Quote
      BY <1>1, <3>2 DEF Quote
    <3> QED BY <3>3, <3>4
  <2>3. /\ r.taken = q.taken + 1 /\ r.lost = q.lost + 1 /\ r.hash = q.hash
        /\ r.landed = q.landed /\ r.recorded = q.recorded
        /\ r.leg = q.leg /\ r.from = q.from /\ r.status = q.status /\ r.note = q.note
    BY <1>1 DEF Quote
  <2> HIDE DEF r
  <2>4. r.hash \in 0..r.taken /\ r.taken <= 1 + r.lost
    BY <1>1, <2>1, <2>3
  <2>5. r.landed \cup r.recorded \subseteq 1..r.taken
    BY <1>1, <2>1, <2>3 DEF QuoteOK
  <2> QED BY <1>1, <2>2, <2>3, <2>4, <2>5 DEF QuoteOK
<1>3. UNCHANGED quotes \/ quotes' = [quotes EXCEPT ![Latest] = r]
  BY <1>1 DEF SendFails, QuoteOK, Quote
<1>4. ASSUME Latest \in DOMAIN quotes', quotes'[Latest] = r
      PROVE  Follows(Latest)
  BY <1>1, <1>4 DEF Follows, Quote
<1>5. quotes'[Latest].taken <= quotes'[Latest].lost
  <2>1. CASE UNCHANGED quotes
    BY <1>1, <2>1
  <2>2. CASE quotes' = [quotes EXCEPT ![Latest] = r]
    <3>1. quotes'[Latest] = r /\ q.taken \in Nat /\ q.lost \in Nat
      BY <1>1, <2>2 DEF Quote
    <3>2. r.taken = q.taken + 1 /\ r.lost = q.lost + 1
      BY <1>1 DEF Quote
    <3> QED BY <1>1, <3>1, <3>2
  <2> QED BY <1>3, <2>1, <2>2
<1> QED BY <1>1, <1>2, <1>3, <1>4, <1>5, OneFollows, NoneFollows

\* A deposit is recorded at most once, before settlement.
LEMMA RecordQuotes ==
    ASSUME QuotesOK, Positions, RecordDeposit \/ RecordFails
    PROVE  QuotesStep /\ (RecordDeposit => Known(quotes'[Latest]))
<1> DEFINE q == quotes[Latest]
           r == Recorded(q)
<1>1. Latest \in DOMAIN quotes /\ QuoteOK(q) /\ q \in Quote /\ q.hash \in q.landed
  BY Indices DEF Positions, RecordDeposit, RecordFails
<1>2. CASE UNCHANGED quotes
  <2>1. RecordDeposit => q.hash \in q.recorded
    <3> SUFFICES ASSUME RecordDeposit, MayRecordDeposit(q), quotes' = [quotes EXCEPT ![Latest] = r]
                 PROVE  q.hash \in q.recorded
      BY DEF RecordDeposit
    <3>1. q = r
      BY <1>1, <1>2
    <3>2. r.recorded = q.recorded \cup {q.hash}
      BY <1>1 DEF Recorded, Quote
    <3> QED BY <3>1, <3>2
  <2> QED BY <1>1, <1>2, <2>1, NoneFollows DEF Known
<1>3. CASE MayRecordDeposit(q) /\ quotes' = [quotes EXCEPT ![Latest] = r]
  <2>1. q.status # "SUCCESS" /\ q.hash \notin q.recorded
    BY <1>1, <1>3 DEF MayRecordDeposit, MayRecord, ValidTransitions, Quote
  <2>2. QuoteOK(r)
    BY <1>1, <2>1 DEF QuoteOK, Quote, Recorded, Statuses
  <2>3. ASSUME Latest \in DOMAIN quotes', quotes'[Latest] = r
        PROVE  Follows(Latest)
    BY <1>1, <2>1, <2>3 DEF Follows, Quote, Recorded, Known
  <2>4. Known(quotes'[Latest])
    BY <1>1, <1>3 DEF Known, Recorded, Quote
  <2> QED BY <1>1, <1>3, <2>2, <2>3, <2>4, OneFollows
<1> QED BY <1>2, <1>3 DEF RecordDeposit, RecordFails

\* The note of the wallet is consumed: it was there.
LEMMA SubmitClaimQuotes ==
    ASSUME QuotesOK, Funded, SubmitClaim
    PROVE  QuotesStep
<1>1. PICK w \in DOMAIN quotes : IsWallet(w)
  BY DEF Funded, SubmitClaim
<1> DEFINE q == quotes[w]
           r == [q EXCEPT !.note = "pending"]
<1>2. Wallet = w /\ QuoteOK(q) /\ q \in Quote /\ q.leg # "outbound"
  BY <1>1, TheWallet, Indices DEF IsWallet
<1>3. q.note = "there" /\ quotes' = [quotes EXCEPT ![w] = r]
  BY <1>2 DEF SubmitClaim, QuoteOK, Quote
<1>4. QuoteOK(r)
  BY <1>2, <1>3 DEF QuoteOK, Quote, Notes
<1>5. ASSUME w \in DOMAIN quotes', quotes'[w] = r
      PROVE  Follows(w)
  BY <1>2, <1>3, <1>5 DEF Follows, Quote, Known
<1> QED BY <1>3, <1>4, <1>5, OneFollows

\* A bridge-out note is sent for the latest quote.
LEMMA SubmitNoteQuotes ==
    ASSUME QuotesOK, Positions, SubmitNote
    PROVE  QuotesStep
<1> DEFINE q == quotes[Latest]
           r == [q EXCEPT !.note = "pending"]
<1>1. /\ Latest \in DOMAIN quotes /\ QuoteOK(q) /\ q \in Quote
      /\ q.leg = "outbound" /\ q.note = "none"
  BY Indices DEF Positions, SubmitNote
<1>2. quotes' = [quotes EXCEPT ![Latest] = r]
  BY <1>1 DEF SubmitNote, QuoteOK, Quote
<1>3. QuoteOK(r)
  BY <1>1 DEF QuoteOK, Quote, Notes
<1>4. ASSUME Latest \in DOMAIN quotes', quotes'[Latest] = r
      PROVE  Follows(Latest)
  BY <1>1, <1>4 DEF Follows, Quote, Known
<1> QED BY <1>1, <1>2, <1>3, <1>4, OneFollows

\* The steps of the chains and of the bridge.
World(i) ==
    \/ \E p \in 1..quotes[i].taken : LandPayment(i, p) \/ FindDeposit(i, p)
    \/ CommitNote(i) \/ DiscardNote(i) \/ Deliver(i) \/ Release(i) \/ GiveUp(i)

\* What these do to a quote.
LEMMA WorldQuotes ==
    ASSUME QuotesOK, NEW i \in DOMAIN quotes, World(i)
    PROVE  QuotesStep
<1> DEFINE q == quotes[i]
<1>1. QuoteOK(q) /\ q \in Quote
  BY Indices
<1>2. ASSUME NEW r, Update(i, r), QuoteOK(r),
             /\ r.leg = q.leg /\ r.from = q.from /\ r.taken = q.taken /\ r.lost = q.lost
             /\ r.hash = q.hash /\ q.landed \subseteq r.landed
             /\ Known(q) => Known(r)
             /\ q.status = "SUCCESS" => r.status = "SUCCESS"
             /\ q.note = "committed" => r.note = "committed"
             /\ q.leg = "outbound" /\ q.note = "none" => r.note = "none"
      PROVE  QuotesStep
  <2>1. quotes' = [quotes EXCEPT ![i] = r]
    BY <1>2 DEF Update
  <2>2. ASSUME i \in DOMAIN quotes', quotes'[i] = r
        PROVE  Follows(i)
    BY <1>1, <1>2, <2>2 DEF Follows
  <2> QED BY <1>2, <2>1, <2>2, OneFollows
<1>3. CASE \E p \in 1..q.taken : LandPayment(i, p)
  <2>1. PICK p \in 1..q.taken : LandPayment(i, p)
    BY <1>3
  <2> DEFINE r == [q EXCEPT !.landed = @ \cup {p}]
  <2>2. QuoteOK(r)
    BY <1>1 DEF QuoteOK, Quote
  <2> QED BY <1>1, <1>2, <2>1, <2>2 DEF LandPayment, Quote, Known
<1>4. CASE \E p \in 1..q.taken : FindDeposit(i, p)
  <2>1. PICK p \in 1..q.taken : FindDeposit(i, p)
    BY <1>4
  <2> DEFINE r == [q EXCEPT !.recorded = {p}, !.status = "KNOWN_DEPOSIT_TX"]
  <2>2. q.status = "PENDING_DEPOSIT" /\ q.recorded = {} /\ Update(i, r)
    BY <2>1 DEF FindDeposit
  <2>3. QuoteOK(r)
    <3>1. q.note = "none" \/ q.leg = "outbound"
      BY <1>1, <2>2 DEF QuoteOK
    <3>2. p \in 1..q.taken /\ {p} \in SUBSET Nat /\ q.taken \in Nat
      BY <1>1 DEF Quote
    <3> QED BY <1>1, <3>1, <3>2 DEF QuoteOK, Quote, Statuses
  <2> QED BY <1>1, <1>2, <2>2, <2>3 DEF Quote, Known
<1>5. CASE CommitNote(i)
  <2> DEFINE r == [q EXCEPT !.note = "committed"]
  <2>1. QuoteOK(r) /\ Update(i, r) /\ q.note = "pending"
    BY <1>1, <1>5 DEF QuoteOK, Quote, Notes, CommitNote
  <2> QED BY <1>1, <1>2, <2>1 DEF Quote, Known
<1>6. CASE DiscardNote(i)
  <2> DEFINE r == [q EXCEPT !.note = IF q.leg = "outbound" THEN "none" ELSE "there"]
  <2>1. QuoteOK(r) /\ Update(i, r) /\ q.note = "pending"
    BY <1>1, <1>6 DEF QuoteOK, Quote, Notes, DiscardNote
  <2> QED BY <1>1, <1>2, <2>1 DEF Quote, Known
<1>7. CASE Deliver(i)
  <2> DEFINE r == [q EXCEPT !.status = "SUCCESS", !.note = "there"]
  <2>1. Update(i, r) /\ q.leg # "outbound" /\ q.note = "none"
    BY <1>1, <1>7 DEF QuoteOK, Deliver
  <2>2. QuoteOK(r)
    BY <1>1 DEF QuoteOK, Quote, Notes, Statuses
  <2> QED BY <1>1, <1>2, <2>1, <2>2 DEF Quote, Known
<1>8. CASE Release(i)
  <2> DEFINE r == [q EXCEPT !.status = "SUCCESS"]
  <2>1. QuoteOK(r) /\ Update(i, r)
    BY <1>1, <1>8 DEF QuoteOK, Quote, Statuses, Release
  <2> QED BY <1>1, <1>2, <2>1 DEF Quote, Known
<1>9. CASE GiveUp(i)
  <2> DEFINE r == [q EXCEPT !.status = "FAILED"]
  <2>1. Update(i, r) /\ q.status # "SUCCESS"
    BY <1>9 DEF GiveUp, TerminalStatuses
  <2>2. QuoteOK(r)
    BY <1>1, <2>1 DEF QuoteOK, Quote, Statuses
  <2> QED BY <1>1, <1>2, <2>1, <2>2 DEF Quote, Known
<1> QED BY <1>3, <1>4, <1>5, <1>6, <1>7, <1>8, <1>9 DEF World

\* Every step of the programs and of the world is a step of the quotes, or adds one.
LEMMA QuotesMove ==
    ASSUME QuotesOK, Positions, Funded, NextSwap
    PROVE  CreateQuoteFor \/ QuotesStep
<1>1. CASE UNCHANGED quotes
  BY <1>1, NoneFollows
<1>2. CASE Send
  BY <1>2, SendQuotes
<1>3. CASE SendFails
  BY <1>3, SendFailsQuotes
<1>4. CASE RecordDeposit \/ RecordFails
  BY <1>4, RecordQuotes
<1>5. CASE SubmitClaim
  BY <1>5, SubmitClaimQuotes
<1>6. CASE SubmitNote
  BY <1>6, SubmitNoteQuotes
<1>7. CASE \E i \in DOMAIN quotes : World(i)
  BY <1>7, WorldQuotes
<1> QED BY <1>1, <1>2, <1>3, <1>4, <1>5, <1>6, <1>7
        DEF NextSwap, World, QuoteFails, Confirm, ConfirmFails, Poll, PollFails, ClaimDone,
            ClaimFails, ClaimWaitFails, NoteDone, NoteFails


-----------------------------------------------------------------------------
\* What follows for the wallet, and for what was claimed and spent.

\* The wallet stays the wallet, what is known, done or claimed stays so, and what a quote is
\* paid from does not change.
LEMMA Stays ==
    ASSUME QuotesOK, QuotesStep
    PROVE  /\ \A w : IsWallet(w)' <=> IsWallet(w)
           /\ \A i \in DOMAIN quotes : ~((Send \/ SendFails) /\ i = Latest) =>
                /\ Known(quotes[i]) => Known(quotes'[i])
                /\ Done(quotes[i]) => Done(quotes'[i])
           /\ \A i \in DOMAIN quotes : quotes'[i].leg = quotes[i].leg /\ quotes'[i].from = quotes[i].from
           /\ \A w : Claimed(w) => Claimed(w)'
           /\ \A w : Unspent(w)' <=> Unspent(w)
<1>1. /\ DOMAIN quotes' = DOMAIN quotes
      /\ \A i \in DOMAIN quotes :
           Follows(i) /\ quotes'[i].leg = quotes[i].leg /\ quotes'[i].from = quotes[i].from
  BY DEF QuotesStep, Follows
<1>2. ASSUME NEW w
      PROVE  IsWallet(w)' <=> IsWallet(w)
  BY <1>1 DEF IsWallet
<1>3. ASSUME NEW i \in DOMAIN quotes, ~((Send \/ SendFails) /\ i = Latest)
      PROVE  /\ Known(quotes[i]) => Known(quotes'[i])
             /\ Done(quotes[i]) => Done(quotes'[i])
  BY <1>1, <1>3 DEF Follows, Done
<1>4. ASSUME NEW w, Claimed(w)
      PROVE  Claimed(w)'
  BY <1>1, <1>4 DEF Claimed, Follows
<1>5. ASSUME NEW w
      PROVE  Unspent(w)' <=> Unspent(w)
  BY <1>1 DEF Unspent, Spends
<1> QED BY <1>1, <1>2, <1>3, <1>4, <1>5


-----------------------------------------------------------------------------
\* The programs, step by step.

UserInv == QuotesOK /\ Positions /\ Funded /\ Spending /\ Running

\* An error ends the runner; the demo goes back to the quote, or to a claim of a wallet.
LEMMA ErrGoes ==
    ASSUME Positions, Err
    PROVE  /\ UNCHANGED attempt
           /\ \/ program = "e2e" /\ at' = "failed" /\ UNCHANGED leg
              \/ /\ program # "e2e" /\ leg' \in {"inbound", "funding"}
                 /\ \/ at' = "quote"
                    \/ /\ at' = "claim" /\ (at \in {"claim", "claimWait"} \/ leg = "outbound")
                       /\ leg' = WalletLeg
BY DEF Positions, Err, WalletLeg, Legs

\* What is spent stays spent once.
LEMMA KeptStays ==
    ASSUME QuotesOK, Kept, QuotesStep
    PROVE  Kept'
<1>1. DOMAIN quotes' = DOMAIN quotes
  BY DEF QuotesStep
<1>2. /\ \A i \in DOMAIN quotes : quotes'[i].leg = quotes[i].leg /\ quotes'[i].from = quotes[i].from
      /\ \A w : Claimed(w) => Claimed(w)'
  BY Stays
<1>3. ASSUME NEW i \in DOMAIN quotes', quotes'[i].leg = "outbound"
      PROVE  Claimed(quotes[i].from)'
  <2>1. Claimed(quotes[i].from)
    BY <1>1, <1>2, <1>3 DEF Kept
  <2>2. quotes'[i].from = quotes[i].from
    BY <1>1, <1>2
  <2> QED BY <1>2, <2>1, <2>2 DEF Claimed
<1>4. ASSUME NEW i \in DOMAIN quotes', NEW j \in DOMAIN quotes',
             quotes'[i].leg = "outbound", Spends(j, quotes[i].from)'
      PROVE  i = j
  BY <1>1, <1>2, <1>4 DEF Kept, Spends
<1> QED BY <1>3, <1>4 DEF Kept

\* What a step of the quotes alone leaves of the wallets.
LEMMA SpendingKeeps ==
    ASSUME QuotesOK, Spending, QuotesStep,
           leg' = "outbound" /\ at' = "quote" => leg = "outbound" /\ at = "quote",
           at' = "claimWait" => at = "claimWait"
    PROVE  Spending'
<1>1. Kept'
  BY KeptStays DEF Spending
<1>2. /\ DOMAIN quotes' = DOMAIN quotes
      /\ \A w : IsWallet(w)' <=> IsWallet(w)
      /\ \A w : Claimed(w) => Claimed(w)'
      /\ \A w : Unspent(w)' <=> Unspent(w)
  BY Stays DEF QuotesStep
<1>3. ASSUME NEW w \in DOMAIN quotes', IsWallet(w)'
      PROVE  /\ leg' = "outbound" /\ at' = "quote" => Claimed(w)' /\ Unspent(w)'
             /\ at' = "claimWait" => Unspent(w)'
  BY <1>2, <1>3 DEF Spending
<1> QED BY <1>1, <1>3 DEF Spending

\* After an error.
LEMMA ErrKeeps ==
    ASSUME UserInv, Err, UNCHANGED program, QuotesStep, at = "send" \/ ~(Send \/ SendFails)
    PROVE  UserInv'
<1> USE DEF UserInv
<1>1. /\ UNCHANGED attempt
      /\ \/ program = "e2e" /\ at' = "failed" /\ leg' = leg
         \/ /\ program # "e2e" /\ leg' \in {"inbound", "funding"}
            /\ \/ at' = "quote"
               \/ /\ at' = "claim" /\ (at \in {"claim", "claimWait"} \/ leg = "outbound")
                  /\ leg' = WalletLeg
  BY ErrGoes
<1>2. QuotesOK'
  BY DEF QuotesStep
<1>3. Positions'
  BY <1>1 DEF Positions, Legs
<1>4. Funded'
  <2>1. SUFFICES ASSUME at' = "claim" \/ leg' = "outbound"
                 PROVE  \E w \in DOMAIN quotes' :
                            IsWallet(w)' /\ Known(quotes'[w]) /\ quotes'[w].leg = WalletLeg'
    BY <1>1 DEF Funded, Known
  <2>2. /\ at \in {"claim", "claimWait"} \/ leg = "outbound"
        /\ WalletLeg' = WalletLeg
    BY <1>1, <2>1 DEF WalletLeg
  <2>3. PICK w \in DOMAIN quotes : IsWallet(w) /\ Known(quotes[w]) /\ quotes[w].leg = WalletLeg
    BY <2>2 DEF Funded
  <2>4. ~(Send \/ SendFails)
    BY <2>2 DEF Positions
  <2> QED BY <2>2, <2>3, <2>4, Stays DEF QuotesStep
<1>5. Spending'
  BY <1>1, SpendingKeeps
<1>6. Running'
  BY <1>1 DEF Running
<1> QED BY <1>2, <1>3, <1>4, <1>5, <1>6


\* The steps that fail.
LEMMA Failures ==
    ASSUME UserInv,
           \/ QuoteFails \/ ConfirmFails \/ PollFails \/ ClaimFails \/ ClaimWaitFails
           \/ NoteFails \/ RecordFails \/ (SendFails /\ Err)
    PROVE  UserInv'
<1>1. Err /\ UNCHANGED program
  BY DEF QuoteFails, ConfirmFails, PollFails, ClaimFails, ClaimWaitFails, NoteFails,
         RecordFails, SendFails
<1>2. QuotesStep
  BY NoneFollows, RecordQuotes, SendFailsQuotes
     DEF UserInv, QuoteFails, ConfirmFails, PollFails, ClaimFails, ClaimWaitFails, NoteFails
<1>3. at = "send" \/ ~(Send \/ SendFails)
  BY DEF Send, SendFails
<1> QED BY <1>1, <1>2, <1>3, ErrKeeps

\* A new quote.
LEMMA CreateKeeps ==
    ASSUME UserInv, CreateQuoteFor
    PROVE  UserInv'
<1> USE DEF UserInv
<1>1. /\ QuotesOK' /\ DOMAIN quotes' = 1..(Latest + 1) /\ Latest' = Latest + 1
      /\ Latest \in Nat /\ DOMAIN quotes = 1..Latest
      /\ quotes'[Latest + 1].leg = leg
      /\ leg = "outbound" => quotes'[Latest + 1].from = Wallet
      /\ quotes'[Latest + 1].taken = 0 /\ quotes'[Latest + 1].lost = 0
      /\ quotes'[Latest + 1].note = "none"
      /\ \A j \in DOMAIN quotes : quotes'[j] = quotes[j]
  BY QuoteAdded
<1>2. /\ at = "quote" /\ UNCHANGED <<program, leg>> /\ attempt' = 0
      /\ at' = IF leg = "outbound" THEN "note" ELSE "send"
  BY DEF CreateQuoteFor
<1>3. /\ Latest + 1 \in DOMAIN quotes' /\ DOMAIN quotes \subseteq DOMAIN quotes'
      /\ \A j \in DOMAIN quotes' : j \in DOMAIN quotes \/ j = Latest + 1
  BY <1>1
<1>4. Positions'
  <2>1. attempt' \in 0..(MaxAttempts - 1)
    BY <1>2, SwapUsersAssumption
  <2>2. Latest' \in DOMAIN quotes' /\ quotes'[Latest'].leg = leg'
    BY <1>1, <1>2, <1>3
  <2>3. quotes'[Latest'].taken <= quotes'[Latest'].lost /\ quotes'[Latest'].note = "none"
    BY <1>1
  <2> QED BY <1>2, <2>1, <2>2, <2>3 DEF Positions
<1>5. Funded'
  <2>1. SUFFICES ASSUME leg = "outbound"
                 PROVE  \E w \in DOMAIN quotes' :
                            IsWallet(w)' /\ Known(quotes'[w]) /\ quotes'[w].leg = WalletLeg'
    BY <1>2 DEF Funded, Known
  <2>2. PICK w \in DOMAIN quotes : IsWallet(w) /\ Known(quotes[w]) /\ quotes[w].leg = WalletLeg
    BY <2>1 DEF Funded
  <2>3. w \in DOMAIN quotes' /\ quotes'[w] = quotes[w]
    BY <1>1, <1>3
  <2>4. quotes'[Latest + 1].leg = "outbound"
    BY <1>1, <2>1
  <2>5. IsWallet(w)'
    BY <1>1, <1>3, <2>2, <2>3, <2>4 DEF IsWallet
  <2> QED BY <1>2, <2>2, <2>3, <2>5 DEF WalletLeg
<1>6. Spending'
  <2> DEFINE n == Latest + 1
  <2>1. leg = "outbound" => Claimed(quotes'[n].from) /\ Unspent(quotes'[n].from)
    <3> SUFFICES ASSUME leg = "outbound"
                 PROVE  Claimed(quotes'[n].from) /\ Unspent(quotes'[n].from)
      OBVIOUS
    <3>1. PICK w \in DOMAIN quotes : IsWallet(w)
      BY DEF Funded
    <3>2. quotes'[n].from = w
      BY <1>1, <3>1, TheWallet
    <3> QED BY <1>2, <3>1, <3>2 DEF Spending
  <2>2. \A w : Claimed(w) => Claimed(w)'
    BY <1>1, <1>3 DEF Claimed
  <2>3. ASSUME NEW i \in DOMAIN quotes', quotes'[i].leg = "outbound"
        PROVE  Claimed(quotes[i].from)'
    <3>1. Claimed(quotes'[i].from)
      BY <1>1, <1>3, <2>1, <2>3 DEF Spending, Kept
    <3> QED BY <2>2, <3>1
  <2>4. ASSUME NEW i \in DOMAIN quotes', NEW j \in DOMAIN quotes',
               quotes'[i].leg = "outbound", Spends(j, quotes[i].from)'
        PROVE  i = j
    <3>1. quotes'[j].leg = "outbound" /\ quotes'[j].from = quotes'[i].from
      BY <2>4 DEF Spends
    <3>2. CASE i \in DOMAIN quotes /\ j \in DOMAIN quotes
      BY <1>1, <2>4, <3>1, <3>2 DEF Spending, Kept, Spends
    <3>3. CASE i = n /\ j \in DOMAIN quotes
      BY <1>1, <2>1, <2>4, <3>1, <3>3 DEF Unspent, Spends
    <3>4. CASE j = n /\ i \in DOMAIN quotes
      BY <1>1, <2>1, <2>4, <3>1, <3>4 DEF Unspent, Spends
    <3> QED BY <1>3, <3>2, <3>3, <3>4
  <2>5. at' # "quote" /\ at' # "claimWait"
    BY <1>2
  <2> QED BY <2>3, <2>4, <2>5 DEF Spending, Kept
<1>7. Running'
  <2>1. SUFFICES ASSUME program = "e2e"
                 PROVE  \A i \in DOMAIN quotes' : i < Latest' => Done(quotes'[i])
    BY <1>2 DEF Running, Done, Known
  <2>2. \A i \in DOMAIN quotes : Done(quotes[i]) /\ quotes'[i] = quotes[i]
    BY <1>1, <1>2, <2>1 DEF Running
  <2>3. \A i \in DOMAIN quotes' : i < Latest' => i \in DOMAIN quotes
    BY <1>1
  <2> QED BY <2>2, <2>3
<1> QED BY <1>1, <1>4, <1>5, <1>6, <1>7

\* The latest quote is the wallet, when it is one.
LEMMA LatestIsWallet ==
    ASSUME QuotesOK, Latest \in DOMAIN quotes, quotes[Latest].leg # "outbound"
    PROVE  IsWallet(Latest)
<1>1. DOMAIN quotes = 1..Latest /\ Latest \in Nat
  BY Indices
<1>2. \A j \in DOMAIN quotes : j <= Latest
  BY <1>1
<1> QED BY <1>2 DEF IsWallet

\* Sending, confirming and recording a deposit.
LEMMA PayingKeeps ==
    ASSUME UserInv, Send \/ (SendFails /\ ~Err) \/ Confirm \/ RecordDeposit
    PROVE  UserInv'
<1> USE DEF UserInv
<1>1. /\ UNCHANGED <<program, leg>>
      /\ \/ Send /\ at = "send" /\ at' = "confirm" /\ attempt' = attempt
         \/ /\ SendFails /\ at = "send" /\ at' = "send" /\ attempt' = attempt + 1
            /\ attempt + 1 < Attempts
         \/ /\ Confirm /\ at = "confirm" /\ at' = "record" /\ attempt' = attempt
            /\ quotes[Latest].hash \in quotes[Latest].landed /\ UNCHANGED quotes
         \/ /\ RecordDeposit /\ at = "record" /\ attempt' = attempt
            /\ at' = IF program = "e2e" THEN "poll" ELSE "claim"
  BY DEF Send, SendFails, Confirm, HasConfirmations, RecordDeposit, Goto
<1>2. /\ QuotesStep /\ (SendFails => quotes'[Latest].taken <= quotes'[Latest].lost)
      /\ RecordDeposit => Known(quotes'[Latest])
  BY <1>1, NoneFollows, SendQuotes, SendFailsQuotes, RecordQuotes
<1>3. /\ QuotesOK' /\ DOMAIN quotes' = DOMAIN quotes /\ Latest' = Latest
      /\ \A i \in DOMAIN quotes : quotes'[i].leg = quotes[i].leg
  BY <1>2 DEF QuotesStep, Follows
<1>4. leg \in Legs /\ leg # "outbound" /\ Latest \in DOMAIN quotes /\ quotes[Latest].leg = leg
  BY <1>1 DEF Positions
<1>5. Positions'
  <2>1. attempt' \in 0..(MaxAttempts - 1)
    BY <1>1, SwapUsersAssumption DEF Positions, Attempts
  <2>2. at' = "record" => quotes'[Latest'].hash \in quotes'[Latest'].landed
    BY <1>1, <1>3
  <2>3. at' = "send" => quotes'[Latest'].taken <= quotes'[Latest'].lost
    BY <1>1, <1>2, <1>3
  <2>4. /\ leg' \in Legs /\ leg' # "outbound"
        /\ at' \in {"send", "confirm", "record", "poll", "claim"}
        /\ Latest' \in DOMAIN quotes' /\ quotes'[Latest'].leg = leg'
    BY <1>1, <1>3, <1>4 DEF Positions
  <2> QED BY <2>1, <2>2, <2>3, <2>4 DEF Positions
<1>6. Funded'
  <2>1. SUFFICES ASSUME at' \in {"poll", "claim"}
                 PROVE  \E w \in DOMAIN quotes' :
                            IsWallet(w)' /\ Known(quotes'[w]) /\ quotes'[w].leg = WalletLeg'
    BY <1>1, <1>4 DEF Funded, Known
  <2>2. Known(quotes'[Latest])
    BY <1>1, <1>2, <2>1
  <2>3. IsWallet(Latest)
    BY <1>4, LatestIsWallet
  <2>4. IsWallet(Latest)'
    BY <1>3, <2>3 DEF IsWallet
  <2> QED BY <1>1, <1>3, <1>4, <2>2, <2>4 DEF WalletLeg
<1>7. Spending'
  BY <1>1, <1>2, <1>4, SpendingKeeps
<1>8. Running'
  <2>1. SUFFICES ASSUME program = "e2e"
                 PROVE  \A i \in DOMAIN quotes' : i < Latest' => Done(quotes'[i])
    BY <1>1, <1>4 DEF Running, Done, Known
  <2>2. \A i \in DOMAIN quotes : i < Latest => Done(quotes[i])
    BY <1>1, <2>1 DEF Running
  <2>3. \A i \in DOMAIN quotes : i < Latest => i # Latest
    BY Indices
  <2> QED BY <1>2, <1>3, <2>2, <2>3, Stays
<1> QED BY <1>3, <1>5, <1>6, <1>7, <1>8


\* The poll ends with the quote's success.
LEMMA PollKeeps ==
    ASSUME UserInv, Poll
    PROVE  UserInv'
<1> USE DEF UserInv
<1>1. /\ at = "poll" /\ quotes[Latest].status = "SUCCESS"
      /\ UNCHANGED <<program, leg, attempt, quotes>>
      /\ at' = IF leg = "outbound" THEN "report" ELSE "claim"
  BY DEF Poll, Polled, Goto
<1>2. QuotesStep /\ QuotesOK' /\ Latest' = Latest
  BY <1>1, NoneFollows DEF QuotesStep
<1>3. Positions'
  BY <1>1, <1>2 DEF Positions
<1>4. Funded'
  BY <1>1 DEF Funded, IsWallet, Known, WalletLeg
<1>5. Spending'
  BY <1>1, <1>2, SpendingKeeps
<1>6. Running'
  <2>1. SUFFICES ASSUME program = "e2e"
                 PROVE  Running'
    BY <1>1 DEF Running
  <2>2. /\ \A i \in DOMAIN quotes : i < Latest => Done(quotes[i])
        /\ Latest \in DOMAIN quotes /\ quotes[Latest].leg = leg
    BY <1>1, <2>1 DEF Running, Positions
  <2>3. CASE leg = "outbound"
    <3>1. Done(quotes[Latest])
      BY <1>1, <2>1, <2>2, <2>3 DEF Running, Done
    <3>2. \A i \in DOMAIN quotes : i < Latest \/ i = Latest
      BY Indices
    <3>3. \A i \in DOMAIN quotes' : Done(quotes'[i])
      BY <1>1, <2>2, <3>1, <3>2
    <3> QED BY <1>1, <2>3, <3>3 DEF Running, Done, Known
  <2>4. CASE leg # "outbound"
    BY <1>1, <1>2, <2>2, <2>4 DEF Running, Done, Known
  <2> QED BY <2>3, <2>4
<1> QED BY <1>2, <1>3, <1>4, <1>5, <1>6

\* A claim is sent for a note that is there, which is one that was not claimed.
LEMMA SubmitClaimKeeps ==
    ASSUME UserInv, SubmitClaim
    PROVE  UserInv'
<1> USE DEF UserInv
<1>1. /\ at = "claim" /\ at' = "claimWait" /\ UNCHANGED <<program, leg, attempt>>
      /\ quotes[Wallet].note = "there"
  BY DEF SubmitClaim, Goto
<1>2. QuotesStep /\ ~(Send \/ SendFails)
  BY <1>1, SubmitClaimQuotes DEF Send, SendFails
<1>3. /\ QuotesOK' /\ DOMAIN quotes' = DOMAIN quotes /\ Latest' = Latest
      /\ \A i \in DOMAIN quotes : quotes'[i].leg = quotes[i].leg
  BY <1>2 DEF QuotesStep, Follows
<1>4. PICK w \in DOMAIN quotes : IsWallet(w) /\ Known(quotes[w]) /\ quotes[w].leg = WalletLeg
  BY <1>1 DEF Funded
<1>5. Wallet = w
  BY <1>4, TheWallet
<1>6. Positions'
  BY <1>1, <1>3 DEF Positions
<1>7. Funded'
  <2>1. /\ IsWallet(w)' /\ Known(quotes'[w]) /\ w \in DOMAIN quotes'
        /\ quotes'[w].leg = WalletLeg'
    BY <1>1, <1>2, <1>3, <1>4, Stays DEF WalletLeg
  <2> QED BY <2>1 DEF Funded, Known
<1>8. Spending'
  <2>1. \A v \in DOMAIN quotes : IsWallet(v) => v = w
    BY <1>5, TheWallet
  <2>2. Unspent(w)
    <3>1. ~Claimed(w)
      BY <1>1, <1>5 DEF Claimed
    <3> QED BY <3>1 DEF Spending, Kept, Unspent, Spends
  <2>3. /\ \A v : IsWallet(v)' <=> IsWallet(v)
        /\ \A v : Unspent(v)' <=> Unspent(v)
    BY <1>2, Stays
  <2>4. \A v \in DOMAIN quotes' : IsWallet(v)' => Unspent(v)'
    BY <1>3, <2>1, <2>2, <2>3
  <2>5. Kept'
    BY <1>2, KeptStays DEF Spending
  <2> QED BY <1>1, <2>4, <2>5 DEF Spending
<1>9. Running'
  <2>1. SUFFICES ASSUME program = "e2e"
                 PROVE  /\ \A i \in DOMAIN quotes' : i < Latest' => Done(quotes'[i])
                        /\ Latest' \in DOMAIN quotes' /\ quotes'[Latest'].leg # "outbound"
    BY <1>1 DEF Running, Done, Known
  <2>2. /\ \A i \in DOMAIN quotes : i < Latest => Done(quotes[i])
        /\ Latest \in DOMAIN quotes /\ quotes[Latest].leg # "outbound"
    BY <1>1, <2>1 DEF Running
  <2> QED BY <1>2, <1>3, <2>2, Stays
<1> QED BY <1>3, <1>6, <1>7, <1>8, <1>9

\* The claim is committed: the wallet is claimed, and not spent yet.
LEMMA ClaimDoneKeeps ==
    ASSUME UserInv, ClaimDone
    PROVE  UserInv'
<1> USE DEF UserInv
<1>1. /\ at = "claimWait" /\ at' = "quote" /\ UNCHANGED <<program, attempt, quotes>>
      /\ quotes[Wallet].note = "committed"
      /\ leg' = IF leg = "inbound" THEN "funding" ELSE "outbound"
  BY DEF ClaimDone
<1>2. QuotesStep /\ QuotesOK' /\ Latest' = Latest
  BY <1>1, NoneFollows DEF QuotesStep
<1>3. PICK w \in DOMAIN quotes : IsWallet(w) /\ Known(quotes[w]) /\ quotes[w].leg = WalletLeg
  BY <1>1 DEF Funded
<1>4. Wallet = w
  BY <1>3, TheWallet
<1>5. Positions'
  BY <1>1, <1>2 DEF Positions, Legs
<1>9. leg' = "outbound" => quotes[w].leg = "funding"
  BY <1>1, <1>3 DEF WalletLeg, Positions, Legs, IsWallet
<1>6. Funded'
  BY <1>1, <1>3, <1>9 DEF Funded, IsWallet, Known, WalletLeg
<1>7. Spending'
  <2>1. \A v \in DOMAIN quotes : IsWallet(v) => v = w
    BY <1>4, TheWallet
  <2>2. Unspent(w) /\ (leg' = "outbound" => Claimed(w))
    BY <1>1, <1>3, <1>4, <1>9 DEF Spending, Claimed
  <2>3. /\ DOMAIN quotes' = DOMAIN quotes
        /\ \A v : IsWallet(v)' <=> IsWallet(v)
        /\ \A v : Unspent(v)' <=> Unspent(v)
        /\ \A v : Claimed(v) => Claimed(v)'
    BY <1>2, Stays DEF QuotesStep
  <2>4. \A v \in DOMAIN quotes' : IsWallet(v)' =>
           Unspent(v)' /\ (leg' = "outbound" => Claimed(v)')
    BY <2>1, <2>2, <2>3
  <2>5. Kept'
    BY <1>2, KeptStays DEF Spending
  <2> QED BY <1>1, <2>4, <2>5 DEF Spending
<1>8. Running'
  <2>1. SUFFICES ASSUME program = "e2e"
                 PROVE  Running'
    BY <1>1 DEF Running
  <2>2. /\ \A i \in DOMAIN quotes : i < Latest => Done(quotes[i])
        /\ Latest \in DOMAIN quotes /\ quotes[Latest].leg # "outbound"
    BY <1>1, <2>1 DEF Running
  <2>3. w = Latest
    BY <1>4, <2>2, LatestIsWallet, TheWallet
  <2>4. QuoteOK(quotes[w]) /\ quotes[w].leg # "outbound" /\ quotes[w].note = "committed"
    BY <1>1, <1>3, <1>4, Indices DEF IsWallet
  <2>5. Done(quotes[Latest])
    BY <1>3, <2>3, <2>4 DEF Done, QuoteOK
  <2>6. \A i \in DOMAIN quotes : i < Latest \/ i = Latest
    BY Indices
  <2>7. \A i \in DOMAIN quotes' : Done(quotes'[i])
    BY <1>1, <2>2, <2>5, <2>6
  <2> QED BY <1>1, <2>7 DEF Running, Done, Known
<1> QED BY <1>2, <1>5, <1>6, <1>7, <1>8

\* The bridge-out note.
LEMMA NoteKeeps ==
    ASSUME UserInv, SubmitNote \/ NoteDone
    PROVE  UserInv'
<1> USE DEF UserInv
<1>1. /\ UNCHANGED <<program, leg, attempt>>
      /\ \/ SubmitNote /\ at = "note" /\ at' = "noteWait"
         \/ /\ NoteDone /\ at = "noteWait" /\ UNCHANGED quotes
            /\ quotes[Latest].note = "committed"
            /\ at' = IF program = "e2e" THEN "poll" ELSE "report"
  BY DEF SubmitNote, NoteDone, Goto
<1>2. QuotesStep /\ ~(Send \/ SendFails)
  BY <1>1, NoneFollows, SubmitNoteQuotes DEF Send, SendFails
<1>3. /\ QuotesOK' /\ DOMAIN quotes' = DOMAIN quotes /\ Latest' = Latest
      /\ \A i \in DOMAIN quotes : quotes'[i].leg = quotes[i].leg
  BY <1>2 DEF QuotesStep, Follows
<1>4. leg = "outbound" /\ Latest \in DOMAIN quotes
  BY <1>1 DEF Positions
<1>5. Positions'
  BY <1>1, <1>3 DEF Positions
<1>6. Funded'
  <2>1. PICK w \in DOMAIN quotes : IsWallet(w) /\ Known(quotes[w]) /\ quotes[w].leg = WalletLeg
    BY <1>4 DEF Funded
  <2>2. /\ IsWallet(w)' /\ Known(quotes'[w]) /\ w \in DOMAIN quotes'
        /\ quotes'[w].leg = WalletLeg'
    BY <1>1, <1>2, <1>3, <2>1, Stays DEF WalletLeg
  <2> QED BY <2>2 DEF Funded, Known
<1>7. Spending'
  BY <1>1, <1>2, SpendingKeeps
<1>8. Running'
  <2>1. SUFFICES ASSUME program = "e2e"
                 PROVE  /\ \A i \in DOMAIN quotes' : i < Latest' => Done(quotes'[i])
                        /\ at' = "poll" => quotes'[Latest'].note = "committed"
    BY <1>1 DEF Running, Done, Known
  <2>2. \A i \in DOMAIN quotes : i < Latest => Done(quotes[i])
    BY <1>1, <2>1 DEF Running
  <2> QED BY <1>1, <1>2, <1>3, <2>2, Stays
<1> QED BY <1>3, <1>5, <1>6, <1>7, <1>8

\* The chains and the bridge move while the program is where it is.
LEMMA WorldKeeps ==
    ASSUME UserInv, NEW k \in DOMAIN quotes, World(k)
    PROVE  UserInv'
<1> USE DEF UserInv
<1>1. UNCHANGED <<program, leg, at, attempt>>
  BY DEF World, LandPayment, FindDeposit, CommitNote, DiscardNote, Deliver, Release, GiveUp,
         Update
<1>2. QuotesStep
  BY WorldQuotes
<1>3. ~SubmitNote /\ ~(Send \/ SendFails)
  BY <1>1, ErrGoes DEF SubmitNote, Send, SendFails, Goto, Positions, Err
<1>4. /\ QuotesOK' /\ DOMAIN quotes' = DOMAIN quotes /\ Latest' = Latest
      /\ \A i \in DOMAIN quotes : Follows(i)
  BY <1>2 DEF QuotesStep
<1>5. \A i \in DOMAIN quotes :
         /\ quotes'[i].leg = quotes[i].leg
         /\ quotes'[i].taken = quotes[i].taken /\ quotes'[i].lost = quotes[i].lost
         /\ quotes'[i].hash = quotes[i].hash /\ quotes[i].landed \subseteq quotes'[i].landed
         /\ quotes[i].note = "committed" => quotes'[i].note = "committed"
         /\ quotes[i].leg = "outbound" /\ quotes[i].note = "none" => quotes'[i].note = "none"
  BY <1>3, <1>4 DEF Follows
<1>6. Positions'
  BY <1>1, <1>4, <1>5 DEF Positions
<1>7. Funded'
  <2>1. SUFFICES ASSUME at \in {"claim", "claimWait", "poll"} \/ leg = "outbound"
                 PROVE  \E w \in DOMAIN quotes' :
                            IsWallet(w)' /\ Known(quotes'[w]) /\ quotes'[w].leg = WalletLeg'
    BY <1>1 DEF Funded, Known
  <2>2. PICK w \in DOMAIN quotes : IsWallet(w) /\ Known(quotes[w]) /\ quotes[w].leg = WalletLeg
    BY <2>1 DEF Funded
  <2> QED BY <1>1, <1>2, <1>3, <1>4, <2>2, Stays DEF WalletLeg
<1>8. Spending'
  BY <1>1, <1>2, <1>3, SpendingKeeps
<1>9. Running'
  <2>1. \A i \in DOMAIN quotes : Done(quotes[i]) => Done(quotes'[i])
    BY <1>2, <1>3, Stays
  <2>2. at = "poll" => Latest \in DOMAIN quotes
    BY DEF Positions
  <2> HIDE DEF UserInv
  <2>3. program = "e2e" /\ at # "failed" =>
          /\ \A i \in DOMAIN quotes' : i < Latest' => Done(quotes'[i])
          /\ at \in {"quote", "report"} => \A i \in DOMAIN quotes' : Done(quotes'[i])
          /\ at \in {"claim", "claimWait"} => Latest' \in DOMAIN quotes' /\ quotes'[Latest'].leg # "outbound"
          /\ at = "poll" /\ leg = "outbound" => quotes'[Latest'].note = "committed"
    BY <1>4, <1>5, <2>1, <2>2 DEF Running, UserInv
  <2> QED BY <1>1, <2>3 DEF Running, Done, Known
<1> QED BY <1>4, <1>6, <1>7, <1>8, <1>9


\* Every step of the programs keeps the five.
LEMMA SwapKeeps ==
    ASSUME UserInv, NextSwap
    PROVE  UserInv'
<1>1. CASE CreateQuoteFor
  BY <1>1, CreateKeeps
<1>2. CASE Send \/ (SendFails /\ ~Err) \/ Confirm \/ RecordDeposit
  BY <1>2, PayingKeeps
<1>3. CASE \/ QuoteFails \/ ConfirmFails \/ PollFails \/ ClaimFails \/ ClaimWaitFails
           \/ NoteFails \/ RecordFails \/ (SendFails /\ Err)
  BY <1>3, Failures
<1>4. CASE Poll
  BY <1>4, PollKeeps
<1>5. CASE SubmitClaim
  BY <1>5, SubmitClaimKeeps
<1>6. CASE ClaimDone
  BY <1>6, ClaimDoneKeeps
<1>7. CASE SubmitNote \/ NoteDone
  BY <1>7, NoteKeeps
<1>8. CASE \E i \in DOMAIN quotes : World(i)
  BY <1>8, WorldKeeps
<1> QED BY <1>1, <1>2, <1>3, <1>4, <1>5, <1>6, <1>7, <1>8 DEF NextSwap, World

\* Nothing happens to the programs.
LEMMA SwapIdle ==
    ASSUME UserInv, UNCHANGED swapVars
    PROVE  UserInv'
<1> USE DEF UserInv
<1>1. /\ program' = program /\ leg' = leg /\ at' = at /\ attempt' = attempt
      /\ quotes' = quotes
  BY DEF swapVars
<1>2. QuotesStep
  BY <1>1, NoneFollows
<1>3. Latest' = Latest
  BY <1>2 DEF QuotesStep
<1>4. QuotesOK'
  BY <1>2 DEF QuotesStep
<1>5. Positions'
  BY <1>1, <1>3 DEF Positions
<1>6. Funded'
  BY <1>1 DEF Funded, IsWallet, Known, WalletLeg
<1>8. Spending'
  BY <1>1, <1>2, SpendingKeeps
<1>9. Running'
  BY <1>1, <1>3 DEF Running, Done, Known
<1> QED BY <1>4, <1>5, <1>6, <1>8, <1>9

-----------------------------------------------------------------------------
\* The AggLayer helper.

PlanOK == plan = NoPlan \/ (plan.asked \in {"deposit", "withdraw"} /\ plan.text \in Texts)

AggInv == RowsOK /\ ClaimsOK /\ PlanOK

\* What a deposit starts with.
LEMMA NewRowIs ==
    ASSUME NEW row \in NewRows
    PROVE  /\ row \in Rows /\ row.stage = "bridged"
           /\ [row EXCEPT !.stage = "bridged"] = row
<1>1. \/ row = [net |-> "miden", dest |-> "l1", sound |-> TRUE, stage |-> "bridged"]
      \/ row = [net |-> "miden", dest |-> "l1", sound |-> FALSE, stage |-> "bridged"]
      \/ row = [net |-> "l1", dest |-> "miden", sound |-> TRUE, stage |-> "bridged"]
  BY DEF NewRows, Row
<1>2. row \in Rows /\ row.stage = "bridged"
  <2>1. CASE row = [net |-> "miden", dest |-> "l1", sound |-> TRUE, stage |-> "bridged"]
    BY <2>1 DEF Rows, Stages
  <2>2. CASE row = [net |-> "miden", dest |-> "l1", sound |-> FALSE, stage |-> "bridged"]
    BY <2>2 DEF Rows, Stages
  <2>3. CASE row = [net |-> "l1", dest |-> "miden", sound |-> TRUE, stage |-> "bridged"]
    BY <2>3 DEF Rows, Stages
  <2> QED BY <1>1, <2>1, <2>2, <2>3
<1>3. [row EXCEPT !.stage = "bridged"] = row
  BY <1>2 DEF Rows
<1> QED BY <1>2, <1>3

\* A claim on its way is a record.
LEMMA ClaimIs ==
    ASSUME ClaimsOK, NEW c \in Claimers
    PROVE  /\ claim[c] \in Claims
           /\ claim[c].at # "idle" => claim[c].at \in {"proof", "planned"}
           /\ claim[c].at \in {"proof", "planned"} =>
                claim[c] \in [at : {"proof", "planned"}, count : Nat, row : Nat, shown : BOOLEAN]
BY DEF ClaimsOK, Claims, NoClaim

\* Rows are added at the end, and one of them goes on to a later stage.
LEMMA RowsStep ==
    ASSUME RowsOK, ClaimsOK, UNCHANGED claim,
           /\ rows' \in Seq(Rows) /\ Len(rows') <= MaxRows
           /\ DOMAIN rows \subseteq DOMAIN rows'
           /\ \A i \in DOMAIN rows' : [rows'[i] EXCEPT !.stage = "bridged"] \in NewRows
           /\ \A i \in DOMAIN rows :
                /\ rows'[i].dest = rows[i].dest
                /\ rows[i].stage # "bridged" => rows'[i].stage \in {"ready", "claimed", "indexed"}
    PROVE  RowsOK' /\ ClaimsOK'
<1>1. RowsOK'
  BY DEF RowsOK, Rows, Stages, NewRows, Row
<1>2. ClaimsOK'
  BY DEF ClaimsOK, Claims, NoClaim
<1> QED BY <1>1, <1>2

\* A deposit bridges.
LEMMA BridgeDepositKeeps ==
    ASSUME AggInv, NEW row \in NewRows, BridgeDeposit(row)
    PROVE  RowsOK' /\ ClaimsOK'
<1> USE DEF AggInv
<1>1. /\ Len(rows) < MaxRows /\ rows' = Append(rows, row) /\ claim' = claim
      /\ rows \in Seq(Rows) /\ row \in Rows
  BY NewRowIs DEF BridgeDeposit, RowsOK
<1>2. /\ rows' \in Seq(Rows) /\ Len(rows') = Len(rows) + 1
      /\ \A j \in 1..Len(rows) : rows'[j] = rows[j]
      /\ rows'[Len(rows) + 1] = row
  BY <1>1, AppendProperties
<1>3. /\ DOMAIN rows = 1..Len(rows) /\ DOMAIN rows' = 1..(Len(rows) + 1) /\ Len(rows) \in Nat
  BY <1>1, <1>2, LenProperties
<1>4. MaxRows \in Nat
  BY AggLayerAssumption
<1>5. Len(rows') <= MaxRows /\ DOMAIN rows \subseteq DOMAIN rows'
  BY <1>1, <1>2, <1>3, <1>4
<1>6. \A i \in DOMAIN rows' : [rows'[i] EXCEPT !.stage = "bridged"] \in NewRows
  <2> TAKE i \in DOMAIN rows'
  <2>1. i \in DOMAIN rows \/ i = Len(rows) + 1
    BY <1>3
  <2>2. CASE i \in DOMAIN rows
    BY <1>2, <1>3, <2>2 DEF RowsOK
  <2>3. CASE i = Len(rows) + 1
    <3>1. [row EXCEPT !.stage = "bridged"] \in NewRows
      BY NewRowIs
    <3> QED BY <1>2, <2>3, <3>1
  <2> QED BY <2>1, <2>2, <2>3
<1>7. \A i \in DOMAIN rows :
         /\ rows'[i].dest = rows[i].dest
         /\ rows[i].stage # "bridged" => rows'[i].stage \in {"ready", "claimed", "indexed"}
  <2> TAKE i \in DOMAIN rows
  <2>1. rows'[i] = rows[i] /\ rows[i] \in Rows
    BY <1>1, <1>2, <1>3
  <2> QED BY <2>1 DEF Rows, Stages
<1> QED BY <1>1, <1>2, <1>5, <1>6, <1>7, RowsStep

\* A row's stage changes.
LEMMA StageKeeps ==
    ASSUME RowsOK, ClaimsOK, NEW i \in DOMAIN rows, NEW to \in {"ready", "claimed", "indexed"},
           rows' = [rows EXCEPT ![i].stage = to]
    PROVE  /\ rows' \in Seq(Rows) /\ Len(rows') <= MaxRows /\ DOMAIN rows' = DOMAIN rows
           /\ \A j \in DOMAIN rows' : [rows'[j] EXCEPT !.stage = "bridged"] \in NewRows
           /\ \A j \in DOMAIN rows :
                /\ rows'[j].dest = rows[j].dest
                /\ rows[j].stage # "bridged" => rows'[j].stage \in {"ready", "claimed", "indexed"}
<1> DEFINE r == [rows[i] EXCEPT !.stage = to]
<1>1. rows \in Seq(Rows) /\ DOMAIN rows = 1..Len(rows) /\ Len(rows) <= MaxRows
  BY LenProperties DEF RowsOK
<1>2. rows[i] \in Rows
  BY <1>1
<1>3. r \in Rows
  BY <1>2 DEF Rows, Stages
<1>4. rows' = [rows EXCEPT ![i] = r]
  BY <1>1
<1>5. r.dest = rows[i].dest /\ r.stage = to
  BY <1>2 DEF Rows
<1>6. [r EXCEPT !.stage = "bridged"] = [rows[i] EXCEPT !.stage = "bridged"]
  BY <1>2 DEF Rows
<1>7. [r EXCEPT !.stage = "bridged"] \in NewRows
  BY <1>6 DEF RowsOK
<1> HIDE DEF r
<1>8. /\ rows' \in Seq(Rows) /\ Len(rows') = Len(rows)
      /\ \A j \in 1..Len(rows) : rows'[j] = IF j = i THEN r ELSE rows[j]
  BY <1>1, <1>3, <1>4, ExceptSeq
<1>9. DOMAIN rows' = DOMAIN rows
  BY <1>1, <1>4
<1>10. \A j \in DOMAIN rows' : [rows'[j] EXCEPT !.stage = "bridged"] \in NewRows
  <2> TAKE j \in DOMAIN rows'
  <2>1. CASE j = i
    BY <1>1, <1>7, <1>8, <1>9, <2>1
  <2>2. CASE j # i
    BY <1>1, <1>8, <1>9, <2>2 DEF RowsOK
  <2> QED BY <2>1, <2>2
<1>11. \A j \in DOMAIN rows :
         /\ rows'[j].dest = rows[j].dest
         /\ rows[j].stage # "bridged" => rows'[j].stage \in {"ready", "claimed", "indexed"}
  <2> TAKE j \in DOMAIN rows
  <2>1. rows[j] \in Rows
    BY <1>1
  <2> QED BY <1>1, <1>5, <1>8, <2>1 DEF Rows, Stages
<1> QED BY <1>1, <1>8, <1>9, <1>10, <1>11

\* A claim is asked for a row that is ready, to L1, and not shown as claimed.
LEMMA AskClaimKeeps ==
    ASSUME AggInv, NEW c \in Claimers, NEW count \in AnyCount..MaxRows, AskClaim(c, count)
    PROVE  RowsOK' /\ ClaimsOK'
<1> USE DEF AggInv
<1>1. PICK i \in DOMAIN rows :
         /\ Selected(i, count)
         /\ claim' = [claim EXCEPT ![c] = [at |-> "proof", count |-> count, row |-> i,
                                          shown |-> rows[i].stage = "indexed"]]
  BY DEF AskClaim
<1>2. rows' = rows
  BY DEF AskClaim
<1>3. rows \in Seq(Rows) /\ DOMAIN rows = 1..Len(rows) /\ rows[i] \in Rows /\ i \in Nat
  BY LenProperties DEF RowsOK
<1>4. rows[i].dest = "l1" /\ rows[i].stage # "bridged" /\ rows[i].stage # "indexed"
  BY <1>1 DEF Selected, Eligible, ReadyForClaim, NoClaimHash
<1>5. rows[i].stage \in {"ready", "claimed", "indexed"}
  BY <1>3, <1>4 DEF Rows, Stages
<1>6. (rows[i].stage = "indexed") = FALSE
  BY <1>4
<1>7. count \in Nat
  BY AggLayerAssumption DEF AnyCount
<1> DEFINE r == [at |-> "proof", count |-> count, row |-> i, shown |-> FALSE]
<1>8. claim' = [claim EXCEPT ![c] = r]
  BY <1>1, <1>6
<1>9. r \in Claims
  BY <1>3, <1>7 DEF Claims
<1>10. ClaimsOK'
  BY <1>2, <1>3, <1>4, <1>5, <1>8, <1>9 DEF ClaimsOK, Claims, NoClaim
<1>11. RowsOK'
  BY <1>2 DEF RowsOK, Rows, Stages, NewRows, Row
<1> QED BY <1>10, <1>11

\* The plan is answered, the claim dropped, or broadcast.
LEMMA ClaimerKeeps ==
    ASSUME AggInv, NEW c \in Claimers, AnswerPlan(c) \/ DropClaim(c) \/ Broadcast(c)
    PROVE  RowsOK' /\ ClaimsOK'
<1> USE DEF AggInv
<1>1. /\ claim[c].at # "idle"
      /\ \/ claim' = [claim EXCEPT ![c] = NoClaim]
         \/ claim[c].at = "proof" /\ claim' = [claim EXCEPT ![c] = [@ EXCEPT !.at = "planned"]]
      /\ \/ rows' = rows
         \/ Lands(c) /\ rows' = [rows EXCEPT ![claim[c].row].stage = "claimed"]
  BY DEF AnswerPlan, DropClaim, Broadcast
<1>2. /\ claim \in [Claimers -> Claims] /\ claim[c].at \in {"proof", "planned"}
      /\ claim[c] \in [at : {"proof", "planned"}, count : Nat, row : Nat, shown : BOOLEAN]
      /\ claim[c].row \in DOMAIN rows
  BY <1>1, ClaimIs DEF ClaimsOK
<1>3. /\ rows' \in Seq(Rows) /\ Len(rows') <= MaxRows /\ DOMAIN rows' = DOMAIN rows
      /\ \A j \in DOMAIN rows' : [rows'[j] EXCEPT !.stage = "bridged"] \in NewRows
      /\ \A j \in DOMAIN rows :
           /\ rows'[j].dest = rows[j].dest
           /\ rows[j].stage # "bridged" => rows'[j].stage \in {"ready", "claimed", "indexed"}
  <2>1. CASE rows' = rows
    <3>1. \A j \in DOMAIN rows : rows[j] \in Rows
      BY DEF RowsOK
    <3>2. \A j \in DOMAIN rows :
             rows[j].stage # "bridged" => rows[j].stage \in {"ready", "claimed", "indexed"}
      BY <3>1 DEF Rows, Stages
    <3> QED BY <2>1, <3>2 DEF RowsOK
  <2>2. CASE rows' = [rows EXCEPT ![claim[c].row].stage = "claimed"]
    BY <1>2, <2>2, StageKeeps
  <2> QED BY <1>1, <2>1, <2>2
<1>4. RowsOK'
  BY <1>3 DEF RowsOK, Rows, Stages, NewRows, Row
<1>5. claim' \in [Claimers -> Claims]
  BY <1>1, <1>2 DEF Claims, NoClaim
<1>6. ASSUME NEW d \in Claimers, claim'[d].at \in {"proof", "planned"}
      PROVE  /\ claim'[d].row = claim[d].row /\ claim'[d].shown = claim[d].shown
             /\ claim[d].at \in {"proof", "planned"}
  BY <1>1, <1>2, <1>6 DEF NoClaim
<1>7. ASSUME NEW d \in Claimers, claim'[d].at \in {"proof", "planned"}
      PROVE  /\ claim'[d].row \in DOMAIN rows' /\ rows'[claim'[d].row].dest = "l1"
             /\ rows'[claim'[d].row].stage \in {"ready", "claimed", "indexed"}
             /\ ~claim'[d].shown
  BY <1>3, <1>6, <1>7 DEF ClaimsOK
<1>8. ClaimsOK'
  BY <1>5, <1>7 DEF ClaimsOK, Claims, NoClaim
<1> QED BY <1>4, <1>8

\* The plans and the claims keep what they hold.
LEMMA AggKeeps ==
    ASSUME AggInv, NextPlan \/ NextClaim \/ UNCHANGED aggVars
    PROVE  AggInv'
<1> USE DEF AggInv
<1>1. CASE NextPlan \/ UNCHANGED aggVars
  <2>1. /\ rows' = rows /\ claim' = claim
        /\ \/ plan' = plan
           \/ plan'.asked \in {"deposit", "withdraw"} /\ plan'.text \in Texts
    BY <1>1 DEF NextPlan, PlanDeposit, PlanWithdraw, aggVars
  <2>2. PlanOK'
    BY <2>1 DEF PlanOK, NoPlan
  <2>3. RowsOK'
    BY <2>1 DEF RowsOK, Rows, Stages, NewRows, Row
  <2>4. ClaimsOK'
    BY <2>1 DEF ClaimsOK, Claims, NoClaim
  <2> QED BY <2>2, <2>3, <2>4
<1>2. CASE NextClaim
  <2>1. plan' = plan
    BY <1>2 DEF NextClaim, BridgeDeposit, BecomeReady, IndexClaim, Advance, AskClaim, AnswerPlan,
                DropClaim, Broadcast
  <2>2. PlanOK'
    BY <2>1 DEF PlanOK, NoPlan
  <2>3. CASE \E row \in NewRows : BridgeDeposit(row)
    BY <2>2, <2>3, BridgeDepositKeeps
  <2>4. CASE \E i \in DOMAIN rows : BecomeReady(i) \/ IndexClaim(i)
    <3>1. PICK i \in DOMAIN rows, to \in {"ready", "claimed", "indexed"} :
             rows' = [rows EXCEPT ![i].stage = to] /\ claim' = claim
      BY <2>4 DEF BecomeReady, IndexClaim, Advance
    <3>2. RowsOK' /\ ClaimsOK'
      BY <3>1, StageKeeps, RowsStep
    <3> QED BY <2>2, <3>2
  <2>5. CASE \E c \in Claimers : \/ \E count \in AnyCount..MaxRows : AskClaim(c, count)
                                 \/ AnswerPlan(c) \/ DropClaim(c) \/ Broadcast(c)
    BY <2>2, <2>5, AskClaimKeeps, ClaimerKeeps
  <2> QED BY <1>2, <2>3, <2>4, <2>5 DEF NextClaim
<1> QED BY <1>1, <1>2


-----------------------------------------------------------------------------
\* The invariant, and what follows from it.

IInv == UserInv /\ AggInv

\* It holds at the start.
LEMMA InitHolds ==
    ASSUME Init
    PROVE  IInv
<1>1. /\ leg \in {"inbound", "funding"} /\ at = "quote" /\ attempt = 0 /\ quotes = <<>>
      /\ rows = <<>> /\ claim = [c \in Claimers |-> NoClaim] /\ plan = NoPlan
  BY DEF Init, InitSwapUsers, InitAggLayer
<1>2. DOMAIN quotes = {} /\ Len(quotes) = 0 /\ quotes \in Seq(Quote)
  BY <1>1, EmptySeq
<1>3. DOMAIN rows = {} /\ Len(rows) = 0 /\ rows \in Seq(Rows)
  BY <1>1, EmptySeq
<1>4. QuotesOK /\ Positions /\ Funded /\ Running
  BY <1>1, <1>2, SwapUsersAssumption DEF QuotesOK, Positions, Funded, Running, Legs
<1>5. Spending
  BY <1>2 DEF Spending, Kept
<1>6. RowsOK
  BY <1>3, AggLayerAssumption DEF RowsOK
<1>7. ClaimsOK /\ PlanOK
  BY <1>1 DEF ClaimsOK, PlanOK, Claims, NoClaim
<1> QED BY <1>4, <1>5, <1>6, <1>7 DEF IInv, UserInv, AggInv

\* Every step of any of the three keeps it.
LEMMA NextKeeps ==
    ASSUME IInv, [Next]_vars
    PROVE  IInv'
<1>1. CASE Swap
  <2>1. NextSwap /\ UNCHANGED aggVars
    BY <1>1 DEF Swap
  <2> QED BY <2>1, SwapKeeps, AggKeeps DEF IInv
<1>2. CASE Plan \/ Claim \/ UNCHANGED vars
  <2>1. UNCHANGED swapVars /\ (NextPlan \/ NextClaim \/ UNCHANGED aggVars)
    BY <1>2 DEF Plan, Claim, vars
  <2> QED BY <2>1, SwapIdle, AggKeeps DEF IInv
<1> QED BY <1>1, <1>2 DEF Next

\* The five on the programs and the three on the helper hold always.
LEMMA Invariants == Spec => []IInv
<1>1. Init => IInv
  BY InitHolds
<1>2. IInv /\ [Next]_vars => IInv'
  BY NextKeeps
<1> QED BY <1>1, <1>2, PTL DEF Spec

\* The state keeps its type: the payments of a quote are ones the node took, the programs are
\* at one of their steps within their tries, and a claim is for a row there is.
THEOREM TypeCorrect == Spec => []TypeOK
<1>1. IInv => SwapUsersTypeOK
  <2> SUFFICES ASSUME IInv PROVE SwapUsersTypeOK
    OBVIOUS
  <2>1. \A i \in DOMAIN quotes : quotes[i] \in Quote /\ QuoteOK(quotes[i])
    BY Indices DEF IInv, UserInv
  <2>2. \A i \in DOMAIN quotes : quotes[i].leg = "outbound" => quotes[i].from \in DOMAIN quotes
    BY DEF IInv, UserInv, Spending, Kept, Claimed
  <2> QED BY <2>1, <2>2 DEF IInv, UserInv, Positions, QuotesOK, QuoteOK, Quote, Legs, Notes, SwapUsersTypeOK
<1>2. IInv => AggLayerTypeOK
  <2> SUFFICES ASSUME IInv PROVE AggLayerTypeOK
    OBVIOUS
  <2>1. \A i \in DOMAIN rows : rows[i].stage \in {"bridged", "ready", "claimed", "indexed"}
    <3>1. rows \in Seq(Rows)
      BY DEF IInv, AggInv, RowsOK
    <3>2. \A i \in DOMAIN rows : rows[i] \in Rows
      BY <3>1
    <3> QED BY <3>2 DEF Rows, Stages
  <2>2. \A c \in Claimers :
          \/ claim[c] = NoClaim
          \/ claim[c].at \in {"proof", "planned"} /\ claim[c].row \in DOMAIN rows
    BY DEF IInv, AggInv, ClaimsOK, Claims, NoClaim
  <2> QED BY <2>1, <2>2 DEF IInv, AggInv, RowsOK, PlanOK, AggLayerTypeOK
<1> QED BY <1>1, <1>2, Invariants, PTL DEF TypeOK

\* send_native_eth's retries, a repeated start or fund_outbound: a quote is paid once, and
\* once more only for each answer of the node that was lost.
THEOREM OnePaymentPerAnswer == Spec => []PaysOncePerLostAnswer
<1>1. IInv => PaysOncePerLostAnswer
  BY Indices DEF IInv, UserInv, QuoteOK, PaysOncePerLostAnswer
<1> QED BY <1>1, Invariants, PTL

\* A program that claims has its deposit on the chain and on the quote: the wallet is the
\* latest quote into Miden, whichever call was repeated.
THEOREM ClaimedDepositsKnown == Spec => []DepositsAreKnown
<1>1. IInv => DepositsAreKnown
  <2> SUFFICES ASSUME IInv, at \in {"claim", "claimWait"}
               PROVE  quotes[Wallet].hash \in quotes[Wallet].landed \cap quotes[Wallet].recorded
    BY DEF DepositsAreKnown
  <2>1. PICK w \in DOMAIN quotes : IsWallet(w) /\ Known(quotes[w])
    BY DEF IInv, UserInv, Funded
  <2>2. Wallet = w
    BY <2>1, TheWallet DEF IInv, UserInv
  <2> QED BY <2>1, <2>2 DEF Known
<1> QED BY <1>1, Invariants, PTL

\* However often submit_outbound and fund_outbound are repeated, a bridge-out note is sent from
\* a wallet whose own funding note is claimed, and from each such wallet one.
THEOREM NotesSentWereClaimed == Spec => []SendsWhatItClaimed
<1>1. IInv => SendsWhatItClaimed
  <2> SUFFICES ASSUME Kept PROVE SendsWhatItClaimed
    BY DEF IInv, UserInv, Spending
  <2>1. \A i \in BridgedOut : Claimed(quotes[i].from)
    BY DEF BridgedOut, Kept
  <2>2. \A i, j \in BridgedOut : quotes[i].from = quotes[j].from => i = j
    BY DEF BridgedOut, Kept, Spends
  <2> QED BY <2>1, <2>2 DEF SendsWhatItClaimed, Claimed
<1> QED BY <1>1, Invariants, PTL

\* The report of the evidence runner names three quotes that succeeded, on deposits the chain
\* has, and notes that were consumed or created.
THEOREM ReportIsTrue == Spec => []EvidenceIsTrue
<1>1. IInv => EvidenceIsTrue
  <2> SUFFICES ASSUME IInv, program = "e2e", at = "report", NEW i \in DOMAIN quotes
               PROVE  /\ quotes[i].status = "SUCCESS" /\ quotes[i].note = "committed"
                      /\ quotes[i].leg # "outbound" =>
                           quotes[i].hash \in quotes[i].landed \cap quotes[i].recorded
    BY DEF EvidenceIsTrue
  <2> QED BY DEF IInv, UserInv, Running, Done, Known
<1> QED BY <1>1, Invariants, PTL

\* A planned claimAsset is paid when it is broadcast, unless the row was claimed since the
\* rows were read, or before the service showed it.
THEOREM PlannedClaimsLand == Spec => []ClaimsLandUnlessLate
<1>1. IInv => ClaimsLandUnlessLate
  BY DEF IInv, AggInv, ClaimsOK, ClaimsLandUnlessLate, Lands
<1> QED BY <1>1, Invariants, PTL
===============================================================================
