------------------------------- MODULE AggLayer -------------------------------
(***************************************************************************)
(* The AggLayer helper (src/chains/agglayer.rs): it answers plans and sends   *)
(* nothing.  build_l1_deposit_plan and build_l2_withdraw_plan turn a text     *)
(* into an amount; build_l2_claim_plan reads the bridge service's rows of an  *)
(* address, takes the first that is ready, asks for its Merkle proof and      *)
(* answers a claimAsset transaction, which the user broadcasts.  Rows, proof  *)
(* and broadcast are three separate moments, and several users may claim.     *)
(***************************************************************************)
EXTENDS Naturals, FiniteSets, SequencesExt

CONSTANTS
    Claimers,    \* users that claim deposits for one Sepolia address
    MaxRows,     \* bound: rows the service has for the address
    PageSize,    \* limit=20
    Texts,       \* what a user may write as an amount
    Decimals,    \* 18
    MaxWei       \* U256::MAX

ASSUME AggLayerAssumption == {MaxRows, PageSize, Decimals, MaxWei} \subseteq Nat

VARIABLES
    rows,     \* the bridge service and L1: the deposits to the address, oldest first
    claim,    \* claimer -> where it is between asking and the transaction's end
    plan      \* the last amount a user asked a plan for, and the answer

aggVars == <<rows, claim, plan>>

-----------------------------------------------------------------------------
\* parse_eth_to_wei, normalize_positive_integer.  A text is a sequence of digits, points,
\* blanks and other characters.
Point == 10
Blank == 11

\* trim()
Trimmed(text) ==
    LET seen == {k \in DOMAIN text : text[k] # Blank} IN
    IF seen = {} THEN <<>> ELSE SubSeq(text, Min(seen), Max(seen))

IsDigits(text) == \A k \in DOMAIN text : text[k] < Point
Number(digits) == FoldLeft(LAMBDA n, d : 10 * n + d, 0, digits)

Refused == <<>>

Points(text) == {k \in DOMAIN text : text[k] = Point}
Whole(text) == IF Points(text) = {} THEN text
                                    ELSE SubSeq(text, 1, Min(Points(text)) - 1)
Fraction(text) == IF Points(text) = {} THEN <<>>
                                       ELSE SubSeq(text, Min(Points(text)) + 1, Len(text))

\* Mutation: the fraction is not padded on the right.
Unpadded(fraction) == fraction

\* format!("{raw:0<18}")
Padded(fraction) == fraction \o [k \in 1..(Decimals - Len(fraction)) |-> 0]

\* The whole part, its product and the sum must each fit into a U256: the sum is the largest.
ParseEthToWei(value) ==
    LET text == Trimmed(value)
        wei == Number(Whole(text)) * 10 ^ Decimals + Number(Padded(Fraction(text))) IN
    IF /\ text # <<>>
       /\ \A k \in DOMAIN text : text[k] <= Point
       /\ Cardinality(Points(text)) <= 1
       /\ Len(Fraction(text)) <= Decimals
       /\ wei <= MaxWei
      THEN <<wei>> ELSE Refused

\* trim_start_matches('0')
WithoutZeros(text) ==
    LET first == {k \in DOMAIN text : text[k] # 0} IN
    IF first = {} THEN <<>> ELSE SubSeq(text, Min(first), Len(text))

NoPlan == [asked |-> "nothing"]

PlanDeposit(text) ==
    LET wei == ParseEthToWei(text) IN
    /\ plan' = [asked |-> "deposit", text |-> text,
                answer |-> IF wei = <<0>> THEN Refused ELSE wei]
    /\ UNCHANGED <<rows, claim>>

PlanWithdraw(text) ==
    LET digits == Trimmed(text) IN
    /\ plan' = [asked |-> "withdraw", text |-> text,
                answer |-> IF IsDigits(digits) THEN WithoutZeros(digits) ELSE Refused]
    /\ UNCHANGED <<rows, claim>>

-----------------------------------------------------------------------------
\* The bridge service and the contract on L1.  What a claim needs of a row: where it comes
\* from, where it goes, whether its texts parse, and how far it has come.
Row(net, dest, sound) == [net |-> net, dest |-> dest, sound |-> sound, stage |-> "bridged"]
NewRows == {Row("miden", "l1", TRUE), Row("miden", "l1", FALSE), Row("l1", "miden", TRUE)}

\* deposit_cnt counts the deposits of one network.
DepositCount(i) == Cardinality({j \in 1..i : rows[j].net = rows[i].net})

BridgeDeposit(row) ==
    /\ Len(rows) < MaxRows
    /\ rows' = Append(rows, row)
    /\ UNCHANGED <<claim, plan>>

Advance(i, from, to) ==
    /\ rows[i].stage = from
    /\ rows' = [rows EXCEPT ![i].stage = to]
    /\ UNCHANGED <<claim, plan>>

BecomeReady(i) == Advance(i, "bridged", "ready")

\* claim_tx_hash appears some time after the claim.
IndexClaim(i) == Advance(i, "claimed", "indexed")

\* What the service answers for .../bridges/{address}?limit=20&offset=0, newest first.
Page == {i \in DOMAIN rows : i + PageSize > Len(rows)}

-----------------------------------------------------------------------------
\* build_l2_claim_plan

\* Mutations: the row's readiness, or the claim it already has, is not looked at.
ReadyOrNot(i) == TRUE
ClaimedOrNot(i) == TRUE

ReadyForClaim(i) == rows[i].stage # "bridged"

NoClaimHash(i) == rows[i].stage # "indexed"

AnyCount == 0

Eligible(count) ==
    {i \in Page : /\ ReadyForClaim(i)
                  /\ rows[i].net = "miden"
                  /\ rows[i].dest = "l1"
                  /\ NoClaimHash(i)
                  /\ count \in {AnyCount, DepositCount(i)}}

\* select_ready_l2_deposit: the first on the page.
Selected(i, count) == i \in Eligible(count) /\ \A j \in Eligible(count) : j <= i

NoClaim == [at |-> "idle"]

\* The rows are fetched.  shown, which is history: did they show a claim of this one?
AskClaim(c, count) ==
    /\ claim[c].at = "idle"
    /\ \E i \in DOMAIN rows :
         /\ Selected(i, count)
         /\ claim' = [claim EXCEPT ![c] = [at |-> "proof", count |-> count, row |-> i,
                                          shown |-> rows[i].stage = "indexed"]]
    /\ UNCHANGED <<rows, plan>>

\* The proof is fetched, and the row's texts are parsed into the calldata.
AnswerPlan(c) ==
    /\ claim[c].at = "proof"
    /\ claim' = [claim EXCEPT ![c] = IF rows[@.row].sound THEN [@ EXCEPT !.at = "planned"]
                                                          ELSE NoClaim]
    /\ UNCHANGED <<rows, plan>>

\* A request fails, or the user leaves the plan alone.
DropClaim(c) ==
    /\ claim[c].at # "idle"
    /\ claim' = [claim EXCEPT ![c] = NoClaim]
    /\ UNCHANGED <<rows, plan>>

\* claimAsset: the contract pays a deposit to L1 it has the root of, once.
Lands(c) == rows[claim[c].row].stage = "ready" /\ rows[claim[c].row].dest = "l1"

Broadcast(c) ==
    /\ claim[c].at = "planned"
    /\ rows' = IF Lands(c) THEN [rows EXCEPT ![claim[c].row].stage = "claimed"] ELSE rows
    /\ claim' = [claim EXCEPT ![c] = NoClaim]
    /\ UNCHANGED plan

InitAggLayer ==
    /\ rows = <<>>
    /\ claim = [c \in Claimers |-> NoClaim]
    /\ plan = NoPlan

NextPlan == plan = NoPlan /\ \E text \in Texts : PlanDeposit(text) \/ PlanWithdraw(text)

NextClaim ==
    \/ \E row \in NewRows : BridgeDeposit(row)
    \/ \E i \in DOMAIN rows : BecomeReady(i) \/ IndexClaim(i)
    \/ \E c \in Claimers : \/ \E count \in AnyCount..MaxRows : AskClaim(c, count)
                           \/ AnswerPlan(c) \/ DropClaim(c) \/ Broadcast(c)

\* A request ends.  Users keep asking for any deposit, and broadcast what is answered; the
\* service answers now and then, and shows a claim in the end.
ForAnyDeposit(c) == claim[c].at # "idle" /\ claim[c].count = AnyCount
FairClaims ==
    /\ \A c \in Claimers : /\ WF_aggVars(AnswerPlan(c) \/ DropClaim(c) \/ Broadcast(c))
                           /\ SF_aggVars(AskClaim(c, AnyCount))
                           /\ SF_aggVars(ForAnyDeposit(c) /\ AnswerPlan(c))
                           /\ SF_aggVars(ForAnyDeposit(c) /\ Broadcast(c))
    /\ \A i \in 1..MaxRows : WF_aggVars(i \in DOMAIN rows /\ IndexClaim(i))

-----------------------------------------------------------------------------
AggLayerTypeOK ==
    /\ Len(rows) <= MaxRows
    /\ \A i \in DOMAIN rows :
          /\ [rows[i] EXCEPT !.stage = "bridged"] \in NewRows
          /\ rows[i].stage \in {"bridged", "ready", "claimed", "indexed"}
    /\ \A c \in Claimers :
          \/ claim[c] = NoClaim
          \/ claim[c].at \in {"proof", "planned"} /\ claim[c].row \in DOMAIN rows
    /\ plan = NoPlan \/ (plan.asked \in {"deposit", "withdraw"} /\ plan.text \in Texts)

\* The reference for an amount: all its digits, counted in the last one's place.  Blanks are
\* overlooked before and after it, and nothing is inside it but digits and one point.
Outside(text, k) ==
    /\ text[k] = Blank
    /\ \/ \A j \in DOMAIN text : j < k => text[j] = Blank
       \/ \A j \in DOMAIN text : j > k => text[j] = Blank

Digits(text) == SelectSeq(text, LAMBDA d : d < Point)
Places(text) == Cardinality({k \in DOMAIN text : text[k] < Point /\ \E p \in Points(text) : p < k})
Worth(text) == Number(Digits(text)) * 10 ^ (Decimals - Places(text))

WholeNumber(text) == \A k \in DOMAIN text : text[k] < Point \/ Outside(text, k)
WellFormed(text) ==
    /\ \A k \in DOMAIN text : text[k] <= Point \/ Outside(text, k)
    /\ \A j, k \in Points(text) : j = k
    /\ Places(text) <= Decimals

\* A plan sends what the user wrote, to the last digit, or the request is refused: when the
\* text is no amount, is nothing, or is more than the chain can hold.  A withdrawal keeps its
\* number as well.
AmountsAreExact ==
    /\ plan.asked = "deposit" =>
          plan.answer = IF WellFormed(plan.text) /\ Worth(plan.text) \in 1..MaxWei
                          THEN <<Worth(plan.text)>> ELSE Refused
    /\ plan.asked = "withdraw" =>
          LET number == IF WholeNumber(plan.text) THEN Number(Digits(plan.text)) ELSE 0 IN
          /\ Number(plan.answer) = number
          /\ plan.answer # Refused <=> number > 0

\* A claim the helper planned is paid, unless someone claimed the deposit since the rows were
\* read, or so shortly before that the service did not show it.
ClaimsLandUnlessLate ==
    \A c \in Claimers : claim[c].at = "planned" =>
        \/ Lands(c)
        \/ /\ rows[claim[c].row].stage \in {"claimed", "indexed"}
           /\ ~claim[c].shown

OnPage(i) == i \in Page
Claimable(i) == rows[i].net = "miden" /\ rows[i].dest = "l1" /\ rows[i].sound

\* A row whose texts do not parse fails every request for any deposit while it comes first.
Blocked(i) ==
    \/ ~OnPage(i)
    \/ \E j \in DOMAIN rows : /\ j > i /\ rows[j].stage = "ready"
                              /\ rows[j].net = "miden" /\ ~rows[j].sound

\* Users who keep asking for any deposit get all of them, as long as a deposit is on the
\* first page and no newer row there breaks the request.
ClaimsEveryReadyDeposit ==
    \A i \in 1..MaxRows :
        (i \in DOMAIN rows /\ Claimable(i) /\ rows[i].stage = "ready")
            ~> (Blocked(i) \/ rows[i].stage \in {"claimed", "indexed"})
=============================================================================
