------------------------------- MODULE MCBridge -------------------------------
(***************************************************************************)
(* Small instances of Bridge.  Exact-input quotes of 2 units that promise  *)
(* 2 units out.  The transactions are a full payment, a short one and one  *)
(* that reverts; the notes are an exact one, a small one, one of a foreign *)
(* faucet and one of an asset that is not fungible.                        *)
(***************************************************************************)
EXTENDS BridgeCalm

CONSTANTS full, short, dud,
          note, small, alien, nft,
          h1

NoSet == {}
FullOnly == {full}
OneNote == {note}
FullAndBad == {full, short, dud}
NotesOnly == {note, small, nft}
NotesOfTwo == {note, small, alien}

AllEvm == [q \in Quotes |-> "evm"]
AllMiden == [q \in Quotes |-> "miden"]
OnlyFirstEvm == [q \in Quotes |-> IF q = 1 THEN "evm" ELSE "miden"]

AllPayOne == [d \in Deposits |-> 1]
\* Quote 1 comes from the EVM chain.  Quote 2 has a deposit account of its own, which gets
\* a small note and a foreign one, and a bridge note pays quote 3.
EachPaysItsOwn ==
    [d \in Deposits |-> IF d = full THEN 1 ELSE IF d = note THEN 3 ELSE 2]

MCAmount == [d \in Deposits |-> IF d \in {short, small} THEN 1 ELSE 2]
MCReverted == Txs \cap {dud}
MCForeign == Notes \cap {alien}
MCNonFungible == Notes \cap {nft}

ExactTerms == [swapType |-> "EXACT_INPUT", amountIn |-> 2, minAmountIn |-> 2, minAmountOut |-> 2]
MCTerms == [q \in Quotes |-> ExactTerms]

SubmitAny == Quotes \X Txs
SubmitBad == Quotes \X (Txs \cap {dud})
SubmitOwn == {<<q, tx>> \in Quotes \X Txs : PaysTo[tx] = q}
=============================================================================
