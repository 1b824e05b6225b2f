------------------------------- MODULE MCPromise -------------------------------
(***************************************************************************)
(* An instance for which the swap is promised.                              *)
(***************************************************************************)
EXTENDS MCBridge, BridgeSmooth

\* Two flexible quotes, one with a deposit that is just enough and one just too little (and
\* an alien note that would do), and an exact output that is paid as quoted.  A quote's
\* least input is its input.
PromiseTerms ==
    [q \in Quotes |->
        [swapType |-> IF q = 3 THEN "EXACT_OUTPUT" ELSE "FLEX_INPUT",
         amountIn |-> 100, minAmountIn |-> 100, minAmountOut |-> 2]]
PromiseAmount ==
    [d \in Deposits |-> IF d = note THEN 100 ELSE IF d = small THEN 98 ELSE 99]

ASSUME PromisedHere == Undisturbed
=============================================================================
