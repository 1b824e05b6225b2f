\* Two decimals stand for eighteen, a page of two for one of twenty and two tries for eight.
\* 990 stands for U256::MAX: "9.9" is exactly that much, "9.91" too much by the addition, "10"
\* by the multiplication and "991" before it.
\* Two quotes of each kind: two wallets that are funded, and each spent or tried again.
CONSTANTS
    MaxAttempts = 2
    MaxQuotes = 2
    wallet = wallet
    operator = operator
    Claimers = {wallet, operator}
    MaxRows = 3
    PageSize = 2
    Texts <- ShortTexts
    Decimals = 2
    MaxWei = 990
SPECIFICATION Spec
INVARIANTS
    TypeOK
    PaysOncePerLostAnswer
    DepositsAreKnown
    SendsWhatItClaimed
    EvidenceIsTrue
    AmountsAreExact
    ClaimsLandUnlessLate
PROPERTIES
    ClaimsEveryReadyDeposit
\* A runner that has reported or failed, and a plan that is answered, are at their end.
CHECK_DEADLOCK FALSE
