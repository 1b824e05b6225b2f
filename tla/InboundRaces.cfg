\* Nothing fails: a full, a short and a reverted payment of one quote race each other and its deadline.
SPECIFICATION Spec
CONSTANTS
    full = full
    short = short
    dud = dud
    note = note
    small = small
    alien = alien
    nft = nft
    h1 = h1
    NumQuotes = 1
    Origin <- AllEvm
    OwnAccount = {}
    Terms <- MCTerms
    Txs <- FullAndBad
    Notes <- NoSet
    PaysTo <- AllPayOne
    Amount <- MCAmount
    Reverted <- MCReverted
    Malformed = {}
    Foreign <- MCForeign
    NonFungible <- MCNonFungible
    Outputs = {1, 2}
    ScansChain = TRUE
    Handlers = {h1}
    Submissions <- SubmitBad
    Expiring = {1}
    MaxFailures = 0
INVARIANTS
    ConfirmsFirstHash
    SuccessMeansCommitted
    PaysOnlyForDeposits
PROPERTIES
    NeverReopensSuccess
