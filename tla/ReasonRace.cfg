\* One paid quote whose deadline passes while its deposit is confirmed; nothing fails.
SPECIFICATION Spec
CONSTANTS
    full = full
    short = short
    dud = dud
    note = note
    small = small
    alien = alien
    nft = nft
    h1 = h1
    NumQuotes = 1
    Origin <- AllEvm
    OwnAccount = {}
    Terms <- MCTerms
    Txs <- FullOnly
    Notes <- NoSet
    PaysTo <- AllPayOne
    Amount <- MCAmount
    Reverted <- MCReverted
    Malformed = {}
    Foreign <- MCForeign
    NonFungible <- MCNonFungible
    Outputs = {2}
    ScansChain = FALSE
    Handlers = {h1}
    Submissions <- SubmitAny
    Expiring = {1}
    MaxFailures = 0
INVARIANTS
    NoDepositNoRefund
