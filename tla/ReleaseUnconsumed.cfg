\* One Miden-origin quote and its note; one failure between the consume key and the consume transaction.
SPECIFICATION Spec
CONSTANTS
    full = full
    short = short
    dud = dud
    note = note
    small = small
    alien = alien
    nft = nft
    h1 = h1
    NumQuotes = 1
    Origin <- AllMiden
    OwnAccount = {}
    Terms <- MCTerms
    Txs <- NoSet
    Notes <- OneNote
    PaysTo <- AllPayOne
    Amount <- MCAmount
    Reverted <- MCReverted
    Malformed = {}
    Foreign <- MCForeign
    NonFungible <- MCNonFungible
    Outputs = {2}
    ScansChain = FALSE
    Handlers = {}
    Submissions <- SubmitAny
    Expiring = {}
    MaxFailures = 1
INVARIANTS
    ReleaseAfterConsume
