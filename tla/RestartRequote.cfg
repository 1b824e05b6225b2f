\* One paid quote, a crash after its mint is durable and a lower price at the restart.
SPECIFICATION Spec
CONSTANTS
    full = full
    short = short
    dud = dud
    note = note
    small = small
    alien = alien
    nft = nft
    h1 = h1
    NumQuotes = 1
    Origin <- AllEvm
    OwnAccount = {}
    Terms <- MCTerms
    Txs <- FullOnly
    Notes <- NoSet
    PaysTo <- AllPayOne
    Amount <- MCAmount
    Reverted <- MCReverted
    Malformed = {}
    Foreign <- MCForeign
    NonFungible <- MCNonFungible
    Outputs = {1, 2}
    ScansChain = FALSE
    Handlers = {h1}
    Submissions <- SubmitAny
    Expiring = {}
    MaxFailures = 1
PROPERTIES
    DurableMintIsFinal
