\* One EVM-origin quote, its payment and its deadline; three crashes, failed calls or discarded mints.
SPECIFICATION Spec
CONSTANTS
    full = full
    short = short
    dud = dud
    note = note
    small = small
    alien = alien
    nft = nft
    h1 = h1
    NumQuotes = 1
    Origin <- AllEvm
    OwnAccount = {}
    Terms <- MCTerms
    Txs <- FullOnly
    Notes <- NoSet
    PaysTo <- AllPayOne
    Amount <- MCAmount
    Reverted <- MCReverted
    Malformed = {}
    Foreign <- MCForeign
    NonFungible <- MCNonFungible
    Outputs = {1, 2}
    ScansChain = TRUE
    Handlers = {h1}
    Submissions <- SubmitAny
    Expiring = {1}
    MaxFailures = 3
INVARIANTS
    TypeOK
    NoEventAppliedTwice
    OneRefundPerRecordedCause
    SuccessIsBacked
    PayoutsBoundedByFailures
    PaymentsGrounded
PROPERTIES
    KeepsJournal
