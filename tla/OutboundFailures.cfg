\* One Miden-origin quote, its notes and its deadline; crashes, failed calls, discarded and reverted transactions.
SPECIFICATION Spec
CONSTANTS
    full = full
    short = short
    dud = dud
    note = note
    small = small
    alien = alien
    nft = nft
    h1 = h1
    NumQuotes = 1
    Origin <- AllMiden
    OwnAccount = {}
    Terms <- MCTerms
    Txs <- NoSet
    Notes <- NotesOnly
    PaysTo <- AllPayOne
    Amount <- MCAmount
    Reverted <- MCReverted
    Malformed = {}
    Foreign <- MCForeign
    NonFungible <- MCNonFungible
    Outputs = {1, 2}
    ScansChain = FALSE
    Handlers = {}
    Submissions <- SubmitAny
    Expiring = {1}
    MaxFailures = 2
INVARIANTS
    OneOwnerPerEvent
    PaysOnlyForNotes
    PayoutsAreRecorded
    ConsumesOnce
    PaymentsGrounded
PROPERTIES
    KeepsJournal
