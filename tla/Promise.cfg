\* An EVM-origin quote paid just enough, a Miden-origin quote whose deposit account gets just too little, and one a bridge note pays; nothing fails.
SPECIFICATION FairSpec
CONSTANTS
    full = full
    short = short
    dud = dud
    note = note
    small = small
    alien = alien
    nft = nft
    h1 = h1
    NumQuotes = 3
    Origin <- OnlyFirstEvm
    OwnAccount = {2}
    Terms <- PromiseTerms
    Txs <- FullOnly
    Notes <- NotesOfTwo
    PaysTo <- EachPaysItsOwn
    Amount <- PromiseAmount
    Reverted <- MCReverted
    Malformed = {}
    Foreign <- MCForeign
    NonFungible <- MCNonFungible
    Outputs = {1, 2}
    ScansChain = TRUE
    Handlers = {h1}
    Submissions <- SubmitOwn
    Expiring = {}
    MaxFailures = 0
INVARIANTS
    ReleaseAfterConsume
    CalmUntilFailure
    Smooth
PROPERTIES
    KeepsPromise
    AnswersEveryDeposit
    
