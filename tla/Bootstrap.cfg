\* Two assets and four failures: a crash in or between submissions, a discarded
\* transaction, a lost store, in any combination.
CONSTANTS
    Assets <- TwoAssets
    MaxFailures = 4
SPECIFICATION Spec
INVARIANTS
    TypeOK
    FundedOnceUp
    SupplyBounded
PROPERTIES
    RecordedOnce
    ComesUpUnlessStranded
\* The bootstrap ends: nothing happens once the service is up.
CHECK_DEADLOCK FALSE
