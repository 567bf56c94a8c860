\* Two racing calls, one issued and one made-up token.
CONSTANTS
    Tokens = {t1, bad}
    Bogus = {bad}
    Calls = {c1, c2}
SPECIFICATION FairSpec
INVARIANTS StaleSnapshotReported
PROPERTIES RevocationHolds CallsReturn
