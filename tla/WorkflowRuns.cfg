SPECIFICATION FairSpec
CONSTANTS
    Definition <- AllDefinitions
    Default <- Invoice
    Run = {r1, r2}
    None = None
INVARIANTS TypeOK RunsWithinBounds HonestRuns
PROPERTIES OutcomeIsFinal RunsEnd
