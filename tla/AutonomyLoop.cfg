SPECIFICATION Spec
CONSTANTS
    Thread = {t1, t2}
    None = None
    Routines <- AllRoutines
    Capability = {"none", "runtime.status", "filesystem.delete", "kingdom.update"}
    Level = {0, 2}
    HistoryLimit = 3
    MaxStops = 1
INVARIANTS TypeOK LoopCoherent RepetitionBounded
PROPERTIES ThreadsAdvance
SYMMETRY ThreadSymmetry
