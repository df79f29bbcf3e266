SPECIFICATION Spec
CONSTANTS
    Process = {p1, p2}
    Root = {r1}
    Path = {"a", "b"}
    None = None
    MaxSources = 2
    MaxEntries = 1
    SyncsDirectory = TRUE
    MaxRevision = 3
    MaxEdition = 1
INVARIANTS CheckpointWhole AnsweredChangesKept
PROPERTIES ExcerptsCurrent
SYMMETRY ProcessSymmetry
