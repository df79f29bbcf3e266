SPECIFICATION Spec
CONSTANTS
    None = None
    Numbers = {0, 1}
    MaxEntries = 4
    Skill <- SkillSet
    SkillVersion = {1, 2}
    Needs <- ParserNeeded
    MaxManifests = 2
    Memory = {"m1", "m2"}
    Fact = {"f"}
    Levels = {"USER_CONFIRMED", "EXTERNAL_SOURCE"}
    MaxVersion = 2
    Prompt = {p1, p2, p3}
    Kind = {"camera", "screen", "microphone"}
    Supported = {"camera", "microphone"}
    MaxMounts = 2
    MaxUses = 4
    Window = {"editor", "terminal"}
    TerminalWindow = {"terminal"}
    Duration = {0, 1}
    MaxClock = 3
    MaxLog = 2
    Refresh = {f1, f2}
    RecentLimit = 1
    FetchLimit = 1
    CurrentLimit = 1
    Interval = 1
    MaxTime = 4
    AppVersion = {1, 2, 3}
    Line <- Lines
    Request = {q1, q2}
    MaxReleases = 2
    MaxLoads = 2
SYMMETRY Interchangeable
INVARIANTS CaptureUnderControl CurrentIsFresh
PROPERTIES VersionsHonest RegistrationDecidesNothing MemoryAccountable RootNeedsFreshElevation UpdatesUnderControl
CHECK_DEADLOCK FALSE
