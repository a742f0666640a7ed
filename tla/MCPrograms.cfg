SPECIFICATION MCSpec
CONSTANTS
    x = x
    y = y
    NoRun = NoRun
    Symbols <- MCSymbols
    Screens <- MCScreens
    N <- MCN
    Steps <- MCSteps
    Consumes <- MCConsumes
    Optional <- MCOptional
    Halts <- MCHalts
    Enabled <- MCEnabled
    NotStaged = NotStaged
    Robots = {r1}
    MaxKills = 3
    NoRobot = NoRobot
    Launches = {l1}
    SkillCount = 2
    Top = 2
    Threshold = 2
    Separate = TRUE
    MaxLaunches = 3
    Upstream = Upstream
    Unlocked = Unlocked
    Dead = Dead
    NoBranch = NoBranch
    Pasts <- MCPasts
    Moves <- MCMoves
    MaxDays = 24
    Window = 60
    MaxLows = 3
    BarKinds <- MCBarKinds
    MaxBars = 5
    Cushion = 1
    NoFile = NoFile
    Torn = Torn
    Theses = {1, 2}
    Amounts <- MCAmounts
    LastDay = 6
    SessionDays <- MCSessionDays
    Mondays <- MCMondays
    Firsts <- MCFirsts
    DailyLoss = 2
    WeeklyLoss = 3
    MonthlyLoss = 4
    LosingStreak = 2
    Cooldown = 3
    MaxLegs = 3
    Fragile = {1}
    DayRows <- MCDayRows
    Averages <- MCAverages
    MaxSessions = 7
    Fetched = 6
    Expiration = 2
    DeclineMille = 2
    GainPercent = 5
    TriggerSource = "high"
    Counts <- MCCounts
    Thresholds <- MCThresholds
INVARIANTS
    ProgramsTypeOK
    SnapshotHonest
    PublishedPure
    NoRobotLost
    TerminalAlone
PROPERTIES
    StaysConsistent
    PublishesAtomically
    ReportsWhatIsPublished
    ConfirmedHolds
    SignalStands
    HaltHolds
    KeepsLedger
    RemovalStands
    CutsOnlyOnDistribution
CHECK_DEADLOCK FALSE
