CONSTANTS
    p1 = p1
    p2 = p2
    Pushers = {p1, p2}
    Pages = {1, 2, 3}
    Health = 3
    Files = {1}
    Migrations = 3
    Apps <- MCApps
    MaxAttempts = 3
    MaxAgain = 2
    Base = Base
    Default = Default
    Absent = Absent
    Untouched = Untouched
SPECIFICATION FairSpec
INVARIANTS TypeOK SourceOfTruth MigrationsOnce MigrationsInOrder PushIsMigrated DeployedOnce
PROPERTIES FrameworkRouteStays DryRunIsSilent PushEnds
