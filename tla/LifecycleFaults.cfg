\* One HarborAccess over two service accounts; failing calls, lost answers, crashes.
CONSTANTS
    h1 = h1  h2 = h2  sa1 = sa1  sa2 = sa2  g1 = g1  g2 = g2  r1 = r1  r2 = r2
    NoName = NoName  NoKey = NoKey  LegacyName = LegacyName
    Foreign = Foreign  Unclaimed = Unclaimed  Star = Star
    HarborAccesses = {h1}
    ServiceAccounts = {sa1, sa2}
    Grants = {g1}
    Replicas = {r1}
    Selective = FALSE
    TakeoverLag = FALSE
    Sweeping = FALSE
    Admin = {}
    RetrySteps = 2
    MaxRobots = 3
    MaxEdits = 2
    MaxAdmin = 0
    MaxDue = 1
    MaxFaults = 2
\* Without the janitor nothing is left to do once every object is gone.
CHECK_DEADLOCK FALSE
SPECIFICATION Spec
INVARIANTS TypeOK FinalizerCoversRobot DeadPasswordIsDue
PROPERTIES ResumeNeedsNewPassword
