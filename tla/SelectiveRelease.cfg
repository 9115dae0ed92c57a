\* The janitor releases an unselected HarborAccess while a pass provisions it.
CONSTANTS
    h1 = h1  h2 = h2  sa1 = sa1  sa2 = sa2  g1 = g1  g2 = g2  r1 = r1  r2 = r2
    NoName = NoName  NoKey = NoKey  LegacyName = LegacyName
    Foreign = Foreign  Unclaimed = Unclaimed  Star = Star
    HarborAccesses = {h1}
    ServiceAccounts = {sa1}
    Grants = {g1}
    Replicas = {r1}
    Selective = TRUE
    TakeoverLag = FALSE
    Sweeping = TRUE
    Admin = {}
    RetrySteps = 2
    MaxRobots = 3
    MaxEdits = 1
    MaxAdmin = 0
    MaxDue = 1
    MaxFaults = 0
SPECIFICATION Spec
INVARIANTS FinalizerCoversRobot
