\* Two HarborAccesses with the same service account, a selector and the janitor.
CONSTANTS
    h1 = h1  h2 = h2  sa1 = sa1  sa2 = sa2  g1 = g1  g2 = g2  r1 = r1  r2 = r2
    NoName = NoName  NoKey = NoKey  LegacyName = LegacyName
    Foreign = Foreign  Unclaimed = Unclaimed  Star = Star
    HarborAccesses = {h1, h2}
    ServiceAccounts = {sa1}
    Grants = {g1}
    Replicas = {r1}
    Selective = TRUE
    TakeoverLag = FALSE
    Sweeping = TRUE
    Admin = {}
    RetrySteps = 2
    MaxRobots = 2
    MaxEdits = 1
    MaxAdmin = 0
    MaxDue = 0
    MaxFaults = 0
SPECIFICATION LiveSpec
PROPERTIES Converges FirstOwnerKeepsRobot
