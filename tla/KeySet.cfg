\* Two requests at a time, a key rotation, failing fetches.
CONSTANTS
    k1 = k1  k2 = k2  q1 = q1  q2 = q2
    NoKid = NoKid  Primer = Primer
    Keys = {k1, k2}
    FirstKeys = {k1}
    Tokens <- MCTokens
    Requests = {q1, q2}
    MinRefresh = 2
    MaxAge = 3
    FetchTimeout = 1
    MaxTime = 4
SPECIFICATION LiveSpec
INVARIANTS TypeOK ServingHasKeys
PROPERTIES FetchesSpaced PickedUpInTime WithdrawnStaysOut EveryCallReturns
\* The process exits when prime fails.
CHECK_DEADLOCK FALSE
