CONSTANTS
    i1 = i1  i2 = i2
    bOld = bOld  bNew = bNew  bCloud = bCloud
    cOld = cOld  cNew = cNew  cCloud = cCloud
    Cloud = Cloud  NoEntry = NoEntry  NoFile = NoFile  NoRecord = NoRecord
    NoState = NoState  NoOwner = NoOwner  NoRejection = NoRejection
    Unknown = Unknown  Unwired = Unwired
    Installs = {i1, i2}
    BinDirs = {bOld, bNew, bCloud}
    Configs = {cOld, cNew, cCloud}
    Versions = {1, 2}
    Plans <- ThereAndBack
    First = i1
    CloudWiring <- InCloud
    Kubelets = {"k1"}
    FirstKubelet = "k1"
    Rejects = {}
SPECIFICATION Spec
INVARIANT SuccessMeansLive
CHECK_DEADLOCK FALSE
