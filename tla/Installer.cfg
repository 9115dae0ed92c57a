CONSTANTS
    i1 = i1  i2 = i2
    bOld = bOld  bNew = bNew  bCloud = bCloud
    cOld = cOld  cNew = cNew  cCloud = cCloud
    Cloud = Cloud  NoEntry = NoEntry  NoFile = NoFile  NoRecord = NoRecord
    NoState = NoState  NoOwner = NoOwner  NoRejection = NoRejection
    Unknown = Unknown  Unwired = Unwired
    Installs = {i1, i2}
    BinDirs = {bOld, bNew, bCloud}
    Configs = {cOld, cNew, cCloud}
    Versions = {1, 2}
    Plans <- Histories
    First = i1
    CloudWiring <- InCloud
    Kubelets = {"k1", "k2"}
    FirstKubelet = "k1"
    Rejects <- K1RejectsV2
SPECIFICATION LiveSpec
INVARIANTS TypeOK CanStart RestartFindsBinaries SuccessMeansLive
PROPERTIES SiblingsKept RestartsEnd MoveCompletes
CHECK_DEADLOCK FALSE
