SPECIFICATION FairSpec
CONSTANTS
    t1 = t1
    t2 = t2
    NULL = NULL
    Tasks = {t1, t2}
    Killable = {t1}
    NoMemory = TRUE
    Indices = {0, 1, 2}
    Rooms = {1, 2}
    Objects <- Tree
    Root <- RootDir
    Directories <- Dirs
    Parent <- ParentOf
    MaxHandles = 1
    UserOf <- OwnUser
    GroupOf <- OneGroup
    Capabilities <- Caps
    Attributes <- Shows
    Masks <- SomeMasks
    Unwritable = FALSE
INVARIANTS
    TypeOK
    NoLeak
    ListedOnce
    OneInode
    StaleMeansGone
    OwnMode
    OpsInv
PROPERTIES
    OpsReturn
