SPECIFICATION Spec
CONSTANTS
    Root = "root"
    Dirs = {"root", "d", "e"}
    Files = {"f"}
    NbNames = 2
    EntryIds = {1, 2, 3, 4}
    ArraySize = 1
    Exported <- Tree
    SameDirLinks = FALSE
    MaxCalls = 5
INVARIANTS TypeOK DirentsCoherent EntriesOfExisting ParentIsParent ReaddirComplete
CHECK_DEADLOCK FALSE
