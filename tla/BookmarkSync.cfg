CONSTANTS
    a = a
    b = b
    menu = menu
    root = root
    Guid = {a, b}
    FolderGuid = {a}
    UserRoot = {menu}
    Val = {1, 2}
    InitVal = 1
    PlacesRoot = root
    MaxOps = 2
    MaxWrites = 2
    MaxSyncs = 2
SPECIFICATION SyncSpec
INVARIANTS MirrorMatchesServer RowsSound ChangesTracked
PROPERTIES MergedTreesAgree 
CHECK_DEADLOCK FALSE
