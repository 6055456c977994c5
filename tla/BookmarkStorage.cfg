CONSTANTS
    a = a
    b = b
    c = c
    menu = menu
    root = root
    Guid = {a, b, c}
    FolderGuid = {a, b}
    UserRoot = {menu}
    Val = {1, 2}
    InitVal = 1
    PlacesRoot = root
    MaxOps = 4
    MaxPos = 2
SPECIFICATION Spec
SYMMETRY FolderSymmetry
INVARIANTS TreeIsWhole ChangesRecorded
PROPERTY ImplementsTree
CHECK_DEADLOCK FALSE
