SPECIFICATION MCSpec
CONSTANTS
    Client = {c1, c2}
    Guid = {g1, g2}
    Key = {k1}
    Pw = {p1, p2}
    NoRow = NoRow
    Tombstone = Tombstone
    Unset = Unset
    NoText = NoText
    EmptyText = EmptyText
    Disconnected = Disconnected
    MaxNow = 3
    MaxSyncId = 2
    MaxFailures = 1
    Realm = {r1, r2}
    Form = {f1}
    NoOverlay = NoOverlay
    MaxUses = 5
INVARIANT MirrorFaithful
PROPERTIES FieldsKept FinishKeepsLogins EventuallyInSync
