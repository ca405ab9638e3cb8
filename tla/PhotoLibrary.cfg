SPECIFICATION Spec
CONSTANTS
    p1 = p1
    u1 = u1
    f1 = f1
    NoUrl = NoUrl
    NoRequest = NoRequest
    NoTask = NoTask
    NoFile = NoFile
    NoRecord = NoRecord
    NoPhoto = NoPhoto
    Photos = {p1, p2}
    Urls = {u1}
    RawUrl <- OneUrl
    Files = {f1}
    LocalFile <- OneFile
    Requests = {r1, r2}
    Tasks = {t1, t2}
SYMMETRY Symmetric
INVARIANTS
    RecordedFileOnDisk
    OneTransferPerPhoto
    DetailHeartAgrees
    FavouritesTabIsCurrent
    RecordsCanBeShown
PROPERTIES
    ImplementsPhotoShelf
CHECK_DEADLOCK FALSE
