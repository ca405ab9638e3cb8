SPECIFICATION FairSpec
CONSTANTS
    p1 = p1
    u1 = u1
    f1 = f1
    NoUrl = NoUrl
    NoRequest = NoRequest
    NoTask = NoTask
    NoFile = NoFile
    NoRecord = NoRecord
    NoPhoto = NoPhoto
    Photos = {p1}
    Urls = {u1}
    RawUrl <- OneUrl
    Files = {f1}
    LocalFile <- OneFile
    Requests = {r1, r2}
    Tasks = {t1, t2}
PROPERTIES
    CompletedTransferIsRecorded
CHECK_DEADLOCK FALSE
