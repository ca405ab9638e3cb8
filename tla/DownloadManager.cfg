SPECIFICATION Spec
CONSTANTS
    p1 = p1
    p2 = p2
    p3 = p3
    u1 = u1
    u2 = u2
    f1 = f1
    f2 = f2
    NoUrl = NoUrl
    NoRequest = NoRequest
    NoTask = NoTask
    Photos = {p1, p2, p3}
    Urls = {u1, u2}
    RawUrl <- PhotoUrl
    Files = {f1, f2}
    LocalFile <- UrlFile
    Requests = {r1, r2}
    Tasks = {t1, t2}
    MaxBytes = 1
SYMMETRY Symmetric
INVARIANTS
    TypeOK
    ReportedOnce
    ReportIsForItsPhoto
    FilesAreWhole
CHECK_DEADLOCK FALSE
