SPECIFICATION FairSpec
CONSTANTS
    u1 = u1
    u2 = u2
    f1 = f1
    f2 = f2
    a = a
    b = b
    Sessions = {u1, u2}
    Fetchers = {f1, f2}
    Paths <- SomePaths
    Files <- SomeFiles
    Ranges <- SomeRanges
    RotateEvery = 2
    Overlap = 1
    UrlTtl = 3
    CleanupEvery = 2
    MaxKeyAge = 4
    RefreshCapacity = 1
    Instances <- Both
INVARIANTS TypeOK RedirectsLast NodeKeysEndWithTheirConnection FreshUrlsLast RangesAreExact
PROPERTIES ProxySettles
CHECK_DEADLOCK FALSE
