SPECIFICATION PartSpec
CONSTANTS
    Threads = {t1, t2}
    Keys = {ping, summary}
    Ttl <- ShortAndLong
    MaxQuery = 2
    MaxTime = 6
    ping = ping
    summary = summary
    Nobody = Nobody
    Never = Never
    DayLength = 2
    LastDay = 2
    Page = 2
    Chunk = 2
    MaxWrites = 2
    MaxErrors = 1
    Targets = {a1, a2}
    PerHour = 2
    Hours = 1
    Window = 2
    MaxLatency = 1
    FlushLag = 1
    Lifetime <- HourlyIsLonger
    MaxPings = 2
    MaxNow = 4
    MaxWaiting = 2
    MaxSamples = 5
    MaxSpread = 3
    Requests = {r1, r2}
    MaxLimit = 2
    MaxRestarts = 3
    MaxReloads = 1
    Browsers = {b1, b2}
    MaxChanges = 3
INVARIANTS
    DownloadsAreSnapshots
    ChartsAreTrue
    AnswersAreTheNewest
PROPERTIES
    AnswersAreRecent
    AnswersNeverGoBack
    QueriesAreSpaced
    LockIsGivenBack
    FormsAreFaithful
