SPECIFICATION FairSpec
CONSTANTS
    Hash <- MCHash
    Null = Null
    Files <- MCFiles
    Versions <- MCVersions
    HeaderLines <- MCHeaderLines
    Lower <- MCLower
    MimeList <- MCMimeList
    IndexSize = 3
    MaxHeaders = 2
    MaxBody = 2
    MaxLeaks = 1
CHECK_DEADLOCK FALSE
INVARIANT
    BodyComplete
