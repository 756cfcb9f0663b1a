\* One fetcher object, two fetches: safety, refinement and termination.
SPECIFICATION FairSpec
CONSTANTS
    NChunks = 2
    Versions <- MCVersions
    NoVersion = NoVersion
    Offer <- MCOffer
    Parsed <- MCParsed
    Late <- MCLate
    MaxRetries = 2
    MaxPolls = 1
    MaxFetches = 2
INVARIANTS
    DoneIsClosed
PROPERTIES
    ImplementsRecordStream
    FetchEnds
\* A fetcher whose last fetch is over may stay unused.
CHECK_DEADLOCK FALSE
