SPECIFICATION FairSpec
CONSTANTS
    j1 = j1
    j2 = j2
    w1 = w1
    w2 = w2
    s1 = s1
    prose = prose
    spaces = spaces
    Jobs = {j1, j2}
    Damageable = {j1}
    Workers = {w1, w2}
    Texts = {prose, spaces}
    NoToken = NoToken
    NoJob = NoJob
    SourceOf <- OneSource
    ContentsOf <- MCContents
    ChunkCount <- MCChunkCount
    Uncuttable <- MCUncuttable
    Tokens <- MCTokens
INVARIANTS TypeOK VersionsAreDense ChunksAreComplete 
PROPERTIES HolderOnlySettles ImplementsQueue EveryJobEnds
CHECK_DEADLOCK FALSE
