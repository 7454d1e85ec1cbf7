SPECIFICATION FairSpec
CONSTANTS
  Instance = {i1, i2}
  Versions <- MCVersions
  LastName = 6
  Depth = 3
  Files <- MCFiles
  Top <- MCTop
  Entries <- MCEntries
  MaxKeys = {0, 1, 2, 3}
  MaxTries = 2
  TokenField = "ContinuationToken"
  NoToken = NoToken
  NoReply = NoReply
  Failed = Failed
INVARIANTS
  ListingTypeOK
  KeysOnce
  ListingComplete
PROPERTY
  ListingEnds
CHECK_DEADLOCK FALSE
