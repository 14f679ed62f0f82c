SPECIFICATION FairSpec
CONSTANTS
  r1 = r1
  r2 = r2
  a = a
  b = b
  c = c
  NoHash = NoHash
  Listing <- MCListing
  Hash <- MCHash
  HashOf <- MCHashOf
  Scam <- NoScam
  Score <- MCScore
  MinScore = 5
  MaxPosts = 2
  Unstorable <- MCUnstorable
  Runner <- TwoRunners
  Batches <- Backlog
  NumPlatforms = 1
  MaxRetries = 1
  MaxRuns = 2
  MaxFaults = 1
INVARIANT RunLogMatchesJobs
PROPERTIES RunsEnd BacklogDrains ImplementsLedger
