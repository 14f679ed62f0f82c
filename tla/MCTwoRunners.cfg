SPECIFICATION Spec
CONSTANTS
  r1 = r1
  r2 = r2
  a = a
  b = b
  c = c
  NoHash = NoHash
  Listing <- MCListing
  Hash <- MCHash
  HashOf <- MCHashOf
  Scam <- NoScam
  Score <- MCScore
  MinScore = 5
  MaxPosts = 1
  Unstorable <- MCUnstorable
  Runner <- TwoRunners
  Batches <- OneJob
  NumPlatforms = 2
  MaxRetries = 2
  MaxRuns = 2
  MaxFaults = 2
SYMMETRY Symmetry
INVARIANTS TypeOK OnePublisherPerJob DuplicatesCostFaults LoggedSuccessWasDelivered StampMatchesLog AttemptsRunToTheEnd InterruptedRunsNeedFaults
PROPERTIES PersistedIsFinal FinishedRowsStand
