SPECIFICATION Spec
CONSTANTS
  a = a
  b = b
  c = c
  d = d
  Listing <- MCListing
  Hash <- MCHash
  HashOf <- MCHashOf
  Scam <- MCScam
  Score <- MCScore
  MinScore = 5
  MaxPosts = 2
  MaxBatch = 4
INVARIANTS MatchesReference
PROPERTY StoringKeepsTheRest
