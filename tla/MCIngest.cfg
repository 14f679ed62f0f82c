SPECIFICATION FairSpec
CONSTANTS
  NumFeeds = 2
  NumChannels = 2
  Pages <- MCPages
  Histories <- MCHistories
INVARIANTS BatchInConfigOrder FailureIsIsolated SessionIsClosed
PROPERTIES TelegramEnds OnlyAHungFeedStalls
