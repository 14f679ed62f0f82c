SPECIFICATION FairSpec
CONSTANTS
  Job = {h1, h2}
  Text = {t1, t2}
  NoJob = NoJob
  Request = {q1, q2}
  MaxConn = 1
  MaxKills = 1
INVARIANTS NoHoldAndWait BrokenCardsNeedAKill CardFitsPost
PROPERTIES RequestsAnswered ShutdownEnds
