SPECIFICATION FairSpec
CONSTANTS
  c1 = c1
  c2 = c2
  c3 = c3
  p1 = p1
  p2 = p2
  p3 = p3
  Worker = {w1, w2}
  Child = {c1, c2}
  Pid = {p1, p2}
  None = None
  Entry = "B7Opts"
  Settings <- TwoRuns
INVARIANTS
  NoRunFails
  SenderAlive
  ChannelsFollowIds
PROPERTIES
  EveryRunEnds
