SPECIFICATION Spec
CONSTANTS
  Main = Main
  Workers = {w1}
  Posts <- OldestPossiblePosts
  Score <- TwoKinds
  InboxCapacity = 1
  MaxTimeslice = 2
  MaxResets = 0
  NoTask = NoTask
  Nobody = Nobody
PROPERTIES
  NoTaskLost
