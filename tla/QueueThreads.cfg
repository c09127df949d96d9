SPECIFICATION FairSpec
CONSTANTS
  Main = Main
  Workers = {w1, w2}
  Posts <- DebouncedPosts
  Score <- TwoKinds
  InboxCapacity = 1
  MaxTimeslice = 2
  MaxResets = 1
  NoTask = NoTask
  Nobody = Nobody
INVARIANTS
  DebounceInTimeslice
PROPERTIES
  NoCountedTaskLost
  PostReturns
  RunnableIsHandled
