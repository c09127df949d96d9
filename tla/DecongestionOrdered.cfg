SPECIFICATION DecongestionFairSpec
CONSTANTS
  a = a
  b = b
  chA = chA
  chB = chB
  junk = junk
  NumSlots = 2
  MaxLanes = 1
  Channels <- TwoChannels
  DPLChannels <- TwoChannels
  NoTimeslice = NoTimeslice
  Inputs <- TwoInputs
  NoRoute = junk
  Messages <- ThreeTimeslices
  ChannelOf <- TwoInputsChannelOf
  CalibrationInputs = {}
  OptionalInputs = {}
  TimerInputs = {}
  TimerValues = {}
  Policy <- policyAnswers
  Streams = {1}
  ThreadPool = FALSE
  MaxTimeslice = 2
  MaxStops = 0
  PolicyName = "consumeWhenAllOrdered"
  FirstInput = a
INVARIANTS
  TypeOK
  SlotHomogeneous
  PruneOnlyStale
  NoLostWakeup
PROPERTIES
  MeetsContract
  DispatchInOrder
  OldestIsDispatched
\* After the end of stream the device is Idle: it really stops.
CHECK_DEADLOCK FALSE
