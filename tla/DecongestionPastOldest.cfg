SPECIFICATION DecongestionFairSpec
CONSTANTS
  a = a
  b = b
  chA = chA
  chB = chB
  junk = junk
  NumSlots = 3
  MaxLanes = 2
  Channels <- OneChannel
  DPLChannels <- OneChannel
  NoTimeslice = NoTimeslice
  Inputs <- TwoInputs
  NoRoute = junk
  Messages <- PartAndJunk
  ChannelOf <- OneChannelOf
  CalibrationInputs = {}
  OptionalInputs = {}
  TimerInputs = {}
  TimerValues = {}
  Policy <- policyAnswers
  Streams = {1}
  ThreadPool = FALSE
  MaxTimeslice = 2
  MaxStops = 1
  PolicyName = "consumeWhenPastOldestPossibleTimeframe"
  FirstInput = a
INVARIANTS
  NeverAhead
  AnnouncedIsTrue
PROPERTIES
  AnnouncementPropagates
\* After the end of stream the device is Idle: it really stops.
CHECK_DEADLOCK FALSE
