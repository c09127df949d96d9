SPECIFICATION FairSpec
CONSTANTS
  a = a
  b = b
  c = c
  chA = chA
  chC = chC
  junk = junk
  NumSlots = 2
  MaxLanes = 1
  Channels <- TwoChannels
  DPLChannels <- TwoChannels
  NoTimeslice = NoTimeslice
  Inputs <- DataOptionalTimer
  NoRoute = junk
  Messages <- PartsAndJunk
  ChannelOf <- ChannelOfInput
  CalibrationInputs = {a}
  OptionalInputs = {b}
  TimerInputs = {c}
  TimerValues = {7}
  Policy <- existingThenAll
  Streams = {1}
  ThreadPool = FALSE
  MaxTimeslice = 2
  MaxStops = 1
INVARIANTS
  UniqueSlot
  OutputBound
PROPERTIES
  OutputNeverDecreases
  OnlyHopelessDropped
  CompleteIsDispatched
  StaleIsPruned
\* After the end of stream the device is Idle: it really stops.
CHECK_DEADLOCK FALSE
