\* Playing, recording, stopping, failing devices and shutdown.
CONSTANTS
  c1 = c1
  c2 = c2
  p1 = p1
  p2 = p2
  p3 = p3
  Clients <- MCClients
  Players <- MCPlayers
  Recorded <- MCRecorded
  Faulty <- MCFaulty
  Length = 2
  MaxOpens = 3
  MaxFailures = 1
  MaxStops = 2
SPECIFICATION AlsaFairSpec
INVARIANTS
  IdleDeviceClosed
  AlsaRecordingsClosed
  OnlyStopPullsDevice
PROPERTIES
  HeardOrStopped
  DestructorReturns
CHECK_DEADLOCK FALSE
