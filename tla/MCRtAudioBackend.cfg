\* Playing, recording, stopping and streams that fail to open.
CONSTANTS
  c1 = c1
  c2 = c2
  p1 = p1
  p2 = p2
  p3 = p3
  Clients <- MCClients
  Players <- MCPlayers
  Recorded <- MCRecorded
  Length = 3
  MaxStreams = 3
  MaxFailures = 1
  MaxStops = 3
SPECIFICATION RtFairSpec
INVARIANTS
  PlayersHaveStream
  RtRecordingsClosed
PROPERTIES
  OutlivedThroughRender
  PlayersFinish
  StopReturns
CHECK_DEADLOCK FALSE
