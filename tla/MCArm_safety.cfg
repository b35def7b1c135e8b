SPECIFICATION MCSpec
CONSTANTS Servos = {b, s}  Base = b  MaxHeld = 1  Attempts = 1
  Starts = {"a"}  Beside = {"hb", "cancel"}  MaxSeq = 2  Lease = 2  MaxWait = 1  Tolerance = 1
INVARIANT ReleasedJointsStayFree SessionsStayEnded
PROPERTY ClearStartsFresh FramesAreOfTheSession
