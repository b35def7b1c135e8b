SPECIFICATION MCStopSpec
CONSTANTS Ids = {"a", "b"}  Old = {"b"}  MaxTransfers = 1
INVARIANT FramesAreTrue
PROPERTY StopWinsOverPhotograph StopIsDelivered
