SPECIFICATION MCFairSpec
CONSTANTS
  Coords = 4  Boots = 3
  Positions = 2  ApiTurn = 2  ApiBoots = 2  Tokens = 2  Saved = 1  Drift = 0
  Joints = {"elbow", "camera"}  Ids = {1, 2, 3}
  IdFaults = {"reply", "save", "crash", "declare", "commission"}
  Turnable <- MCPlaces  MaxTurns = 1
  Servos = {s1, s2, s3, s4}  Mute = {s4}
INVARIANTS ServoRecordsAreTrue CountIsTrue
PROPERTIES BaseIsTrue BaseFrameIsAdopted ArrivalOrderKept
