SPECIFICATION MCFairSpec
CONSTANTS Servos = {b}  Base = b  MaxHeld = 1  Attempts = 0
PROPERTY LaneProgresses SilentSessionEnds ReleasedInTurn
