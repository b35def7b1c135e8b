SPECIFICATION FairSpec
CONSTANTS Ids = {"a"}  Legs = 2  Samples = 2  Limit = 1  Boots = 2
INVARIANT RouteRunsOnce
PROPERTY WaypointsInTurn RequestEnds
