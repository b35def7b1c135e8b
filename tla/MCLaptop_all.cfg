SPECIFICATION MCFairSpec
CONSTANTS Backends = {"real", "sim"}  Ids = {"plan", "seq"}  Sequences = {"seq"}
          Threads = {1, 2}  Verbs = {"read", "preview", "execute", "capture"}  Lives = 2  Boots = 2
          Tools = {"state", "shift", "look", "zero", "release", "plan", "run", "shoot", "apply", "detail"}
          ToolLives = 2  Reach = 2  Shots = 2  Routes = 1  History = 1  KeptFrames = 1
          Goals = {0, 1}  Home = 0  Processes = 2  Queued = 2
INVARIANT ToolsTellTheTruth SimulatorIsShownTrue
PROPERTY  KeepsPromise CallsAreAnswered
