SPECIFICATION MCFairSpec
CONSTANTS MaxBoot = 2  MaxDecl = 1  SeqLimit = 2
          LaneOps = {"act", "declare", "reset", "reconnect"}
INVARIANT LinkIsSupervised
PROPERTY ConfirmedIsTrue ServiceRestoresLink
