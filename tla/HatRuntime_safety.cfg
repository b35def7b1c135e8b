SPECIFICATION Spec
CONSTANTS
  Servos = {s1, s2}
  NoServo = NoServo
  MaxTracked = 2
  Tolerance = 1
SYMMETRY ServoSymmetry
INVARIANTS TypeOK EnergisedIsPending AuthorityIsPending HoldHasGoal StopHasNoAuthority
PROPERTIES StopNeverEnergises ResetNeedsOffProof LeasesAndHoldsStand
