SPECIFICATION FairSpec
CONSTANTS
  Servos = {s1, s2}
  NoServo = NoServo
  MaxTracked = 1
  Tolerance = 0
PROPERTIES ObligationIsServed SilentHostDeEnergises
