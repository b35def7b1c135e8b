SPECIFICATION FairSpec
CONSTANTS
  Servos = {s1, s2, s3, s4}  Mute = {s1}
PROPERTIES AnsweringServoIsReleased
