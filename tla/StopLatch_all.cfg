SPECIFICATION Spec
CONSTANT Callers = {c1, c2}
SYMMETRY CallerSymmetry
INVARIANTS LaterStopStaysLatched LaterStopStaysOnDisk WriteAheadHolds AnsweredStopStands
