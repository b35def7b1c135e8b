SPECIFICATION Spec
CONSTANT Callers = {c1, c2}
INVARIANT LaterStopWinsAtTheController
