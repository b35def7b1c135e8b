---------------------------- MODULE MCStopLatch ----------------------------
(* StopLatch with interchangeable STOP callers, for TLC.                    *)
EXTENDS StopLatch, TLC

CallerSymmetry == Permutations(Callers)

=============================================================================
