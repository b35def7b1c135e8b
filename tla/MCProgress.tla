----------------------------- MODULE MCProgress -----------------------------
(***************************************************************************)
(* What the threads of the arm service and the firmware's retry must get   *)
(* done in the end.  A behaviour is of one module: bench says which.  The  *)
(* other modules' variables then stay in their initial state.              *)
(***************************************************************************)
EXTENDS MotionLane

VARIABLES
  bench,
  session, last, attempts, sessionHeld, sessionStopped, sessionHat, sessionMotion,
  sessionAuthority, sessionTh, sessionStopPc, freed, commits, cancelled,
  off, retryDue

follow ==
  <<session, last, attempts, sessionHeld, sessionStopped, sessionHat, sessionMotion,
    sessionAuthority, sessionTh, sessionStopPc, freed, commits, cancelled>>

Silent ==
  INSTANCE LiveFollow WITH
    Attempts <- {"a"}, Beside <- {"hb"}, MaxSeq <- 0, Lease <- 1, MaxWait <- 0, Tolerance <- 0,
    held <- sessionHeld, stopped <- sessionStopped, hat <- sessionHat,
    motion <- sessionMotion, authority <- sessionAuthority, th <- sessionTh,
    stopPc <- sessionStopPc

(* "m" never answers; the other two do, now and then.                       *)
Retries ==
  INSTANCE TorqueOffRetry WITH Servos <- {"m", "x", "y"}, Mute <- {"m"}

retrying == <<off, retryDue>>

MCInit == bench \in {"lane", "silent", "retry"} /\ Init /\ Silent!Init /\ Retries!Init

MCNext ==
  \/ bench = "lane" /\ Next /\ UNCHANGED <<bench, follow, retrying>>
  \/ bench = "silent" /\ Silent!Next /\ UNCHANGED <<bench, vars, retrying>>
  \/ bench = "retry" /\ Retries!Next /\ UNCHANGED <<bench, vars, follow>>

MCFairSpec ==
  /\ MCInit /\ [][MCNext]_<<bench, vars, follow, retrying>>
  /\ \/ bench = "lane" /\ Fairness
     \/ bench = "silent" /\ Silent!Fairness
     \/ bench = "retry" /\ Retries!Fairness

-----------------------------------------------------------------------------
(* A STOP request is handed to a thread and latched, however long the lane  *)
(* or the service thread is at it; and once nobody asks for anything, the   *)
(* hold the controller lost comes back.                                     *)
LaneProgresses == bench = "lane" => StopIsServed /\ HoldIsRestored

(* A browser that goes silent loses its session in the end.                 *)
SilentSessionEnds == bench = "silent" => Silent!SilentSessionEnds

(* A servo that answers is turned off by the firmware's retry, however often*)
(* others become owed, unless a mute one was queued ahead of it.            *)
ReleasedInTurn == bench = "retry" => Retries!ReleasedInTurn

=============================================================================
