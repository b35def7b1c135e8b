-------------------------------- MODULE MCArm -------------------------------
(***************************************************************************)
(* The safety of the two modules about the arm service's threads.  A       *)
(* behaviour is of one of them, LiveFollow with one kind of requests:      *)
(* bench says which.  The other module's variables then stay in their      *)
(* initial state.                                                          *)
(***************************************************************************)
EXTENDS MotionLane

CONSTANTS Starts, Beside, MaxSeq, Lease, MaxWait, Tolerance

VARIABLES
  bench,
  session, last, attempts, wanted, latch, arm, motionLock,
  authorityLock, run, stopper, freed, commits, cancelled

follow ==
  <<session, last, attempts, wanted, latch, arm, motionLock,
    authorityLock, run, stopper, freed, commits, cancelled>>

F ==
  INSTANCE SessionInvariant WITH
    Attempts <- Starts,
    held <- wanted, stopped <- latch, hat <- arm,
    motion <- motionLock, authority <- authorityLock, th <- run,
    stopPc <- stopper

ASSUME SessionAssumption ==
  /\ F!NoOne \notin Starts
  /\ MaxSeq \in Nat /\ Lease \in Nat /\ MaxWait \in Nat /\ Tolerance \in Nat

(* A move on a pool thread: it leaves the event loop free, so STOP may come *)
(* at any of its steps, also where it would wait for one on the loop.       *)
OnThePool == th'["lane"].op = "targets" => ~th'["lane"].onLoop

(* A stream of frames, with lost feedback, each looked at as it comes;      *)
(* heartbeats that wait for the service thread, against the lease; starts,  *)
(* repeated and cancelled.                                                  *)
Never(t, op) == run'[t].op # op
Prompt == session'.idle <= Lease /\ \A t \in F!Threads : run'[t].age = 0

OfBench ==
  /\ bench = "frames" => Never("hb", "hb") /\ Never("cancel", "cancel") /\ Prompt
  /\ bench = "leases" => Never("lane", "frame") /\ Never("cancel", "cancel")
  /\ bench = "starts" => Never("lane", "frame") /\ Never("hb", "hb") /\ Prompt

Benches == {"frames", "leases", "starts"}

MCInit == bench \in {"lane"} \cup Benches /\ Init /\ F!Init

MCNext ==
  \/ bench = "lane" /\ Next /\ OnThePool /\ UNCHANGED <<bench, follow>>
  \/ bench \in Benches /\ F!Next /\ OfBench /\ UNCHANGED <<bench, vars>>

MCSpec == MCInit /\ [][MCNext]_<<bench, vars, follow>>

-----------------------------------------------------------------------------
(* No session is active while an explicit STOP is latched; an attempt       *)
(* installs at most one session, however often it is sent, and none once    *)
(* its cancellation was answered; a receipt that claims the flush of the    *)
(* last frame speaks the truth; and what a session's end released stays     *)
(* released, against a heartbeat.                                           *)
SessionsStayEnded ==
  bench # "lane" =>
    /\ F!TypeOK /\ F!StopEndsSession /\ F!StartIsOneShot
    /\ F!CancelledStaysCancelled /\ F!FlushedIsSent /\ F!ReleasedStaysReleased

(* Frames reach the controller in order, once, and only of the session that *)
(* is active or that STOP overtook on their way.  A lease is not declared   *)
(* over against an input that renewed it, however long the input waited for *)
(* the locks.                                                               *)
FramesAreOfTheSession ==
  [][bench # "lane" =>
       ~F!FrameAfterEnd /\ ~F!FrameOutOfOrder /\ ~F!FalseExpiry]_follow

=============================================================================
