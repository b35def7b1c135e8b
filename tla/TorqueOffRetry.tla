---------------------------- MODULE TorqueOffRetry ----------------------------
(***************************************************************************)
(* How the firmware works off its torque-off obligations while none of the *)
(* servos concerned is authorised: the 25 ms retry of tick() and the pass  *)
(* of resolvePendingTorqueOff (ArmHatController.cpp), on the list of       *)
(* module ObligationList.  A servo of Mute never answers.                  *)
(***************************************************************************)
EXTENDS ObligationList

CONSTANTS Servos, Mute

VARIABLES
  off,     \* the obligation list
  retryDue \* 25 ms have passed since the last attempt

vars == <<off, retryDue>>

Pending == Owed(off)

Init == off = NoObligations /\ retryDue = TRUE

(* Discovery, an enable, or an unauthorised ON in a telemetry read. *)
Queue(id) == off' = Queued(off, id) /\ retryDue' = (retryDue \/ off.ids = <<>>)

FallsDue == ~retryDue /\ retryDue' = TRUE /\ UNCHANGED off

(* tick: the cursor's servo is chosen and then overwritten by the oldest    *)
(* obligation without authority, which is tried.                            *)
TickRetry(heard) ==
  /\ retryDue /\ off.ids # <<>>
  /\ retryDue' = FALSE
  /\ LET id == FirstOutside(off, {})
     IN /\ heard => id \notin Mute
        /\ off' = Attempt(off, id, heard, 0)

(* A STOP, RESET, SCAN or TORQUE_OFF ALL: one pass, answered by some.       *)
Resolve(answering) ==
  /\ answering \cap Mute = {}
  /\ off' = ResolvePass(off, answering, 0)
  /\ retryDue' = (retryDue /\ off.ids = <<>>)

Next ==
  \/ FallsDue
  \/ \E heard \in BOOLEAN : TickRetry(heard)
  \/ \E id \in Servos : Queue(id)
  \/ \E answering \in SUBSET Servos : Resolve(answering)

Spec == Init /\ [][Next]_vars

(* The timer runs, the loop ticks in time for it, and a servo that is       *)
(* retried again and again answers in the end, unless it is mute.           *)
Retry == \E heard \in BOOLEAN : TickRetry(heard)

Releases(s) == TickRetry(TRUE) /\ s \in Pending /\ s \notin Pending'

Fairness ==
  /\ WF_vars(FallsDue) /\ SF_vars(Retry)
  /\ \A s \in Servos : SF_vars(Releases(s))

FairSpec == Spec /\ Fairness

-----------------------------------------------------------------------------
TypeOK ==
  /\ off.ids \in Seq(Servos) /\ off.seen \in BOOLEAN /\ retryDue \in BOOLEAN
  /\ off.cursor \in Nat /\ off.last = 0
  /\ \A i, j \in DOMAIN off.ids : off.ids[i] = off.ids[j] => i = j
  /\ off.cursor < Len(off.ids) \/ off.cursor = 0

Before(o, a, b) == a \in Owed(o) /\ b \in Owed(o) /\ Index(o, a) < Index(o, b)

(* Obligations keep their order of arrival, whichever of them are settled   *)
(* by a pass or a retry, in a list without duplicates and with its cursor   *)
(* inside: the retry that takes the oldest is first come, first served.     *)
ArrivalOrderKept ==
  [][/\ TypeOK'
     /\ \A a, b \in Pending \cap Pending' :
          Before(off, a, b) => Before(off, a, b)']_vars

(* arm_hat_controller_host_test.cpp:588 asserts of the obligations that "a  *)
(* failed servo cannot erase itself or starve the other addressed IDs": a   *)
(* servo that answers is released, whatever is queued before or behind it.  *)
AnsweringServoIsReleased ==
  \A s \in Servos \ Mute : s \in Pending ~> s \notin Pending

(* What the retry does give: a servo that answers is released if no mute    *)
(* one was queued ahead of it, however often the others come back and       *)
(* whatever waits behind it.                                                *)
ReleasedInTurn ==
  \A s \in Servos \ Mute :
     s \in Pending /\ (\A m \in Mute : ~Before(off, m, s)) ~> s \notin Pending

(* ArmHatController.cpp:2599: resolvePendingTorqueOff "deliberately resolves *)
(* the complete electrical-off set".  So a pass that every servo but the    *)
(* mute ones answers leaves only the mute ones owed.                        *)
PassReachesEveryServo ==
  [][Resolve(Servos \ Mute) => Pending' \subseteq Mute]_vars

=============================================================================
