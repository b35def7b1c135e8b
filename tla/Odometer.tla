------------------------------- MODULE Odometer -------------------------------
(***************************************************************************)
(* The firmware's count of one joint's motor turns (ArmHatController.cpp): *)
(* ODO_ZERO, MULTITURN, the sampler of loop(), telemetry refreshes and the *)
(* resync of a torque-off confirmation.  A servo configured for extended   *)
(* positions reports a signed coordinate whose turns it forgets when it    *)
(* loses power; any other reports its angle within one turn.  The joint is *)
(* an STS servo in operating mode 0 or an unread mode.                     *)
(***************************************************************************)
EXTENDS Integers

CONSTANTS
  Places,      \* where the joint may be turned to, in encoder ticks; home is 0
  MaxTurns     \* ODOMETER_MAX_REVOLUTIONS, turns a wrapping count may reach

Turn == 4096                \* MULTI_TURN_ENCODER_TICKS
Half == 2048                \* ODOMETER_WRAP_THRESHOLD_TICKS
Furthest == 30719           \* ST3215_MULTI_TURN_MAX

VARIABLES
  place,     \* the joint's angle, as turned by motor or hand
  servo,     \* the servo: is it configured for extended positions, and how
             \* many turns its coordinate lacks
  native,    \* the HAT decodes this servo's position as signed and extended
  count,     \* the HAT's odometer fields for the servo
  quick,     \* less than 250 ms since the last sample
  seen,      \* (history) the angle at the last sample, and what the count had
             \* to show there
  lost       \* (history) a sample came too late to tell what happened

vars == <<place, servo, native, count, quick, seen, lost>>

Value == count.revs * Turn + count.raw

(* PRESENT_POSITION, as the servo reports it, and the turns it lacks.       *)
Lacks == IF servo.extended THEN servo.lacks ELSE place \div Turn
Coordinate == place - Lacks * Turn

Single(c) == 0 <= c /\ c < Turn
Decodable(c) == -Furthest <= c /\ c <= Furthest

Untracked ==
  [tracking |-> FALSE, valid |-> FALSE, revs |-> 0, raw |-> 0, missed |-> FALSE,
   mode |-> FALSE]

Init ==
  /\ place = 0
  /\ servo \in [extended : BOOLEAN, lacks : {0}]
  /\ native = FALSE /\ count = Untracked /\ quick = FALSE
  /\ seen = [place |-> 0, value |-> 0] /\ lost = FALSE

-----------------------------------------------------------------------------
(* What happens outside the HAT: the joint turns, time passes, and the      *)
(* servo loses its power for a moment.  Bound: once a turn went by unseen,  *)
(* nothing is claimed until the next ODO_ZERO, and the joint rests.         *)
Turns ==
  /\ ~lost
  /\ place' \in Places
  /\ UNCHANGED <<servo, native, count, quick, seen, lost>>

Elapses == quick /\ quick' = FALSE /\ UNCHANGED <<place, servo, native, count, seen, lost>>

ServoCycles ==
  /\ servo.extended
  /\ servo' = [servo EXCEPT !.lacks = place \div Turn]
  /\ UNCHANGED <<place, native, count, quick, seen, lost>>

(* The HAT restarts with empty tables; the servo keeps its configuration.   *)
HatRestarts ==
  /\ native' = FALSE /\ count' = Untracked /\ quick' = FALSE
  /\ UNCHANGED <<place, servo, seen, lost>>

-----------------------------------------------------------------------------
(* A change of turns nobody could have told from the two samples.  Read as  *)
(* signed: the coordinate lost turns and the joint moved, or had the time   *)
(* to and was read all along.  Read within one turn: the joint moved half a *)
(* turn or more.                                                            *)
Moved == place - seen.place

Hidden(signed) ==
  IF signed
  THEN Coordinate # seen.value + Moved /\ (Moved # 0 \/ (~quick /\ ~count.missed))
  ELSE Moved >= Half \/ Moved <= -Half

(* A sample of an armed, unbroken count; what it had to show moves along.   *)
Observed(signed) ==
  /\ quick' = TRUE
  /\ lost' = (lost \/ Hidden(signed))
  /\ seen' = [place |-> place, value |-> IF lost' THEN 0 ELSE seen.value + Moved]

(* Mutant of Continuous: only a sudden collapse is suspected.               *)
ContinuousAfterMiss(c) ==
  \/ ~count.valid
  \/ c = Value \/ (c - Value) % Turn # 0
  \/ ~quick

(* nativeExtendedPositionContinuous: an exact loss of whole turns is        *)
(* believed only of a joint that had the time for it and was read all along.*)
Continuous(c) ==
  \/ ~count.valid
  \/ c = Value \/ (c - Value) % Turn # 0
  \/ ~quick /\ ~count.missed

(* storeExtendedPosition, with its continuity guard. *)
Stored(c) ==
  IF Continuous(c)
  THEN [count EXCEPT !.revs = c \div Turn, !.raw = c % Turn, !.missed = FALSE]
  ELSE [count EXCEPT !.valid = FALSE]

Broken == [count EXCEPT !.valid = FALSE]

(* A signed position that was read. *)
Native(c) == IF Decodable(c) THEN Stored(c) ELSE Broken

(* A position within one turn: consecutive samples more than half a turn    *)
(* apart have crossed the boundary.                                         *)
Wrapped(c) ==
  LET delta == c - count.raw
      revs == IF ~count.valid THEN count.revs
              ELSE IF delta > Half THEN count.revs - 1
              ELSE IF delta < -Half THEN count.revs + 1
              ELSE count.revs
  IN [count EXCEPT !.revs = revs, !.raw = c,
                   !.valid = @ /\ -MaxTurns <= revs /\ revs <= MaxTurns]

(* sampleOdometers, for a servo that is tracked. *)
SampleFails ==
  /\ count.tracking
  /\ count' = [count EXCEPT !.missed = @ \/ (native /\ count.mode)]
  /\ UNCHANGED <<place, servo, native, quick, seen, lost>>

SampleUnread ==
  /\ count.tracking /\ native /\ ~count.mode
  /\ count' = [count EXCEPT !.missed = TRUE]
  /\ UNCHANGED <<place, servo, native, quick, seen, lost>>

Sample ==
  /\ count.tracking /\ (native => count.mode)
  /\ count' = IF native THEN Native(Coordinate)
              ELSE IF Single(Coordinate) THEN Wrapped(Coordinate)
              ELSE Broken
  /\ Observed(native)
  /\ UNCHANGED <<place, servo, native>>

-----------------------------------------------------------------------------
(* refreshServo, from STATUS, scans and every motion preflight.  A wrapping *)
(* joint's count is the sampler's alone; but a position no single turn can  *)
(* hold shows that the servo is extended.                                   *)
RefreshFails ==
  /\ count' = IF native THEN [count EXCEPT !.mode = FALSE, !.missed = TRUE] ELSE count
  /\ UNCHANGED <<place, servo, native, quick, seen, lost>>

RefreshWithoutMode ==
  /\ count' = [count EXCEPT !.mode = FALSE, !.missed = @ \/ native]
  /\ UNCHANGED <<place, servo, native, quick, seen, lost>>

Refresh ==
  LET extended == native \/ (~Single(Coordinate) /\ Decodable(Coordinate))
  IN /\ native' = extended
     /\ count' = [(IF extended THEN Native(Coordinate) ELSE count) EXCEPT !.mode = TRUE]
     /\ IF extended THEN Observed(TRUE) ELSE UNCHANGED <<quick, seen, lost>>
     /\ UNCHANGED <<place, servo>>

-----------------------------------------------------------------------------
(* ODO_ZERO of a joint without torque authority.  The servo's own           *)
(* coordinate becomes the count, or its angle within one turn does.         *)
ZeroFails ==
  /\ native => count.mode
  /\ count' = Broken
  /\ UNCHANGED <<place, servo, native, quick, seen, lost>>

Zero ==
  /\ native => count.mode
  /\ LET c == Coordinate
     IN /\ IF native THEN Decodable(c) ELSE Single(c)
        /\ count' = [count EXCEPT !.tracking = TRUE, !.valid = TRUE, !.revs = c \div Turn,
                                  !.raw = c % Turn, !.missed = @ /\ ~native]
        /\ seen' = [place |-> place, value |-> c]
  /\ quick' = TRUE /\ lost' = FALSE
  /\ UNCHANGED <<place, servo, native>>

(* MULTITURN: the count has to be zeroed again.  The registers were perhaps *)
(* written when it fails.                                                   *)
MultiTurn(enabled) ==
  /\ native' = enabled
  /\ servo' = [extended |-> enabled, lacks |-> IF enabled THEN Lacks ELSE 0]
  /\ count' = [count EXCEPT !.tracking = FALSE, !.valid = FALSE, !.mode = TRUE]
  /\ UNCHANGED <<place, quick, seen, lost>>

MultiTurnFails ==
  /\ servo' \in {servo, [extended |-> TRUE, lacks |-> Lacks],
                 [extended |-> FALSE, lacks |-> 0]}
  /\ count' = Broken
  /\ UNCHANGED <<place, native, quick, seen, lost>>

(* confirmTorqueOff of an extended joint whose mode is unread: the mode is  *)
(* written and the position read as an angle within one turn, taken to be   *)
(* in the turn nearest to the count (resyncMultiTurnFromEncoder).           *)
Reconciled(c) == ((Value - c + Half) \div Turn) * Turn + c

ResyncFails ==
  /\ native /\ ~count.mode
  /\ \E written \in BOOLEAN : count' = [count EXCEPT !.valid = FALSE, !.mode = written]
  /\ UNCHANGED <<place, servo, native, quick, seen, lost>>

Resync ==
  /\ native /\ ~count.mode /\ Single(Coordinate)
  /\ LET actual == Reconciled(Coordinate)
     IN count' = IF count.valid
                 THEN [count EXCEPT !.revs = actual \div Turn, !.raw = Coordinate,
                                    !.mode = TRUE]
                 ELSE [count EXCEPT !.raw = Coordinate, !.mode = TRUE]
  /\ Observed(FALSE)
  /\ UNCHANGED <<place, servo, native>>

Next ==
  \/ Turns \/ Elapses \/ ServoCycles \/ HatRestarts
  \/ SampleFails \/ SampleUnread \/ Sample
  \/ RefreshFails \/ RefreshWithoutMode \/ Refresh
  \/ ZeroFails \/ Zero \/ MultiTurn(TRUE) \/ MultiTurn(FALSE) \/ MultiTurnFails
  \/ ResyncFails \/ Resync

Spec == Init /\ [][Next]_vars

-----------------------------------------------------------------------------
TypeOK ==
  /\ place \in Places
  /\ servo \in [extended : BOOLEAN, lacks : Int]
  /\ native \in BOOLEAN /\ quick \in BOOLEAN /\ lost \in BOOLEAN
  /\ count \in [tracking : BOOLEAN, valid : BOOLEAN, revs : Int, raw : 0..(Turn - 1),
                missed : BOOLEAN, mode : BOOLEAN]
  /\ seen \in [place : Int, value : Int]

(* A count that is shown as valid is, at its last sample, the coordinate it *)
(* was zeroed in plus every tick the joint really turned since: through     *)
(* wraps, failed and half-failed reads, resyncs, restarts of the HAT and    *)
(* power losses of the servo, unless a sample came too late to tell.        *)
CountIsTrue == count.tracking /\ count.valid /\ ~lost => Value = seen.value

===============================================================================
