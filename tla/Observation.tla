----------------------------- MODULE Observation -----------------------------
(***************************************************************************)
(* One photograph bound to one measured pose: execute_and_capture          *)
(* (simple_arm_api.py) with the camera service's one-use transfer lane     *)
(* (camera_api.py).                                                        *)
(*                                                                         *)
(* The request holds the operation lock: it executes the plan, waits for   *)
(* arrival, passes the shutter gate, waits for one more telemetry          *)
(* generation and compares the poses measured before and after.  Beside it *)
(* run the service thread, other users of the camera, clients that claim   *)
(* frames, and STOP, which never waits for the camera.                     *)
(*                                                                         *)
(* Boots and the several samples of an arrival are PlanRun's.              *)
(***************************************************************************)
EXTENDS Integers, FiniteSets

CONSTANTS
  Ids,          \* plans, each executed once; also the token of its frame
  Old,          \* those photographed before
  MaxTransfers  \* _max_transfers

ASSUME ObservationAssumption ==
  /\ MaxTransfers \in Nat \ {0} /\ Old \subseteq Ids
  /\ IsFiniteSet(Old) /\ Cardinality(Old) <= MaxTransfers

VARIABLES
  results,      \* _observation_results
  store,        \* _transfers: frames that can be claimed
  up,           \* the provider is started
  cam,          \* owner of CameraEvidenceService._lock
  gate,         \* owner of _capture_gate
  stopped,      \* _operator_stopped or _inspection_required
  raced,        \* _stop_generation moved since the request read it
  news,         \* _telemetry_generation moved since the request looked
  mark,         \* _telemetry_observed_at is after the shutter of this request
  hat,          \* the controller and the arm
  seen,         \* the STATUS the gateway keeps; fresh: measured after the shutter
  svc,          \* the service thread, and the STATUS it is reading
  lane,         \* the request
  stopPc,       \* a STOP
  trip          \* history of the request

vars == <<results, store, up, cam, gate, stopped, raced, news, mark, hat, seen,
          svc, lane, stopPc, trip>>
camera == <<store, up, cam>>
flags == <<stopped, raced>>
telemetry == <<news, mark, seen, svc>>

(* Where the arm rests: at the goal, at the goal with a joint that was not  *)
(* commanded turned, or elsewhere.                                          *)
Arrivals == {"goal", "turned"}
Poses == Arrivals \cup {"away"}

Told(fresh) == [at |-> hat.at, moving |-> hat.moving, stopped |-> hat.stopped, fresh |-> fresh]
Idle == [pc |-> "idle", id |-> "none", before |-> "away", shot |-> FALSE, stamped |-> FALSE]
NoTrip == [won |-> FALSE, halted |-> FALSE]

Init ==
  /\ results = [i \in Ids |-> IF i \in Old THEN "captured" ELSE "none"]
  /\ store = Old /\ up = TRUE
  /\ cam = "none" /\ gate = "none" /\ stopped = FALSE /\ raced = FALSE
  /\ news = FALSE /\ mark = FALSE
  /\ hat = [at |-> "away", moving |-> FALSE, stopped |-> FALSE]
  /\ seen = Told(FALSE) /\ svc = [pc |-> "idle", told |-> Told(FALSE), mark |-> FALSE]
  /\ lane = Idle /\ stopPc = "idle" /\ trip = NoTrip

At(pc) == lane.pc = pc
Goto(pc) == lane' = [lane EXCEPT !.pc = pc]

(* _cache_observation_result, and the lock is given back.  What went wrong   *)
(* before a frame existed is "failed".                                      *)
Ends(out) == results' = [results EXCEPT ![lane.id] = out] /\ lane' = Idle

Room == Cardinality(store) < MaxTransfers

-----------------------------------------------------------------------------
(* A plan consumed without a result answers a retry by a refusal.           *)
Begin(i) ==
  /\ At("idle") /\ results[i] = "none" /\ cam = "none"
  /\ up /\ Room /\ ~stopped
  /\ lane' = [Idle EXCEPT !.pc = "dispatch", !.id = i] /\ trip' = NoTrip
  /\ UNCHANGED <<results, camera, gate, flags, telemetry, hat, stopPc>>

(* A retry of a request whose frame is gone says so from then on.           *)
Replay(i) ==
  /\ At("idle") /\ results[i] = "captured" /\ cam = "none" /\ i \notin store
  /\ results' = [results EXCEPT ![i] = "unavailable"]
  /\ UNCHANGED <<camera, gate, flags, telemetry, hat, lane, stopPc, trip>>

(* execute_plan: the arm sets out; or it is refused; or the move is         *)
(* ambiguous and calls for an inspection.                                   *)
Dispatch ==
  /\ At("dispatch")
  /\ \/ /\ ~stopped /\ ~hat.stopped /\ Goto("sample")
        /\ hat' = [hat EXCEPT !.at = "away", !.moving = TRUE]
        /\ UNCHANGED <<results, stopped>>
     \/ Ends("failed") /\ UNCHANGED <<stopped, hat>>
     \/ Ends("stopped") /\ stopped' = TRUE /\ UNCHANGED hat
  /\ UNCHANGED <<camera, gate, raced, telemetry, stopPc, trip>>

Sample ==
  /\ At("sample") /\ raced' = FALSE /\ news' = FALSE /\ Goto("wait")
  /\ UNCHANGED <<results, camera, gate, stopped, mark, seen, svc, hat, stopPc, trip>>

-----------------------------------------------------------------------------
(* _wait_for_arrival, before the shutter.                                   *)

Qualifies == seen.at \in Arrivals /\ ~seen.moving /\ ~seen.stopped

Arrives ==
  /\ At("wait")
  /\ \/ raced /\ Ends("stopped") /\ UNCHANGED news
     \/ ~raced /\ ~news /\ Ends("failed") /\ UNCHANGED news
     \/ ~raced /\ news /\ ~Qualifies /\ news' = FALSE /\ UNCHANGED <<results, lane>>
     \/ ~raced /\ news /\ seen.stopped /\ news' = FALSE /\ Ends("stopped")
     \/ ~raced /\ news /\ news' = FALSE /\ Ends("failed")
     \/ /\ ~raced /\ news /\ Qualifies /\ news' = FALSE /\ UNCHANGED results
        /\ lane' = [lane EXCEPT !.pc = "guard", !.before = seen.at]
  /\ UNCHANGED <<camera, gate, flags, mark, seen, svc, hat, stopPc, trip>>

-----------------------------------------------------------------------------
(* The shutter.                                                             *)

(* shutter_is_blocked. *)
Blocked == raced \/ stopped \/ seen.stopped

(* The early check, or a view pose that cannot be trusted. *)
Guard ==
  /\ At("guard")
  /\ \/ ~Blocked /\ Goto("camera") /\ UNCHANGED results
     \/ Blocked /\ Ends("stopped")
     \/ Ends("failed")
  /\ UNCHANGED <<camera, gate, flags, telemetry, hat, stopPc, trip>>

(* capture_transfer: the camera lock, then the capacity. *)
TakesCamera ==
  /\ At("camera") /\ cam = "none"
  /\ IF Room THEN cam' = "lane" /\ Goto("gate") /\ UNCHANGED results
     ELSE Ends("failed") /\ UNCHANGED cam
  /\ UNCHANGED <<store, up, gate, flags, telemetry, hat, stopPc, trip>>

TakesGate ==
  /\ At("gate") /\ gate = "none" /\ gate' = "lane" /\ Goto("check")
  /\ UNCHANGED <<results, camera, flags, telemetry, hat, stopPc, trip>>

(* Mutant of Authorize: the early check is trusted. *)
AuthorizeTrusting ==
  /\ At("check") /\ Goto("shoot")
  /\ UNCHANGED <<results, camera, gate, flags, telemetry, hat, stopPc, trip>>

(* authorize_shutter. *)
Authorize ==
  /\ At("check")
  /\ \/ ~Blocked /\ Goto("shoot") /\ UNCHANGED <<results, cam, gate>>
     \/ Blocked /\ Ends("stopped") /\ cam' = "none" /\ gate' = "none"
  /\ UNCHANGED <<store, up, flags, telemetry, hat, stopPc, trip>>

(* _capture_record under the gate.  All telemetry so far is of before it.   *)
Shoot ==
  /\ At("shoot") /\ gate' = "none"
  /\ \/ /\ up /\ lane' = [lane EXCEPT !.pc = "keep", !.shot = TRUE] /\ UNCHANGED <<results, cam>>
        /\ mark' = FALSE /\ seen' = [seen EXCEPT !.fresh = FALSE]
        /\ svc' = [svc EXCEPT !.told.fresh = FALSE, !.mark = FALSE]
     \/ Ends("failed") /\ cam' = "none"
        /\ UNCHANGED <<mark, seen, svc>>
  /\ UNCHANGED <<store, up, flags, news, hat, stopPc, trip>>

(* The frame becomes claimable, by a token only the result will tell.       *)
Keep ==
  /\ At("keep") /\ cam' = "none"
  /\ \/ store' = store \cup {lane.id} /\ Goto("stamp") /\ UNCHANGED results
     \/ Ends("failed") /\ UNCHANGED store
  /\ UNCHANGED <<up, gate, flags, telemetry, hat, stopPc, trip>>

(* transfer_captured_monotonic: none once the frame expired. *)
Stamp ==
  /\ At("stamp") /\ cam = "none"
  /\ lane' = [lane EXCEPT !.pc = "wait2", !.stamped = lane.id \in store]
  /\ UNCHANGED <<results, camera, gate, flags, telemetry, hat, stopPc, trip>>

-----------------------------------------------------------------------------
(* After the shutter: one more generation, at the pose of the one before    *)
(* it and observed after the frame's stamp.                                 *)

Bracketed == lane.stamped /\ mark
SamePose == seen.at = lane.before

Settles ==
  /\ At("wait2")
  /\ \/ (raced \/ ~news) /\ Goto("discard") /\ UNCHANGED news
     \/ ~raced /\ news /\ ~Qualifies /\ news' = FALSE /\ (UNCHANGED lane \/ Goto("discard"))
     \/ /\ ~raced /\ news /\ Qualifies /\ news' = FALSE
        /\ Goto(IF Bracketed /\ SamePose THEN "confirm" ELSE "discard")
  /\ UNCHANGED <<results, camera, gate, flags, mark, seen, svc, hat, stopPc, trip>>

(* discard_transfer, then the result. *)
Discard ==
  /\ At("discard") /\ cam = "none"
  /\ store' = store \ {lane.id} /\ Ends("invalidated")
  /\ UNCHANGED <<up, cam, gate, flags, telemetry, hat, stopPc, trip>>

Confirm ==
  /\ At("confirm") /\ cam = "none"
  /\ Ends(IF lane.id \in store THEN "captured" ELSE "unavailable")
  /\ UNCHANGED <<camera, gate, flags, telemetry, hat, stopPc, trip>>

(* An exception after the dispatch. *)
Raises ==
  /\ lane.pc \in {"wait", "guard", "stamp", "wait2", "confirm"}
  /\ IF lane.pc \in {"stamp", "wait2", "confirm"} THEN Goto("discard") /\ UNCHANGED results
     ELSE Ends("failed")
  /\ UNCHANGED <<camera, gate, flags, telemetry, hat, stopPc, trip>>

-----------------------------------------------------------------------------
(* The camera's other users.  They hold its lock while they capture.        *)

OtherTakes ==
  /\ cam = "none" /\ cam' = "other"
  /\ UNCHANGED <<results, store, up, gate, flags, telemetry, hat, lane, stopPc, trip>>

(* autofocus may lose the provider for good. *)
OtherLeaves ==
  /\ cam = "other" /\ cam' = "none" /\ up' \in {up, FALSE}
  /\ UNCHANGED <<results, store, gate, flags, telemetry, hat, lane, stopPc, trip>>

(* claim_transfer by a client that was told the token; or the frame's time  *)
(* is over.                                                                 *)
Claims(i) ==
  /\ cam = "none" /\ i \in store /\ results[i] = "captured" /\ store' = store \ {i}
  /\ UNCHANGED <<results, up, cam, gate, flags, telemetry, hat, lane, stopPc, trip>>

Expires(i) ==
  /\ cam = "none" /\ i \in store /\ store' = store \ {i}
  /\ UNCHANGED <<results, up, cam, gate, flags, telemetry, hat, lane, stopPc, trip>>

-----------------------------------------------------------------------------
(* STOP: the gate if it is free, the latch, the controller.                 *)

StopCalled ==
  /\ stopPc = "idle" /\ ~stopped /\ stopPc' = "try"
  /\ UNCHANGED <<results, camera, gate, flags, telemetry, hat, lane, trip>>

(* Mutant of StopTries: it waits for the gate. *)
StopTriesHard ==
  /\ stopPc = "try" /\ stopPc' = "latch" /\ gate = "none" /\ gate' = "stop"
  /\ UNCHANGED <<results, camera, flags, telemetry, hat, lane, trip>>

StopTries ==
  /\ stopPc = "try" /\ stopPc' = "latch"
  /\ gate' = IF gate = "none" THEN "stop" ELSE gate
  /\ UNCHANGED <<results, camera, flags, telemetry, hat, lane, trip>>

StopLatches ==
  /\ stopPc = "latch" /\ stopPc' = "release" /\ stopped' = TRUE /\ raced' = TRUE
  /\ trip' = [won    |-> trip.won \/ gate = "stop",
              halted |-> trip.halted \/ lane.pc \notin {"idle", "confirm"}]
  /\ UNCHANGED <<results, camera, gate, telemetry, hat, lane>>

StopReleases ==
  /\ stopPc = "release" /\ stopPc' = "send"
  /\ gate' = IF gate = "stop" THEN "none" ELSE gate
  /\ UNCHANGED <<results, camera, flags, telemetry, hat, lane, trip>>

StopSent ==
  /\ stopPc = "send" /\ stopPc' = "idle"
  /\ hat' \in {hat, [hat EXCEPT !.moving = FALSE, !.stopped = TRUE]}
  /\ UNCHANGED <<results, camera, gate, flags, telemetry, lane, trip>>

ClearStop ==
  /\ At("idle") /\ stopped /\ stopPc = "idle" /\ stopped' = FALSE
  /\ hat' = [hat EXCEPT !.stopped = FALSE, !.moving = FALSE]
  /\ UNCHANGED <<results, camera, gate, raced, telemetry, lane, stopPc, trip>>

-----------------------------------------------------------------------------
(* The service thread: STATUS is measured, answered and then published with *)
(* the time of its answer.                                                  *)

Measured ==
  /\ svc.pc = "idle" /\ svc' = [pc |-> "read", told |-> Told(lane.shot), mark |-> FALSE]
  /\ UNCHANGED <<results, camera, gate, flags, news, mark, seen, hat, lane, stopPc, trip>>

Answered ==
  /\ svc.pc = "read" /\ seen' = svc.told
  /\ svc' = [svc EXCEPT !.pc = "publish", !.mark = lane.shot]
  /\ UNCHANGED <<results, camera, gate, flags, news, mark, hat, lane, stopPc, trip>>

Publishes ==
  /\ svc.pc = "publish" /\ svc' = [svc EXCEPT !.pc = "idle"] /\ news' = TRUE /\ mark' = svc.mark
  /\ UNCHANGED <<results, camera, gate, flags, seen, hat, lane, stopPc, trip>>

(* The arm comes to rest, or loses its hold and sags; a joint may turn.     *)
ArmMoves ==
  /\ \/ hat.moving /\ \E p \in Poses : hat' = [hat EXCEPT !.at = p, !.moving = FALSE]
     \/ hat.at = "goal" /\ hat' = [hat EXCEPT !.at = "turned"]
     \/ hat' = [hat EXCEPT !.at = "away", !.moving = FALSE, !.stopped = TRUE]
  /\ UNCHANGED <<results, camera, gate, flags, telemetry, lane, stopPc, trip>>

LaneStep ==
  \/ Dispatch \/ Sample \/ Arrives \/ Guard \/ TakesCamera \/ TakesGate \/ Authorize
  \/ Shoot \/ Keep \/ Stamp \/ Settles \/ Discard \/ Confirm

StopStep == StopTries \/ StopLatches \/ StopReleases \/ StopSent

Service == Measured \/ Answered \/ Publishes

Next ==
  \/ \E i \in Ids : Begin(i) \/ Replay(i) \/ Claims(i) \/ Expires(i)
  \/ LaneStep \/ Raises \/ OtherTakes \/ OtherLeaves
  \/ StopCalled \/ StopStep \/ ClearStop \/ Service \/ ArmMoves

Spec == Init /\ [][Next]_vars

(* Only the STOP handler runs: the camera and the request may hang.         *)
StopSpec == Spec /\ WF_vars(StopStep)

-----------------------------------------------------------------------------
(* The type of the state, and who holds the gate and the camera. *)
TypeOK ==
  /\ results \in [Ids -> {"none", "failed", "stopped", "invalidated", "unavailable", "captured"}]
  /\ up \in BOOLEAN /\ cam \in {"none", "lane", "other"} /\ gate \in {"none", "lane", "stop"}
  /\ stopped \in BOOLEAN /\ raced \in BOOLEAN /\ news \in BOOLEAN /\ mark \in BOOLEAN
  /\ hat \in [at : Poses, moving : BOOLEAN, stopped : BOOLEAN]
  /\ seen \in [at : Poses, moving : BOOLEAN, stopped : BOOLEAN, fresh : BOOLEAN]
  /\ (gate = "lane") = (lane.pc \in {"check", "shoot"})
  /\ (cam = "lane") = (lane.pc \in {"gate", "check", "shoot", "keep"})
  /\ store \subseteq Ids /\ Cardinality(store) <= MaxTransfers

(* "STOP therefore wins while a composed request is queued behind ordinary  *)
(* camera I/O": once a STOP has been latched under the gate, the shutter of *)
(* that request does not open, whatever the arm and the telemetry did.      *)
NoShutterAfterStop == Shoot => ~trip.won \/ ~lane'.shot

(* A frame is handed out as evidence only if no STOP was latched between    *)
(* the dispatch and the telemetry after its shutter.                        *)
CapturedIsUnstopped ==
  \A i \in Ids : results'[i] = "captured" /\ results[i] # "captured" => ~trip.halted

(* STOP wins over a photograph, before its shutter and before its answer.   *)
StopWinsOverPhotograph == [][NoShutterAfterStop /\ CapturedIsUnstopped]_vars

(* A frame whose pose evidence failed can be claimed by nobody.             *)
InvalidIsGone == \A i \in store : i = lane.id \/ results[i] = "captured"

(* "Pi-proved near-capture bracket" (arm_mcp/server.py): the pose after the *)
(* frame was measured after its shutter.                                    *)
AfterIsMeasuredAfter == At("confirm") => seen.fresh

(* "STOP still reaches the controller without waiting": however long the    *)
(* camera holds the gate.                                                   *)
StopIsDelivered == stopPc # "idle" ~> stopPc = "idle"
=============================================================================
