--------------------------- MODULE CameraProvider ---------------------------
(***************************************************************************)
(* The Raspberry Pi camera (pi_camera.py: PiCameraProvider) under the      *)
(* service that serves it (camera_api.py: CameraEvidenceService).          *)
(*                                                                         *)
(* One lock serialises the operations; what is hard is inside one: each is *)
(* a row of driver calls, any of which may fail, and the provider must end *)
(* every row knowing what the driver was left with.                        *)
(***************************************************************************)
EXTENDS Naturals

Profiles == {"survey", "detail"}

(* CameraHardwareProfile: the focus ranges tried in each profile. *)
Ranges(p) == IF p = "detail" THEN {"macro", "full", "normal"} ELSE {"normal", "full"}

VARIABLES
  service,      \* CameraEvidenceService._state
  state,        \* PiCameraProvider._state
  profile,      \* _current_capture_profile
  focus,        \* _autofocus_status: mode, state and range
  driver,       \* the camera as it really is
  pc, want,     \* the operation under way and the profile it wants
  frame         \* profile of the last frame handed out, and how it was taken

vars == <<service, state, profile, focus, driver, pc, want, frame>>

NoFrame == [asked |-> "none", taken |-> "none", job |-> FALSE]
Unknown == [mode |-> "unknown", state |-> "not_started", range |-> "none"]
FixedFocus == [mode |-> "fixed", state |-> "fixed", range |-> "none"]
Misconfigured == [mode |-> "unknown", state |-> "configuration_failed", range |-> "none"]
Focused(r) == [mode |-> "continuous", state |-> "configured", range |-> r]

(* motor: the driver advertises AfMode; ranged: and AfRange. *)
Closed(motor, ranged) ==
  [motor |-> motor, ranged |-> ranged, open |-> FALSE, streams |-> FALSE,
   profile |-> "none", mode |-> "off", range |-> "default", job |-> FALSE]

Init ==
  /\ service = "new" /\ state = "new" /\ profile = "none" /\ focus = Unknown
  /\ \E m \in BOOLEAN, r \in BOOLEAN : driver = Closed(m, r /\ m)
  /\ pc = "idle" /\ want = "none" /\ frame = NoFrame

At(p) == pc = p

(* A driver call of the operation under way. *)
Call(d, next) == driver' = d /\ pc' = next /\ UNCHANGED <<service, state, want, frame>>

(* _release: stop and close, each tried whatever the other did. *)
Released == [driver EXCEPT !.open = FALSE, !.streams = FALSE, !.job = FALSE]

(* _fail_autofocus_closed: nothing more is asked of this camera. *)
FailClosed ==
  /\ state' = "closed" /\ profile' = "none" /\ focus' = [focus EXCEPT !.state = "closed"]
  /\ driver' = Released

-----------------------------------------------------------------------------
(* start, and the first profile.                                            *)

Start ==
  /\ At("idle") /\ service = "new" /\ pc' = "configure" /\ want' = "survey"
  /\ driver' = [driver EXCEPT !.open = TRUE]
  /\ UNCHANGED <<service, state, profile, focus, frame>>

(* A camera that could not be set up is released; the service never tries   *)
(* again.                                                                   *)
StartFails ==
  /\ state = "new" /\ pc \in {"configure", "focus", "run"}
  /\ driver' = Released /\ service' = "unavailable" /\ pc' = "idle" /\ state' = "closed"
  /\ UNCHANGED <<profile, focus, want, frame>>

-----------------------------------------------------------------------------
(* capture.                                                                 *)

Capture(p) ==
  /\ At("idle") /\ service = "started" /\ state = "started" /\ want' = p
  /\ pc' = IF profile = p THEN "shoot" ELSE "stop"
  /\ UNCHANGED <<service, state, profile, focus, driver, frame>>

(* _activate_capture_profile: stop, configure, focus, start.                *)
StopStream ==
  /\ At("stop") /\ Call([driver EXCEPT !.streams = FALSE], "configure")
  /\ UNCHANGED <<profile, focus>>

Configures ==
  /\ At("configure") /\ Call([driver EXCEPT !.profile = want], "focus")
  /\ profile' = want /\ UNCHANGED focus

(* _configure_autofocus: the first range the driver takes; the last choice  *)
(* names none and leaves the driver's.  A refused call changes nothing.     *)
Focuses(next) ==
  \/ ~driver.motor /\ focus' = FixedFocus /\ Call(driver, next)
  \/ focus' = Misconfigured /\ Call(driver, next)
  \/ /\ driver.motor /\ driver.ranged
     /\ \E r \in Ranges(profile) :
          focus' = Focused(r) /\ Call([driver EXCEPT !.mode = "continuous", !.range = r], next)
  \/ /\ driver.motor /\ focus' = Focused("unavailable")
     /\ Call([driver EXCEPT !.mode = "continuous"], next)

FocusesFirst == At("focus") /\ Focuses("run") /\ UNCHANGED profile

Runs ==
  /\ At("run") /\ driver' = [driver EXCEPT !.streams = TRUE]
  /\ state' = "started" /\ service' = "started"
  /\ pc' = IF state = "new" THEN "idle" ELSE "shoot"
  /\ UNCHANGED <<profile, focus, want, frame>>

(* A switch that failed closes the provider; the service only reports a     *)
(* capture that failed.                                                     *)
SwitchFails ==
  /\ state = "started" /\ pc \in {"stop", "configure", "focus", "run"} /\ pc' = "idle"
  /\ FailClosed /\ UNCHANGED <<service, want, frame>>

Shoot ==
  /\ At("shoot") /\ pc' = "idle"
  /\ \/ /\ driver.streams
        /\ frame' = [asked |-> want, taken |-> driver.profile, job |-> driver.job]
     \/ UNCHANGED frame
  /\ UNCHANGED <<service, state, profile, focus, driver, want>>

-----------------------------------------------------------------------------
(* autofocus: one bounded cycle.                                            *)

Autofocus ==
  /\ At("idle") /\ service = "started" /\ state = "started"
  /\ focus.mode = "continuous" /\ focus.state = "configured" /\ pc' = "widen"
  /\ UNCHANGED <<service, state, profile, focus, driver, want, frame>>

(* _prefer_full_range_for_manual_autofocus: only a hint. *)
Widens ==
  /\ At("widen")
  /\ \/ driver.ranged /\ Call([driver EXCEPT !.range = "full"], "cycle")
     \/ Call(driver, "cycle")
  /\ UNCHANGED <<profile, focus>>

(* autofocus_cycle: one-shot mode and a job, or not started at all.         *)
Cycles ==
  /\ At("cycle")
  /\ \/ Call([driver EXCEPT !.mode = "auto", !.job = TRUE], "wait")
     \/ Call(driver, "unwind")
     \/ Call([driver EXCEPT !.mode = "auto"], "unwind")
  /\ UNCHANGED <<profile, focus>>

(* Mutant of Unwinds: the range that was widened stays. *)
UnwindsNot ==
  /\ At("unwind") /\ Call(driver, "idle") /\ UNCHANGED <<profile, focus>>

(* A cycle that did not start: the normal focus is set again. *)
Unwinds == At("unwind") /\ Focuses("idle") /\ UNCHANGED profile

(* The job is done; or time is over and it is cancelled.                    *)
Waits ==
  /\ At("wait")
  /\ \/ Call([driver EXCEPT !.job = FALSE], "restore")
     \/ Call(driver, "cancel")
  /\ UNCHANGED <<profile, focus>>

Cancels ==
  /\ At("cancel") /\ Call([driver EXCEPT !.job = FALSE], "restore")
  /\ UNCHANGED <<profile, focus>>

Restores ==
  /\ At("restore") /\ Focuses("idle") /\ UNCHANGED profile
  /\ focus'.mode = "continuous"

(* Anything else is fatal: closed, and the service says so.                 *)
AutofocusFatal ==
  /\ pc \in {"wait", "cancel", "restore"} /\ pc' = "idle" /\ FailClosed
  /\ service' = "unavailable" /\ UNCHANGED <<want, frame>>

-----------------------------------------------------------------------------
Close ==
  /\ At("idle") /\ service # "closed" /\ service' = "closed"
  /\ FailClosed /\ UNCHANGED <<pc, want, frame>>

Next ==
  \/ Start \/ StartFails \/ StopStream \/ Configures \/ FocusesFirst \/ Runs
  \/ \E p \in Profiles : Capture(p)
  \/ SwitchFails \/ Shoot
  \/ Autofocus \/ Widens \/ Cycles \/ Unwinds \/ Waits \/ Cancels \/ Restores
  \/ AutofocusFatal \/ Close

Spec == Init /\ [][Next]_vars

-----------------------------------------------------------------------------
(* The type of the state; a provider that is closed has released its camera *)
(* for good, however it came to be closed.                                  *)
TypeOK ==
  /\ service \in {"new", "started", "unavailable", "closed"}
  /\ state \in {"new", "started", "closed"} /\ profile \in Profiles \cup {"none"}
  /\ driver.open \in BOOLEAN /\ driver.streams \in BOOLEAN /\ driver.job \in BOOLEAN
  /\ pc \in {"idle", "stop", "configure", "focus", "run", "shoot", "widen", "cycle",
             "unwind", "wait", "cancel", "restore"}
  /\ state = "closed" => ~driver.open /\ ~driver.streams
  /\ At("idle") /\ state = "started" => driver.streams

(* Between operations the focus the status claims is the focus the camera   *)
(* has: a cycle, a switch and every failure in them leave no claim behind   *)
(* that the driver does not keep.                                           *)
FocusIsTrue ==
  At("idle") /\ state = "started" /\ focus.mode = "continuous" =>
    /\ driver.mode = "continuous"
    /\ focus.range # "unavailable" => driver.range = focus.range

(* No autofocus job outlives its request: no later frame is taken while the *)
(* lens still moves.                                                        *)
NoJobBehindFrame == ~frame.job

(* A frame has the profile it was asked for, whatever switches failed.      *)
FrameAsAsked == frame.asked = frame.taken

(* "Make an indeterminate Picamera2 instance unavailable": a service that   *)
(* says it is available has a camera that can still be used.                *)
AvailableIsUsable == At("idle") /\ service = "started" => state = "started"
=============================================================================
