------------------------------ MODULE MCCameras -----------------------------
(***************************************************************************)
(* The photograph of a pose and the camera driver for TLC.  A behaviour is *)
(* of one of them: bench says which.  The other module's variables then    *)
(* stay in their initial state.                                            *)
(***************************************************************************)
EXTENDS Observation

VARIABLES bench, service, state, profile, focus, driver, pc, want, frame

provider == <<service, state, profile, focus, driver, pc, want, frame>>

Provider == INSTANCE CameraProvider

MCInit ==
  /\ bench \in {"photo", "provider"} /\ Init /\ Provider!Init
  /\ bench = "photo" => driver = Provider!Closed(TRUE, TRUE)

(* A closed service is closed for good. *)
ProviderIsClosed ==
  /\ bench = "provider" /\ service = "closed" /\ UNCHANGED <<bench, vars, provider>>

MCNext ==
  \/ bench = "photo" /\ Next /\ UNCHANGED <<bench, provider>>
  \/ bench = "provider" /\ Provider!Next /\ UNCHANGED <<bench, vars>>
  \/ ProviderIsClosed

MCStopSpec ==
  /\ MCInit /\ [][MCNext]_<<bench, vars, provider>>
  /\ WF_vars(bench = "photo" /\ StopStep)

-----------------------------------------------------------------------------
(* Every variable stays in its range, and a provider that is closed has     *)
(* released its camera for good.                                            *)
TypesOK == TypeOK /\ Provider!TypeOK

(* A frame is what it says: between operations the focus the status claims  *)
(* is the focus the camera has, no autofocus job outlives its request, a    *)
(* frame has the profile it was asked for, whatever switches failed, and    *)
(* one whose pose evidence failed can be claimed by nobody.                 *)
FramesAreTrue ==
  /\ TypesOK /\ InvalidIsGone
  /\ Provider!FocusIsTrue /\ Provider!NoJobBehindFrame /\ Provider!FrameAsAsked
=============================================================================
