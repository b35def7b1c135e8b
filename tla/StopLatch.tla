------------------------------ MODULE StopLatch ------------------------------
(***************************************************************************)
(* How the Pi gateway stops the arm and lets it go again: ArmService's     *)
(* stop, clear_stop and _recover_stop (simple_arm_api.py) over the serial  *)
(* controller's stop and reset (serial_arm_controller.py).                 *)
(*                                                                         *)
(* STOP calls run on their own threads and take none of the operation,     *)
(* motion and authority locks.  A clear and the background recovery do, so *)
(* at most one of them is under way: the lane.  A thread is cut where      *)
(* another can see the difference: at every exchange with the controller   *)
(* (serialised by the I/O lock), every update of the Pi's latch (under the *)
(* state lock) and every write of the durable marker.                      *)
(*                                                                         *)
(* _stop_generation is only ever compared with the value a clear or a      *)
(* recovery took from it, so it is kept as one bit, overtaken: the         *)
(* generation has moved since.                                             *)
(***************************************************************************)
EXTENDS FiniteSets

CONSTANT Callers     \* threads that serve STOP requests

VARIABLES
  legacy,        \* firmware 2.4: a stop is reported without its reason
  fwStopped,     \* the controller's STOP latch
  linkUp,        \* _connection = "online"
  gate,          \* _operator_inspection_required of the serial controller
  autoReported,  \* the cached stop has no explicit reason: recovery may reset it
  heard,         \* a HEARTBEAT answer not yet ingested: stopped or running
  latched,       \* _operator_stopped or _inspection_required
  reason,        \* _local_safety_stop_reason
  marker,        \* reason in the durable safety-latch file, "none" without it
  overtaken,     \* _stop_generation # the lane's captured generation
  required,      \* the clear's local_clear_required, then inspection_required
  lane,          \* where the clear or recovery is, "idle" if there is none
  stopPc,        \* where each STOP call is
  owed,          \* history: STOPs latched since a clear last began
  kept,          \* history: those of them in the marker
  acked,         \* history: those of them this boot of the controller answered
  missed         \* history: a STOP was not delivered after the lane's RESET

hat == <<legacy, fwStopped>>
link == <<linkUp, gate, autoReported, heard>>
latch == <<latched, reason>>
clear == <<overtaken, required>>
history == <<owed, kept, acked, missed>>
vars == <<hat, link, latch, marker, clear, lane, stopPc, history>>

Reasons == {"none", "stop", "unknown"}

StopStates == {"idle", "send", "receipt", "persist", "unknown", "unknownPersist"}

ClearStates == {"survey", "firstStop", "writeAhead", "declare", "reset", "finalize",
                "families", "recheck", "unlink", "commit", "commitError",
                "restop", "unknown", "unknownPersist"}

RecoveryStates == {"recover", "recoverFinalize", "verdict"}

-----------------------------------------------------------------------------
Init ==
  /\ legacy \in BOOLEAN
  /\ fwStopped = FALSE /\ linkUp = FALSE /\ gate = FALSE
  /\ autoReported = FALSE /\ heard = "none"
  /\ latched = FALSE /\ reason = "none" /\ marker = "none"
  /\ overtaken = FALSE /\ required = "none"
  /\ lane = "idle" /\ stopPc = [c \in Callers |-> "idle"]
  /\ owed = {} /\ kept = {} /\ acked = {} /\ missed = FALSE

-----------------------------------------------------------------------------
(* The controller and the link to it.                                       *)

(* A power cycle or watchdog reset of the ESP32: its latch is in RAM, and   *)
(* the changed boot identity faults the link at the next exchange.          *)
ControllerReboots ==
  /\ fwStopped' = FALSE
  /\ linkUp' = FALSE /\ autoReported' = (autoReported /\ gate)
  /\ acked' = {}
  /\ UNCHANGED <<legacy, gate, heard, latch, marker, clear, lane, stopPc,
                 owed, kept, missed>>

(* Firmware 2.4 latches STOP by itself on a lapse or a failed proof. *)
LegacyStops ==
  /\ legacy /\ fwStopped' = TRUE
  /\ UNCHANGED <<legacy, link, latch, marker, clear, lane, stopPc, history>>

(* close() joins the heartbeat thread; HELLO then reports the latch, unless *)
(* the firmware is too old to.                                              *)
Reconnect ==
  /\ ~linkUp /\ heard = "none"
  /\ linkUp' = TRUE
  /\ gate' = (gate \/ (fwStopped /\ ~legacy))
  /\ UNCHANGED <<hat, autoReported, heard, latch, marker, clear, lane, stopPc,
                 history>>

(* The heartbeat thread reads an answer under the I/O lock and ingests it   *)
(* without that lock.                                                       *)
HeartbeatAnswered ==
  /\ linkUp /\ heard = "none"
  /\ heard' = (IF fwStopped THEN "stopped" ELSE "running")
  /\ UNCHANGED <<hat, linkUp, gate, autoReported, latch, marker, clear, lane,
                 stopPc, history>>

HeartbeatIngested ==
  /\ heard # "none" /\ heard' = "none"
  /\ gate' = (gate \/ (heard = "stopped" /\ ~legacy))
  /\ autoReported' = (legacy /\ IF gate THEN autoReported ELSE heard = "stopped")
  /\ UNCHANGED <<hat, linkUp, latch, marker, clear, lane, stopPc, history>>

(* An exchange that fails closes the port.  Without a port nothing is sent, *)
(* and only the gate still shows a stop.                                    *)
LinkFaults == linkUp' = FALSE /\ autoReported' = (autoReported /\ gate)

(* STOP on the wire: acknowledged, or not, delivered or not. *)
StopAcknowledged ==
  /\ linkUp /\ fwStopped' = TRUE
  /\ UNCHANGED <<legacy, linkUp>>

StopUnacknowledged ==
  /\ LinkFaults
  /\ fwStopped' \in (IF linkUp THEN {fwStopped, TRUE} ELSE {fwStopped})
  /\ UNCHANGED legacy

-----------------------------------------------------------------------------
(* stop_for_commissioning, one call per caller.                             *)

At(c, here, next) == stopPc[c] = here /\ stopPc' = [stopPc EXCEPT ![c] = next]

(* Mutant of LatchLockFree: the marker is written without its lock.         *)
LatchLockIgnored == TRUE

(* _safety_latch_lock: only the clear's recheck and unlink keep it across   *)
(* more than one step.                                                      *)
LatchLockFree == lane # "unlink"

(* _latch_operator_stop *)
StopLatches(c) ==
  /\ At(c, "idle", "send")
  /\ latched' = TRUE
  /\ reason' = (IF reason = "none" THEN "stop" ELSE reason)
  /\ overtaken' = TRUE
  /\ owed' = owed \cup {c} /\ kept' = kept \ {c} /\ acked' = acked \ {c}
  /\ UNCHANGED <<hat, link, marker, required, lane, missed>>

StopSent(c) ==
  /\ At(c, "send", "receipt")
  /\ StopAcknowledged
  /\ acked' = acked \cup ({c} \cap owed)
  /\ UNCHANGED <<gate, autoReported, heard, latch, marker, clear, lane, owed,
                 kept, missed>>

(* The lane has a RESET on the wire behind it and has not yet concluded. *)
PastReset == lane \in {"finalize", "families", "recheck", "unlink", "commit"}

StopNotSent(c) ==
  /\ At(c, "send", "unknown")
  /\ StopUnacknowledged
  /\ missed' = (missed \/ PastReset)
  /\ UNCHANGED <<gate, heard, latch, marker, clear, lane, owed, kept, acked>>

(* The receipt closes the serial controller's own gate; a gate that is      *)
(* closed already keeps its reason.                                         *)
GateCloses == gate' = TRUE /\ autoReported' = (autoReported /\ gate)

StopReceipt(c) ==
  /\ At(c, "receipt", "persist")
  /\ GateCloses
  /\ UNCHANGED <<hat, linkUp, heard, latch, marker, clear, lane, history>>

StopPersists(c) ==
  /\ At(c, "persist", "idle")
  /\ LatchLockFree
  /\ marker' = "stop"
  /\ kept' = kept \cup ({c} \cap owed)
  /\ UNCHANGED <<hat, link, latch, clear, lane, owed, acked, missed>>

(* An OSError, before or after the file was replaced. *)
StopPersistFails(c) ==
  /\ At(c, "persist", "unknown")
  /\ LatchLockFree
  /\ marker' \in {marker, "stop"}
  /\ UNCHANGED <<hat, link, latch, clear, lane, history>>

(* _latch_stop_delivery_unknown: the generation stays. *)
StopUnknown(c) ==
  /\ At(c, "unknown", "unknownPersist")
  /\ latched' = TRUE /\ reason' = "unknown"
  /\ UNCHANGED <<hat, link, marker, clear, lane, history>>

StopUnknownPersists(c) ==
  /\ At(c, "unknownPersist", "idle")
  /\ LatchLockFree
  /\ \/ marker' = "unknown" /\ kept' = kept \cup ({c} \cap owed)
     \/ marker' \in {marker, "unknown"} /\ UNCHANGED kept
  /\ UNCHANGED <<hat, link, latch, clear, lane, owed, acked, missed>>

Stop(c) ==
  \/ StopLatches(c) \/ StopSent(c) \/ StopNotSent(c) \/ StopReceipt(c)
  \/ StopPersists(c) \/ StopPersistFails(c)
  \/ StopUnknown(c) \/ StopUnknownPersists(c)

-----------------------------------------------------------------------------
(* SerialArmController.reset.  Everything on the wire happens under one     *)
(* hold of the I/O lock: a status, which closes the gate over a stopped     *)
(* controller; a STOP first if the gate is closed over one that does not    *)
(* ask for inspection; then RESET.  The gate opens after that lock is gone. *)
(* Unless the caller says it inspected the arm, a gate closed before or by  *)
(* the status ends it there: neither that STOP nor RESET is sent.           *)

Step(here, next) == lane = here /\ lane' = next

Seen == gate \/ fwStopped

StatusSeen ==
  /\ linkUp /\ gate' = Seen
  /\ autoReported' = (IF gate THEN autoReported ELSE legacy /\ fwStopped)

ResetAccepted(inspected) ==
  /\ inspected \/ ~Seen
  /\ StatusSeen
  /\ fwStopped' = FALSE
  /\ UNCHANGED <<legacy, linkUp, heard>>

ResetRefused(inspected) ==
  /\ \/ ~inspected /\ gate /\ UNCHANGED <<gate, autoReported>>
     \/ StatusSeen
  /\ fwStopped' \in {fwStopped, fwStopped \/ (inspected /\ Seen)}
  /\ UNCHANGED <<legacy, linkUp, heard>>

ResetUnanswered(inspected) ==
  /\ \/ inspected /\ linkUp /\ gate' \in {gate, Seen} /\ fwStopped' \in {fwStopped, FALSE, Seen}
     \/ ~(inspected /\ linkUp) /\ UNCHANGED <<gate, fwStopped>>
  /\ linkUp' = FALSE
  /\ autoReported' = (gate' /\ IF gate THEN autoReported ELSE legacy)
  /\ UNCHANGED <<legacy, heard>>

GateOpens ==
  /\ gate' = FALSE /\ autoReported' = FALSE
  /\ UNCHANGED <<hat, linkUp, heard>>

(* The motion policy is sent again while the gate is still closed: an       *)
(* exchange that fails leaves it closed over a controller already reset.    *)
PolicyLost ==
  /\ gate /\ LinkFaults
  /\ UNCHANGED <<hat, gate, heard>>

-----------------------------------------------------------------------------
(* clear_stop_for_commissioning.                                            *)

ClearBegins ==
  /\ Step("idle", "survey")
  /\ overtaken' = FALSE
  /\ required' = (IF latched THEN "stop" ELSE "none")
  /\ owed' = {} /\ kept' = {} /\ acked' = {} /\ missed' = FALSE
  /\ UNCHANGED <<hat, link, latch, marker, stopPc>>

(* A latch of the Pi alone needs a physical STOP for RESET to clear. *)
ClearSurveys ==
  /\ LET reported == gate \/ autoReported
     IN \/ reported /\ Step("survey", "writeAhead")
        \/ ~reported /\ required # "none" /\ Step("survey", "firstStop")
        \/ ~reported /\ required = "none" /\ Step("survey", "reset")
  /\ UNCHANGED <<hat, link, latch, marker, clear, stopPc, history>>

(* A STOP of the lane's own: its receipt closes the gate. *)
LaneStops(here, next) ==
  /\ Step(here, next)
  /\ StopAcknowledged
  /\ GateCloses
  /\ UNCHANGED <<heard, latch, marker, clear, stopPc, history>>

LaneCannotStop(here, next) ==
  /\ Step(here, next)
  /\ StopUnacknowledged
  /\ UNCHANGED <<gate, heard, latch, marker, clear, stopPc, history>>

FirstStop == LaneStops("firstStop", "writeAhead") \/ LaneCannotStop("firstStop", "idle")

Why == IF reason = "none" THEN "stop" ELSE reason

(* Mutant of WriteAhead: the marker is left to STOP itself.                 *)
WriteAheadSkipped ==
  /\ Step("writeAhead", "declare")
  /\ required' = Why
  /\ UNCHANGED <<hat, link, latch, marker, overtaken, stopPc, history>>

(* From before RESET until the commit a restarted Pi must refuse motion. *)
WriteAhead ==
  /\ Step("writeAhead", "declare")
  /\ required' = Why /\ marker' = Why
  /\ UNCHANGED <<hat, link, latch, overtaken, stopPc, history>>

WriteAheadFails ==
  /\ Step("writeAhead", "idle")
  /\ marker' \in {marker, Why}
  /\ latched' = TRUE /\ reason' = "unknown"
  /\ UNCHANGED <<hat, link, clear, stopPc, history>>

Declare ==
  /\ Step("declare", "reset")
  /\ latched' = TRUE /\ reason' = required
  /\ UNCHANGED <<hat, link, marker, clear, stopPc, history>>

(* The clear inspects only if the Pi or the link held a STOP when it began. *)
Inspected == required # "none"

ClearResets ==
  /\ \/ Step("reset", "finalize") /\ ResetAccepted(Inspected)
     \/ Step("reset", "idle") /\ (ResetRefused(Inspected) \/ ResetUnanswered(Inspected))
  /\ UNCHANGED <<latch, marker, clear, stopPc, history>>

ClearOpensGate ==
  /\ Step("finalize", "families")
  /\ GateOpens
  /\ UNCHANGED <<latch, marker, clear, stopPc, history>>

ClearLosesPolicy ==
  /\ Step("finalize", "idle") /\ required # "none"
  /\ PolicyLost
  /\ UNCHANGED <<latch, marker, clear, stopPc, history>>

(* Every servo family is declared again before release; a declaration that  *)
(* is not acknowledged closes the port and latches (_latch_inspection_stop).*)
(* Behind a closed gate nothing is sent.                                    *)
ClearDeclaresFamilies ==
  /\ Step("families", IF overtaken THEN "restop" ELSE "recheck")
  /\ UNCHANGED <<hat, link, latch, marker, clear, stopPc, history>>

FamiliesFail ==
  /\ Step("families", "restop") /\ linkUp /\ ~gate
  /\ LinkFaults
  /\ latched' = TRUE /\ reason' = Why /\ overtaken' = TRUE
  /\ UNCHANGED <<hat, gate, heard, marker, required, stopPc, history>>

MayUnlink == required # "none" /\ ~overtaken

ClearRechecks ==
  /\ Step("recheck", IF MayUnlink THEN "unlink" ELSE "commit")
  /\ UNCHANGED <<hat, link, latch, marker, clear, stopPc, history>>

Unlink ==
  /\ Step("unlink", "commit")
  /\ marker' = "none"
  /\ UNCHANGED <<hat, link, latch, clear, stopPc, history>>

UnlinkFails ==
  /\ Step("unlink", "commitError")
  /\ marker' \in {marker, "none"}
  /\ UNCHANGED <<hat, link, latch, clear, stopPc, history>>

(* Mutant of CommitClear: the last look at the generation is missing.       *)
CommitBlindly ==
  /\ Step("commit", "idle")
  /\ latched' = FALSE /\ reason' = "none"
  /\ UNCHANGED <<hat, link, marker, clear, stopPc, history>>

(* A STOP since this clear began wins. *)
CommitClear ==
  /\ Step("commit", IF overtaken THEN "restop" ELSE "idle")
  /\ IF overtaken THEN UNCHANGED latch
     ELSE latched' = FALSE /\ reason' = "none"
  /\ UNCHANGED <<hat, link, marker, clear, stopPc, history>>

CommitError ==
  /\ Step("commitError", "restop")
  /\ latched' = TRUE /\ reason' = "unknown"
  /\ UNCHANGED <<hat, link, marker, clear, stopPc, history>>

(* Mutant of Restop: an overtaken clear just returns.                       *)
RestopSkipped ==
  /\ Step("restop", "idle")
  /\ UNCHANGED <<hat, link, latch, marker, clear, stopPc, history>>

(* RESET may have undone a newer STOP: stop the controller again. *)
Restop == LaneStops("restop", "idle") \/ LaneCannotStop("restop", "unknown")

LaneUnknown ==
  /\ Step("unknown", "unknownPersist")
  /\ latched' = TRUE /\ reason' = "unknown"
  /\ UNCHANGED <<hat, link, marker, clear, stopPc, history>>

LaneUnknownPersists ==
  /\ Step("unknownPersist", "idle")
  /\ marker' \in {marker, "unknown"}
  /\ UNCHANGED <<hat, link, latch, clear, stopPc, history>>

-----------------------------------------------------------------------------
(* _recover_stop: clear an automatic stop nobody asked for.                 *)

RecoveryBegins ==
  /\ Step("idle", "recover")
  /\ linkUp /\ autoReported /\ ~latched
  /\ overtaken' = FALSE
  /\ UNCHANGED <<hat, link, latch, marker, required, stopPc, history>>

RecoveryResets ==
  /\ \/ Step("recover", "recoverFinalize") /\ ResetAccepted(TRUE)
     \/ Step("recover", "idle") /\ (ResetRefused(TRUE) \/ ResetUnanswered(TRUE))
  /\ UNCHANGED <<latch, marker, clear, stopPc, history>>

RecoveryOpensGate ==
  /\ Step("recoverFinalize", "verdict")
  /\ GateOpens
  /\ UNCHANGED <<latch, marker, clear, stopPc, history>>

RecoveryLosesPolicy ==
  /\ Step("recoverFinalize", "idle")
  /\ PolicyLost
  /\ UNCHANGED <<latch, marker, clear, stopPc, history>>

RecoveryConcludes ==
  /\ Step("verdict", IF latched \/ overtaken THEN "restop" ELSE "idle")
  /\ UNCHANGED <<hat, link, latch, marker, clear, stopPc, history>>

-----------------------------------------------------------------------------
(* The gateway process ends, in the middle of anything, and starts again:   *)
(* what it knows of an operator STOP is the marker.                         *)
PiRestarts ==
  /\ linkUp' = FALSE /\ gate' = FALSE /\ autoReported' = FALSE /\ heard' = "none"
  /\ latched' = (marker # "none") /\ reason' = marker
  /\ overtaken' = FALSE /\ required' = "none" /\ lane' = "idle"
  /\ stopPc' = [c \in Callers |-> "idle"]
  /\ owed' = kept /\ missed' = FALSE
  /\ acked' = (IF fwStopped THEN acked \cap kept ELSE {})
  /\ UNCHANGED <<hat, marker, kept>>

Clear ==
  \/ ClearBegins \/ ClearSurveys \/ FirstStop
  \/ WriteAhead \/ WriteAheadFails \/ Declare
  \/ ClearResets \/ ClearOpensGate \/ ClearLosesPolicy
  \/ ClearDeclaresFamilies \/ FamiliesFail
  \/ ClearRechecks \/ Unlink \/ UnlinkFails \/ CommitClear \/ CommitError

Recovery ==
  \/ RecoveryBegins \/ RecoveryResets \/ RecoveryOpensGate
  \/ RecoveryLosesPolicy \/ RecoveryConcludes

LaneEnds == Restop \/ LaneUnknown \/ LaneUnknownPersists

Environment ==
  \/ ControllerReboots \/ LegacyStops \/ Reconnect
  \/ HeartbeatAnswered \/ HeartbeatIngested \/ PiRestarts

Next == Clear \/ Recovery \/ LaneEnds \/ Environment \/ \E c \in Callers : Stop(c)

Spec == Init /\ [][Next]_vars

-----------------------------------------------------------------------------
TypeOK ==
  /\ legacy \in BOOLEAN /\ fwStopped \in BOOLEAN /\ linkUp \in BOOLEAN
  /\ gate \in BOOLEAN /\ autoReported \in BOOLEAN /\ (autoReported => legacy)
  /\ heard \in {"none", "stopped", "running"}
  /\ latched \in BOOLEAN /\ reason \in Reasons /\ marker \in Reasons
  /\ overtaken \in BOOLEAN /\ required \in Reasons
  /\ lane \in {"idle"} \cup ClearStates \cup RecoveryStates
  /\ lane = "unlink" => required # "none"
  /\ stopPc \in [Callers -> StopStates]
  /\ owed \subseteq Callers /\ kept \subseteq owed /\ acked \subseteq owed
  /\ missed \in BOOLEAN

(* A later STOP wins over the clear in flight: once a STOP has latched, no  *)
(* clear that began before it releases the Pi, whatever the two have sent.  *)
LaterStopStaysLatched == owed # {} => latched

(* ... and on disk: once such a STOP is in the marker, no clear that began  *)
(* before it removes the marker, so a restarted Pi refuses motion as well.  *)
LaterStopStaysOnDisk == kept # {} => marker # "none"

(* The write-ahead: while a clear may have reset the controller and has not *)
(* decided to commit, a crash leaves the marker behind.                     *)
WriteAheadHolds ==
  lane \in {"declare", "reset", "finalize", "families", "recheck", "unlink"}
    /\ required # "none" => marker # "none"

(* Where a RESET may have undone a STOP and the lane still has to answer.   *)
Concluding == PastReset \/ lane \in {"recoverFinalize", "verdict", "restop",
                                     "commitError", "unknown", "unknownPersist"}

(* A STOP that returned, answered by this boot and not cleared since.       *)
Answered == \E c \in acked : stopPc[c] = "idle"

(* An answered STOP stands below the Pi's latch too: the controller is      *)
(* stopped, or the serial link refuses every motion command, or the Pi      *)
(* knows that its last STOP is unproved.                                    *)
AnsweredStopStands ==
  Answered /\ ~Concluding => fwStopped \/ gate \/ reason = "unknown"

(* simple_arm_api.py:7416: "A later STOP always wins over the clear request *)
(* that was already in flight, including when it reached firmware before    *)
(* this RESET": an answered STOP leaves the controller stopped.             *)
LaterStopWinsAtTheController ==
  Answered /\ ~Concluding => fwStopped \/ reason = "unknown"

(* simple_arm_api.py:7370: "an older clear can never unlink that newer      *)
(* STOP_DELIVERY_UNKNOWN file", here a STOP that was not delivered after    *)
(* the clear's own RESET.                                                   *)
UndeliveredStopStaysOnDisk ==
  [][missed /\ marker = "unknown" => marker' # "none"]_vars

(* simple_arm_api.py:7281: an inspected RESET converges both API latches:   *)
(* once the Pi is released, the serial gate closes only over a controller   *)
(* that is stopped.                                                         *)
LatchesConverge ==
  [][HeartbeatIngested /\ ~latched /\ ~gate /\ gate' => fwStopped]_vars

=============================================================================
