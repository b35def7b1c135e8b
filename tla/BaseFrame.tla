------------------------------ MODULE BaseFrame ------------------------------
(***************************************************************************)
(* The counted frame of the Base (joint_1), whose encoder wraps four times *)
(* in one turn of the joint: the servo's coordinate, the HAT's proof that  *)
(* it followed it without a break, the gateway's cached count, and the     *)
(* zero and the range it keeps in memory and on disk (ArmService and       *)
(* JointStore of simple_arm_api.py).                                       *)
(*                                                                         *)
(* A coordinate is identified by a number; a power loss of the servo       *)
(* begins a new one.  A zero, a limit, a count or a goal carries the       *)
(* coordinate it was measured in: it is true in that one only.             *)
(***************************************************************************)
EXTENDS Integers

CONSTANTS
  Coords,       \* bound on the coordinates of the servo
  Boots         \* bound on the boots of the HAT

FaultKinds == {"disk", "reply", "crash", "refused", "clear", "race", "restart"}

ASSUME FrameAssumption == Coords \in Nat /\ Coords >= 2 /\ Boots \in Nat \ {0}

VARIABLES
  faults,       \* which of FaultKinds may happen in this behaviour
  coord,        \* the coordinate the servo counts in
  valid,        \* the HAT has followed it since an explicit zero
  boot,         \* the boot of the HAT
  link,         \* [up, boot]: what transport_state reports
  bootId,       \* ArmService._multi_turn_boot_id, 0 for none
  raw,          \* _multi_turn_raw of the Base
  armed,        \* the Base is in _multi_turn_armed
  held, goal,   \* the Base in _held; _goals["joint_1"]
  mem, disk,    \* [zero, range] of JointStore, and of arm-joints.json
  gate, shut,   \* base-reference-required.json; _base_reference_clear_incomplete
  op,           \* the request in the operation lane
  home,         \* what _home_multi_turn returned
  srv           \* the read the service thread has not written back

system ==
  <<coord, valid, boot, link, bootId, raw, armed, held, goal, mem, disk, gate, shut, op, home, srv>>
vars == <<faults, system>>
hat == <<coord, valid, boot>>
cache == <<bootId, raw, armed>>
drive == <<held, goal>>
store == <<mem, disk, gate, shut>>

None == 0                             \* no zero, no limit, no goal
Old == 1                              \* measured in a coordinate that is gone
Broken == -1                          \* a limit shifted by another frame's zero
NoCount == [at |-> None, boot |-> 0]
NoRead == [kind |-> "none", valid |-> FALSE, count |-> NoCount]

(* A commissioned arm whose HAT runs on, one whose HAT was switched off, a  *)
(* new one, and one restored from an archive (prepare_arm_recovery.py).     *)
Init ==
  /\ faults \in SUBSET FaultKinds
  /\ coord = 2 /\ boot = 1 /\ link = [up |-> TRUE, boot |-> 1]
  /\ bootId = 0 /\ raw = NoCount /\ armed = FALSE /\ held = FALSE /\ goal = None
  /\ shut = FALSE /\ op = "idle" /\ home = None /\ srv = NoRead
  /\ \/ valid = TRUE /\ gate = FALSE /\ mem = [zero |-> 2, range |-> 2]
     \/ valid = FALSE /\ gate \in BOOLEAN /\ mem = [zero |-> Old, range |-> Old]
     \/ valid = FALSE /\ gate = FALSE /\ mem = [zero |-> None, range |-> None]
  /\ disk = mem

-----------------------------------------------------------------------------
(* The servo, the HAT and the link.                                         *)

PowerLoss ==
  /\ coord < Coords /\ coord' = coord + 1 /\ valid' = FALSE
  /\ UNCHANGED <<boot, link, cache, drive, store, op, home, srv>>

HatReboots ==
  /\ boot < Boots /\ boot' = boot + 1 /\ valid' = FALSE
  /\ UNCHANGED <<coord, link, cache, drive, store, op, home, srv>>

LinkDrops ==
  /\ link.up /\ link' = [link EXCEPT !.up = FALSE]
  /\ UNCHANGED <<hat, cache, drive, store, op, home, srv>>

(* By the service thread, or by POST /controller/reconnect on another one.  *)
Reconnects ==
  /\ ~link.up /\ op = "idle" /\ link' = [up |-> TRUE, boot |-> boot]
  /\ UNCHANGED <<hat, cache, drive, store, op, home, srv>>

(* A command is answered: the guard of the serial link compares the boots.  *)
Answers == link.up /\ link.boot = boot

-----------------------------------------------------------------------------
(* _sync_multi_turn_identity: what is cached survives on the same boot only.*)

Kept == link.up /\ bootId \in {0, link.boot}

Sync ==
  /\ bootId' = IF link.up THEN link.boot ELSE bootId
  /\ raw' = IF Kept THEN raw ELSE NoCount
  /\ armed' = (armed /\ Kept)
  /\ goal' = IF Kept THEN goal ELSE None

(* _home_multi_turn holds ArmService._lock for all its serial exchanges.    *)
LockFree == op \notin {"homing", "undo"}

(* Any reader of the state looks at the identity first.                     *)
Look == LockFree /\ Sync /\ UNCHANGED <<hat, link, held, store, op, home, srv>>

(* _arm_multi_turn, _refresh_multi_turn: a read, then its result under the  *)
(* lock.  Nothing but that lock keeps a homing out from between.            *)
ServiceReads(kind) ==
  /\ srv = NoRead /\ LockFree /\ mem.zero # None /\ link.up
  /\ kind = "arm" => ~(armed /\ Kept)
  /\ Sync
  /\ IF link.boot = boot
     THEN /\ srv' = [kind |-> kind, valid |-> valid, count |-> [at |-> coord, boot |-> boot]]
          /\ UNCHANGED link
     ELSE link' = [link EXCEPT !.up = FALSE] /\ UNCHANGED srv
  /\ UNCHANGED <<hat, held, store, op, home>>

(* Mutant of ServiceWrites: a lost frame is never adopted again. *)
ServiceNeverArms ==
  /\ srv # NoRead /\ LockFree /\ srv' = NoRead
  /\ raw' = (IF srv.kind = "arm" THEN raw ELSE NoCount) /\ armed' = FALSE
  /\ UNCHANGED <<hat, link, bootId, drive, store, op, home>>

ServiceWrites ==
  /\ srv # NoRead /\ LockFree /\ srv' = NoRead
  /\ \/ srv.valid /\ raw' = srv.count /\ armed' = TRUE
     \/ ~srv.valid /\ srv.kind = "refresh" /\ raw' = NoCount /\ armed' = FALSE
     \/ ~srv.valid /\ srv.kind = "arm" /\ UNCHANGED <<raw, armed>>
  /\ UNCHANGED <<hat, link, bootId, drive, store, op, home>>

-----------------------------------------------------------------------------
(* Torque and motion of the Base.                                           *)

(* require_base_reference_ready. *)
Ready == ~gate /\ ~shut

(* _prepare_multi_turn_drive: the same boot, and a valid count.             *)
Prepared ==
  /\ Ready /\ Kept /\ Answers /\ valid
  /\ bootId' = link.boot /\ raw' = [at |-> coord, boot |-> boot] /\ armed' = TRUE

Torque ==
  /\ op = "idle" /\ Prepared /\ held' = TRUE
  /\ UNCHANGED <<hat, link, goal, store, op, home, srv>>

(* targets: the goal is measured from the stored zero.                      *)
Target ==
  /\ op = "idle" /\ mem.zero # None /\ Prepared /\ held' = TRUE /\ goal' = mem.zero
  /\ UNCHANGED <<hat, link, store, op, home, srv>>

(* _apply_hold of a renewal drops a Base it cannot prepare.                 *)
Renewal ==
  /\ held /\ LockFree /\ Ready /\ Sync
  /\ \/ ~(Kept /\ Answers) /\ held' = FALSE
     \/ Kept /\ Answers /\ held' = valid
  /\ UNCHANGED <<hat, link, store, op, home, srv>>

(* _chase_goals sends the goal again, and the HAT accepts it.               *)
Chase ==
  /\ op = "idle" /\ Ready /\ held /\ goal # None /\ raw # NoCount /\ Answers /\ valid
  /\ UNCHANGED system

Release ==
  /\ op = "idle" /\ held /\ held' = FALSE /\ goal' = None
  /\ UNCHANGED <<hat, link, cache, store, op, home, srv>>

-----------------------------------------------------------------------------
(* calibrate: "Set zero here" of the Base.                                  *)

HomeBegins ==
  /\ op = "idle" /\ link.up /\ ~held /\ ("race" \in faults \/ srv = NoRead)
  /\ bootId' = link.boot /\ raw' = NoCount /\ armed' = FALSE /\ goal' = None
  /\ op' = "homing" /\ UNCHANGED <<hat, link, held, store, home, srv>>

(* MULTITURN ON, ODO_ZERO, ODO_READ and the boot, adjacent on the UART.     *)
HomeAnswered ==
  /\ op = "homing" /\ Answers
  /\ valid' = TRUE /\ raw' = [at |-> coord, boot |-> boot] /\ armed' = TRUE
  /\ home' = coord /\ op' = "homed"
  /\ UNCHANGED <<coord, boot, link, bootId, drive, store, srv>>

(* It fails before, after, or - its reply lost - with the frame captured.   *)
HomeFails ==
  /\ op = "homing" /\ op' = "undo" /\ link' \in {link, [link EXCEPT !.up = FALSE]}
  /\ valid' \in IF Answers THEN {valid, FALSE} \cup (IF "reply" \in faults THEN {TRUE} ELSE {})
                ELSE {valid}
  /\ UNCHANGED <<coord, boot, cache, drive, store, home, srv>>

(* MULTITURN OFF, whose own failure is ignored.                             *)
HomeUndone ==
  /\ op = "undo" /\ op' = "idle"
  /\ valid' \in IF Answers THEN {valid, FALSE} ELSE {valid}
  /\ UNCHANGED <<coord, boot, link, cache, drive, store, home, srv>>

(* Mutant of Shifted: the limits stay where they are. *)
ShiftedNot(m) == [m EXCEPT !.zero = home]

(* A saved range moves with the zero; without a zero it stays.              *)
Shifted(m) ==
  [zero |-> home,
   range |-> IF None \in {m.zero, m.range} THEN m.range
             ELSE IF m.range = m.zero THEN home ELSE Broken]

(* Another part of the request may be refused now: nothing is taken back.   *)
Calibrated ==
  /\ op = "homed" /\ mem' = Shifted(mem)
  /\ \/ op' = "save"
     \/ "refused" \in faults /\ Ready /\ op' = "idle"
  /\ UNCHANGED <<hat, link, cache, drive, disk, gate, shut, home, srv>>

(* With the recovery marker the cached count must still be the homed one.   *)
Verified == Ready \/ (armed /\ raw.at = home)

Saves ==
  /\ op = "save" /\ Verified /\ disk' = mem
  /\ op' = IF Ready THEN "idle" ELSE "open"
  /\ UNCHANGED <<hat, link, cache, drive, mem, gate, shut, home, srv>>

Unverified ==
  /\ op = "save" /\ ~Verified /\ op' = "idle"
  /\ UNCHANGED <<hat, link, cache, drive, store, home, srv>>

(* An ordinary save ignores the error; both leave the request.              *)
SaveFails ==
  /\ "disk" \in faults /\ op = "save" /\ Verified /\ op' = "idle" /\ disk' \in {disk, mem}
  /\ UNCHANGED <<hat, link, cache, drive, mem, gate, shut, home, srv>>

(* persisted_base_zero_matches, then clear_base_reference_requirement: the  *)
(* file cannot be read again, or the marker's removal is not durable.       *)
Persisted == disk.zero = home

GateOpens ==
  /\ op = "open" /\ op' = "idle" /\ (Persisted /\ gate' = FALSE /\ shut' = FALSE)
  /\ UNCHANGED <<hat, link, cache, drive, mem, disk, home, srv>>

GateFails ==
  /\ "disk" \in faults /\ op = "open" /\ op' = "idle"
  /\ \/ UNCHANGED <<gate, shut>>
     \/ gate' \in {gate, FALSE} /\ shut' = TRUE
  /\ UNCHANGED <<hat, link, cache, drive, mem, disk, home, srv>>

-----------------------------------------------------------------------------
(* Other calibrations, and the gateway process.                             *)

(* A limit taken here: live_raw, the cached count or a fresh one.           *)
SetRange ==
  /\ op = "idle" /\ Kept
  /\ IF raw # NoCount
     THEN mem' = [mem EXCEPT !.range = raw.at] /\ UNCHANGED raw
     ELSE /\ Answers /\ valid /\ mem' = [mem EXCEPT !.range = coord]
          /\ raw' = [at |-> coord, boot |-> boot]
  /\ disk' = mem' /\ bootId' = link.boot
  /\ UNCHANGED <<hat, link, armed, drive, gate, shut, op, home, srv>>

ClearZero ==
  /\ "clear" \in faults /\ op = "idle" /\ ~held
  /\ mem' = [mem EXCEPT !.zero = None] /\ disk' = mem'
  /\ UNCHANGED <<hat, link, cache, drive, gate, shut, op, home, srv>>

Restart ==
  /\ (op = "idle" /\ "restart" \in faults) \/ "crash" \in faults
  /\ mem' = disk /\ bootId' = 0 /\ raw' = NoCount /\ armed' = FALSE
  /\ held' = FALSE /\ goal' = None /\ shut' = FALSE
  /\ op' = "idle" /\ home' = None /\ srv' = NoRead
  /\ link' = [up |-> FALSE, boot |-> link.boot]
  /\ UNCHANGED <<hat, disk, gate>>

Service == (\E k \in {"arm", "refresh"} : ServiceReads(k)) \/ ServiceWrites
Calibrate ==
  \/ HomeBegins \/ HomeAnswered \/ HomeFails \/ HomeUndone \/ Calibrated
  \/ Saves \/ Unverified \/ SaveFails \/ GateOpens \/ GateFails \/ SetRange \/ ClearZero

Next ==
  /\ UNCHANGED faults
  /\ \/ PowerLoss \/ HatReboots \/ LinkDrops \/ Reconnects \/ Look \/ Service
     \/ Torque \/ Target \/ Renewal \/ Chase \/ Release \/ Calibrate \/ Restart

Spec == Init /\ [][Next]_vars

(* The service thread runs, and a request in the lane comes to its end.     *)
Fairness ==
  /\ SF_system(ServiceWrites) /\ SF_system(ServiceReads("refresh")) /\ WF_system(Reconnects)
  /\ WF_system(op # "idle" /\ Calibrate)

FairSpec == Spec /\ Fairness

-----------------------------------------------------------------------------
(* The type of the state. *)
Zeros == Broken..Coords
Counts == [at : 0..Coords, boot : 0..Boots]
TypeOK ==
  /\ faults \in SUBSET FaultKinds
  /\ coord \in 2..Coords /\ valid \in BOOLEAN /\ boot \in 1..Boots
  /\ link \in [up : BOOLEAN, boot : 1..Boots] /\ bootId \in 0..Boots /\ raw \in Counts
  /\ armed \in BOOLEAN /\ held \in BOOLEAN /\ goal \in Zeros
  /\ mem \in [zero : Zeros, range : Zeros] /\ disk \in [zero : Zeros, range : Zeros]
  /\ gate \in BOOLEAN /\ shut \in BOOLEAN /\ home \in 0..Coords
  /\ op \in {"idle", "homing", "undo", "homed", "save", "open"}
  /\ srv \in [kind : {"none", "arm", "refresh"}, valid : BOOLEAN, count : Counts]

(* The faults that leave zero and servo together: every homing is answered  *)
(* and saved, and what a refused request left in memory only is not         *)
(* forgotten.                                                               *)
Sound ==
  /\ faults \cap {"disk", "reply", "crash"} = {}
  /\ ~({"refused", "restart"} \subseteq faults)

(* The Base is sent to a target only by a zero of the coordinate its servo  *)
(* counts in: a lost frame never comes back by itself.                      *)
TrueZero == [][Target => mem.zero = coord]_vars

(* ... and, in one run of the gateway, inside limits of that coordinate:    *)
(* what a refused request left in memory only is not mixed with the file.   *)
RangeIsTrue == [][Target => mem.range \in {None, coord}]_vars

(* A goal that is sent again is one of that coordinate too.                 *)
StaysTrue == held /\ goal # None /\ valid /\ Answers /\ raw # NoCount => goal = coord
ChaseIsTrue == [][StaysTrue]_vars

(* When the recovery marker goes, the zero a restart would read is true in  *)
(* the frame the HAT would prove to it.                                     *)
GateIsDurable == [][gate /\ ~gate' /\ valid => disk.zero = coord]_vars

(* All of it, each part under the faults that leave it true: the Base is    *)
(* sent to a target, or a goal again, only by a zero of the coordinate its  *)
(* servo counts in; where nothing fails but power and link, inside limits   *)
(* of it; and when the recovery marker goes, the zero a restart would read  *)
(* is true in the frame the HAT would prove to it, whatever failed.         *)
BaseIsTrue ==
  [][/\ Sound => (Target => mem.zero = coord) /\ StaysTrue
     /\ faults = {} => (Target => mem.range \in {None, coord})
     /\ gate /\ ~gate' /\ valid => disk.zero = coord]_vars

(* A frame the HAT can prove is adopted again, whatever was interrupted.    *)
FrameIsAdopted == <>[](valid /\ mem.zero # None) => []<>armed

(* "Losing the file costs a recalibration, not safety" (JointStore.save). *)
FileLossIsNoHarm == TrueZero

(* "Re-homing changes the counted coordinate, not the physical range"       *)
(* (_calibrate_locked). *)
HomingKeepsRange == RangeIsTrue

(* "A target, re-home, and background refresh must not interleave"          *)
(* (ArmService.__init__): a refresh never forgets a frame that was homed    *)
(* while it read.                                                           *)
HomeSurvivesRefresh == [][armed /\ valid /\ Answers /\ ServiceWrites => armed']_vars

(* "Bind every cached Base count to the exact live HAT boot"                *)
(* (_sync_multi_turn_identity).                                             *)
CountIsOfBoot == raw # NoCount => raw.boot = bootId
=============================================================================
