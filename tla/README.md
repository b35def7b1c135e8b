# TLA+ development for the arm controller

This directory holds TLA+ models of the program that drives the desktop robot
arm, the TLC runs that check them on small instances, and theorems about them
checked by TLAPS. Paths below are relative to `src/software`.

## 1. The system

| Part | Where | State it keeps | Operations | Hard part |
|---|---|---|---|---|
| ESP32 controller (the HAT) | `firmware/libraries/ArmHatController/src` | torque-off obligations, lease, hold set and goals, STOP latch, recovery gate, inventory, odometers, heartbeat age | one text line per command (HOLD_SET, TORQUE_LEASE, MOVE_SET, STOP, RESET, SCAN, ODO_ZERO, ...), `tick()` and `poll()` in one loop | bus transactions lost in the middle of a handler, lapses, host silence, reboot with servos still energised, late odometer samples |
| Pi gateway, arm API | `python/robot_gateway/simple_arm_api.py` | held set, goals, STOP generation and latches, durable markers, Live Follow session, plans, sequences and their results, joint store | HTTP handlers on the event loop and on pool threads; a service thread that renews, chases, recovers and reads STATUS | operation, motion, authority and state locks held in part; requests in flight while STOP arrives; restart |
| Pi gateway, serial link | `python/robot_gateway/serial_arm_controller.py` | port, sequence number, boot identity, declared servo families, inspection gate, heartbeat thread | exchange, HELLO, RESET, reconnect | a late answer, a reboot between two commands, reconnects that overlap |
| Pi gateway, commissioning API | `python/robot_gateway/physical_arm_api.py` | evidence ledger, nudge proposal, committed profile | capture, zero, prepare and execute a nudge, commit, reset | proposals kept in three layers; evidence of another boot or frame; coroutines that block the event loop |
| Pi gateway, cameras | `python/robot_gateway/camera_api.py`, `pi_camera.py`, `execute_and_capture` of the arm API | provider state, focus status, one-use transfer store, capture gate | start, capture, autofocus, observe a pose, claim a frame | driver calls that fail half way; a photograph against STOP and against moving telemetry |
| Web backend | `python/web_backend` | bindings of reviewed routes to the process that holds them | forward a call to the real or the simulated arm | lost answers, one retry, restarts of the upstream process |
| MCP server | `python/arm_mcp/server.py` | verified identity, kept photographs | tools, each a script of gateway requests | retries that must not act twice; labels and photographs of another process |
| Simulator bridge | `python/robot_gateway/isaac_bridge.py`, `python/arm_sim` | pinned process, last state; queue of a single-threaded server | one request per connection | a request whose client gave up still runs; restarts |
| Dashboard | `dashboard/src/arm` | Live Follow generation, frame in flight | send, cancel, stop | coalescing, late answers |
| Operations, plugin, tools | `operations`, `plugin`, `../tools` | files | scripts | run by hand |

The dashboard and the MCP server call the web backend, which forwards to the Pi
gateway or to the simulator's gateway. The Pi gateway owns the one serial line
and sends the HAT one line at a time; several threads of it compete for that
line. The HAT alone decides about torque: every layer above it may die, and it
takes a silent host as a reason to turn the arm off. What makes the parts
correct:

* HAT: whatever it energised is owed a torque-off until a read-back proves it
  off; authority never outlives its lease, its host or a STOP; a STOP ends only
  by a complete proof; a count of turns that claims to be valid is true.
* STOP and clear: a STOP begun after a clear wins over it, in memory, on disk
  and at the controller's gate, whatever is lost or restarted.
* Holds and moves: a joint that was released stays free; nothing moves under
  STOP; a cleared STOP leaves nothing behind that moves by itself.
* Live Follow: a frame is dispatched only inside its session, in order, once; an
  ended session has released the arm; a silent browser's session ends.
* Plans and sequences: each waypoint once, on the boot it was reviewed for, and
  only when the one before was proved reached.
* Serial link: an answer belongs to the request that is waiting, a confirmation
  to the boot that still runs.
* Records of servos: a zero, a limit, a count or an id is used only where it is
  still true of the servo.
* Cameras: a frame is evidence of the pose and the time it names, or it can be
  claimed by nobody.
* Laptop: a route runs once and is reported as executed only if it ran; an
  answer is labelled with the process that gave it.

`PROJECT.json` lists every component with its status and every hazard at the
line where it bites.

## 2. Modules

Three groups: the models (one per component), the `MC*` modules that compose
them for TLC, the `*Proofs` modules. Every action is one handler or the part of
a handler between two points where another thread can see a difference: an
exchange with the controller, a section under a lock, an `await`, a write of a
file.

### HatRuntime

The supervision core: `ArmHatRuntime` and the `SafetyStateMachine` it drives.
The sketch is one loop, `poll(); tick();`, and nothing else writes this state,
so a handler is one action. What a handler cannot control is the servo bus: a
write may be lost and a read may go unanswered, each independently. A helper
that uses the bus is therefore an operator from the state before to the *set*
of states after (`TorqueOffs`, `Resolves`, `ConfirmAlls`, `Refreshes`), and a
handler threads one into the next; all its early returns are choices among
these sets.

| Model | Code |
|---|---|
| `pending`, `lease`, `holdSet`, `stopped` | `torqueOffIds_`, `leaseServoId_`, `holdSetIds_`, `stopped_` |
| `holdGoals`, `safetyFault`, `tracked`, `badSamples`, `booting` | `holdGoals_`, `safetyFault_`, `servos_`, `supervisionFaults_`, `bootTorqueOffPending_` |
| `hostFresh`, `leaseOver`, `holdOver`, `retryDue` | the four comparisons with `millis()`: has the time elapsed |
| `energised` | the torque-enable registers of the servos (hardware) |
| `residual` | history: servos energised since before this boot |
| `line` | the line `processLine` is about to dispatch, with `hostWasFresh` |
| `Tick*` | `tick()`, one action per `SafetyEvent` and per supervision outcome |
| `HoldSet*`, `Lease*`, `Stop`, `Reset`, `Scan*`, `TorqueOff*`, `Status*`, ... | the command handlers; `*Fails` actions are their error returns that change state |
| `Query` | reads, refusals that change nothing, and MOVE, whose effect is a goal register |
| `HeartbeatExpires`, `LeaseElapses`, `HoldElapses`, `RetryFallsDue`, `ServoDrops`, `Reboot` | the environment |

Obligations are a set here; the list, its order and its cursor are the subject
of `ObligationList`, so `TickRetry` and `TickWatchdog` choose any candidate.
Positions, telemetry and register values are left out: a refresh has the
outcomes *off*, *on* and *unclear*, which is what the handlers branch on.
`operatorInspectionRequired_` is never set in the source, and
`MAX_TORQUE_OFF_OBLIGATIONS` (254) exceeds the addresses a bus can hold, so
neither appears.

### ObligationList and TorqueOffRetry

The obligation list as the code keeps it: `Queued` appends, `Settled` removes an
entry, moves the later ones up and keeps the cursor in range, `UnderCursor` and
`FirstOutside` are the two ways a candidate is chosen, `Attempt` is one
addressed torque-off with read-back, and `ResolvePass` the loop of
`resolvePendingTorqueOff`, one `Resolved` per turn of it. `TorqueOffRetry` is
the process around it: servos are queued, 25 ms pass, `tick()` retries one,
commands run a resolve pass. `Mute` is the set of servos that never answer.

### Odometer

The HAT's count of one joint's motor turns, against where the joint really is.

| Model | Code |
|---|---|
| `place`, `servo` | the joint's angle and the servo's own coordinate (hardware): a servo configured for extended positions forgets whole turns with its power |
| `native` | the HAT decodes the servo's position as signed (`MULTITURN`) |
| `count` | the odometer fields of the telemetry entry: `raw`, `turns`, `valid`, `mode` |
| `quick` | less than `NATIVE_MULTI_TURN_REVOLUTION_MIN_MS` since the last sample |
| `seen`, `lost` | history: the angle at the last sample with the value the count owes there; a sample that came too late to tell |
| `Sample*`, `Refresh*`, `Zero*`, `MultiTurn*`, `Resync*` | `sampleOdometers`, telemetry refresh, ODO_ZERO, MULTITURN, the resync after a torque-off |
| `Turns`, `Elapses`, `ServoCycles`, `HatRestarts` | the joint is turned, time passes, power is lost |

### StopLatch

The gateway's `stop`, `clear_stop` and `_recover_stop`, over the serial
controller's `stop` and `reset`. STOP calls run on threads of their own and take
none of the operation, motion and authority locks; a clear and the background
recovery take them, so at most one of the two is under way: the *lane*. A
thread is cut at each exchange with the controller (serialised by `_io_lock`),
each update of the Pi's latch (under the state lock) and each write of the
marker file (under `_safety_latch_lock`).

| Model | Code |
|---|---|
| `latched`, `reason` | `_operator_stopped` or `_inspection_required`; `_local_safety_stop_reason`, told apart only as none, *unknown* (`STOP_DELIVERY_UNKNOWN`) and any other |
| `marker` | the safety-latch file and its reason; what a restarted Pi knows |
| `overtaken` | `_stop_generation` differs from the value the lane captured; the code compares for nothing else |
| `required` | `local_clear_required`, later `inspection_required` with the reason written ahead |
| `lane`, `stopPc` | where the clear or recovery is, and each STOP call |
| `gate` | `_operator_inspection_required` of the serial controller: it refuses every motion command |
| `autoReported` | the cached stop has no explicit reason, so `_automatic_stop_is_safely_resettable` may hold |
| `heard` | a HEARTBEAT answer read under `_io_lock` and not yet ingested |
| `linkUp`, `fwStopped`, `legacy` | `_connection`; the controller's latch; firmware 2.4, which stops by itself and gives no reason |
| `owed`, `kept`, `acked`, `missed` | history: STOPs latched since a clear last began, those in the marker, those this boot of the controller answered; a STOP not delivered after the lane's RESET |
| `Stop*` | `stop_for_commissioning` with `_latch_operator_stop` and `_latch_stop_delivery_unknown` |
| `Clear*`, `WriteAhead*`, `Declare`, `Families*`, `Unlink*`, `Commit*`, `Restop` | `clear_stop_for_commissioning`, every way out of it |
| `Recovery*` | `_recover_stop` |
| `Reset*`, `GateOpens`, `PolicyLost` | `SerialArmController.reset`: accepted, refused, or unanswered with the RESET taken or not; the gate opens after the I/O lock is gone |
| `Reconnect`, `Heartbeat*`, `ControllerReboots`, `LegacyStops`, `PiRestarts` | the link and the two processes |

Left out: the generation bumps of motion paths, which only make a clear stop the
controller once more; telemetry, whose freshness
`_automatic_stop_is_safely_resettable` also demands; intermediate firmware
builds that latch a stop of their own and name its reason (the firmware in the
repository never does). A marker write that fails may or may not have replaced
the file. A STOP that latched before a clear began may write its marker after
that clear removed it: the next Pi process then starts latched, which no
invariant calls an error, since it fails closed.

### MotionLane

Holds and moves of the arm service: a request that moves joints, sets torque or
clears STOP (one *lane*, because of the admission lock), the service thread that
renews the hold, chases unfinished moves and recovers an automatic stop, and
STOP.

| Model | Code |
|---|---|
| `held`, `goals`, `stopped` | `_held`, `_goals` with the re-sends left, `_operator_stopped` or `_inspection_required` |
| `due` | `HOLD_RENEW_SECONDS` have passed since `_last_hold` |
| `hat` | the controller: the servos it holds, its latch, the moves it took |
| `motion`, `authority` | owners of `_motion_lock` and `_authority_lock` |
| `th["lane"]`, `th["svc"]`, `stopPc` | where each thread is, with the sets and generations it read before |
| `released`, `resent` | history: freed by an answered torque request; re-sends of a goal |
| `Check`, `Ensure`, `Prepare`, `Hold`, `Move`, `Record`, `Retake*`, `Abort*`, `Restore` | the steps of `_drive_prepared_goals_locked`, `_ensure_held` and `_apply_hold`, with `_without_refusal` and `_abort_motion_recoverably` |
| `Torque*`, `Clear*`, `Recover`, `Reset`, `Verdict`, `Restop` | `torque`, `clear_stop`, `_recover_stop` |
| `Renew*`, `Chase*` | the background renewal and `_chase_goals` |
| `LoopFree`, `StopAsked` | a request on the event loop keeps the loop busy; the loop hands STOP to its thread |

### LiveFollow

Fast Follow: a browser streams Shoulder and Elbow targets into a session which
the service thread dispatches.

| Model | Code |
|---|---|
| `session`, `last`, `attempts` | `_live_follow`, `_last_live_follow` (the terminal receipt), `_live_follow_start_attempts` |
| `held`, `stopped`, `hat`, `motion`, `authority`, `stopPc` | as in MotionLane, for the two joints a session holds |
| `th` | the lane (start, frame, end, clear), the heartbeat, the cancel, the service thread |
| `freed`, `commits`, `cancelled` | history: the arm was let go and the controller said so; sessions installed per attempt; cancellations answered |
| `Start*`, `SendFrame`, `SendHeartbeat`, `End`, `Cancel`, `ClearStop` | the HTTP handlers |
| `Follow`, `ServiceLooks`, `Renew` | the service thread: dispatch of the newest frame, supervision, renewal |
| `TimePasses` | time in parts of the input lease: the session has been without input for `idle` parts, a request arrived `age` parts ago |

### SerialLink

The serial link: one request at a time over a line that loses and delays
answers, to a controller that may reboot.

| Model | Code |
|---|---|
| `conn`, `open`, `identity`, `seq` | `_connection`, `_serial`, the boot of `_identity`, `_sequence` |
| `inspection`, `declared` | `_operator_inspection_required`, the version of `_servo_families` |
| `io`, `event`, `beat` | owner of `_io_lock`, `_heartbeat_stop`, `_heartbeat_thread` |
| `hat`, `late` | the controller (boot, family map, latch), an answer that missed its timeout |
| `th`, `crossed` | the lane, the service thread and the heartbeats; history of RESETs that opened the gate of a link reconnected meanwhile |
| `Exchange`, `Answers`, `Stale` | `_command_locked`: sent, answered, refused, or read late |
| `Act*`, `Declare`, `Reset*`, `Close`, `Start*`, `Hello`, `SendFamily`, `Beat*` | the guarded commands, `declare_family`, `reset`, `close`, `start`, the heartbeat loop |

### PlanRun

Reviewed routes: previewed without motion, executed once, each waypoint
revalidated, dispatched and proved by fresh telemetry before the next; the
result is kept for retries.

| Model | Code |
|---|---|
| `plans`, `results` | `_sequences`; `_sequence_results`, oldest first |
| `raced`, `news` | `_stop_generation` and `_telemetry_generation` moved since the lane read them |
| `goal`, `link`, `seen` | `_goals`; boot of the online link; the last STATUS |
| `hat`, `motion`, `lane`, `svc`, `stopPc` | the controller and the arm; `_motion_lock`; the threads |
| `sent`, `trip` | history: MOVE_SETs taken; the waypoint under way |
| `Preview`, `Execute`, `Revalidate`, `Check*`, `Send`, `Sample`, `Look`, `Judge`, `Arrived`, `Finish*`, `TimesOut*` | `preview_sequence`, `_execute_sequence`, `_revalidate_sequence_waypoint` and `_wait_for_arrival` |

`ARRIVAL_SAMPLE_COUNT` is 3 (`simple_arm_api.py:519`). `PlanAssumption` asks
for more than one: telemetry read before a dispatch may still be published
after it, and with a single sample it could prove an arrival.

### Observation and CameraProvider

`Observation` is `execute_and_capture` with the one-use transfer lane of the
camera service: execute, arrive, pass the shutter gate, shoot, wait for one more
telemetry generation, compare the poses before and after. `CameraProvider` is
`PiCameraProvider` under `CameraEvidenceService`: every operation is a row of
driver calls any of which may fail.

| Model | Code |
|---|---|
| `store`, `results` | `_transfers`, `_observation_results` |
| `cam`, `gate` | owners of `CameraEvidenceService._lock` and `_capture_gate` |
| `mark`, `news`, `raced` | `_telemetry_observed_at` is after the shutter; the two generations moved |
| `lane`, `svc`, `stopPc` | the request, the STATUS under way, a STOP |
| `service`, `state`, `profile`, `focus` | `_state` of the service and of the provider, `_current_capture_profile`, `_autofocus_status` |
| `driver` | the camera as it really is |

### BaseFrame, Commissioning, JointIds

What the gateway believes of its servos. In `BaseFrame` a coordinate of the Base
is a number and a power loss begins a new one; zeroes, limits, counts and goals
carry the coordinate they were measured in. `Commissioning` follows one
multi-turn joint through the evidence ledger, with positions in ticks modulo a
turn. `JointIds` relates the id a servo answers to, the id its joint names in
memory and on disk, and the dialect declared for the id.

A proposal of a nudge lives in three layers, and each forgets it by itself: the
router (`http`), the serial controller (`link.prop`), the HAT (`hat.prop`). The
HAT compares where the joint reads with where it read for the preview, modulo a
turn and within `Drift`; it drives to one tick above that reading, in the turn
the joint stands in, or back to the first turn of a native coordinate. Counts are
filed in the ledger under the boot the link shows when the capture is filed. A
native coordinate loses its turns with the power of the servo, with the HAT's
(`PowerCycle`) or without it (`ServoPowerLoss`); in the second case the HAT
withdraws the count only if two samples are whole turns apart.

| Model | Code |
|---|---|
| `mem`, `disk`, `gate` (BaseFrame) | `JointStore`, `arm-joints.json`, `base-reference-required.json` |
| `raw`, `armed`, `bootId` | `_multi_turn_raw`, `_multi_turn_armed`, `_multi_turn_boot_id` |
| `coord`, `valid`, `boot` | the servo's coordinate; the HAT followed it since a zero; the HAT's boot |
| `op`, `srv` | the request in the lane; the read the service thread has not written back |
| `http`, `link`, `hat` (Commissioning) | the nudge proposal in the router; connection, known boot and proposal of the serial controller; boot, coordinate, count, STOP latch and proposal of the HAT |
| `ledger`, `store` | the evidence; the committed profile in memory and on disk |
| `seen` | history: commands sent while a STOP waits, profiles refused, the last token that is over, whether one ran after that (`late`), whether the frame of counts on record changed within the boot (`torn`) |
| `faults` (BaseFrame, Commissioning) | which faults may happen in this behaviour, constant in time |
| `bus`, `mem`, `disk`, `family`, `dirty` (JointIds) | ids on the bus, in memory, in the file; declared families; `_families_dirty` |

### GatewaySession and ReviewedRoute, McpTools, SimBridge

`GatewaySession` is the web backend between its callers and the two gateways:
`call` is where each thread is, `jobs` what a gateway does for each attempt,
`bindings` the map from a reviewed route to the process that holds it, `plans`
and `receipts` what the gateways keep, `native` which of them name their process
(an older Pi gateway does not, and restarts unseen). A receipt carries the mode
the sequence ran in: asked again in that mode the gateway answers it, in the
other it refuses; later sequences push it out (`Evict`), after which the same
sequence is refused as unknown. `ReviewedRoute` is what an
operator is promised, whatever lies between: a route moves at most once, only
after its review was shown, and is reported executed only if it moved.
`GatewaySession` states the refinement mapping (`Promise`, property
`KeepsPromise`).

`McpTools` is the tool server: a call is a fixed script of requests; before each
the gateway proves its identity; a read without an answer is repeated, a write
is not. `SimBridge` is `IsaacArmController` and its camera over one
`BridgeClient` to the single-threaded server: a client that stopped waiting
leaves its request in the server's queue. The server runs physics for every frame
a capture waits for, and when idle with a window; a move that ended in an error
has left its drive target set, so the arm then goes on (`settled`, `Drifts`). A
STOP latches under the controller's lock, lets go of it, and answers with
`transport_state`, which takes it again and asks the simulator once more.

## 3. Runs

Components that do not interact at this level share a run: the `MC*` module
declares the variables of both and a constant-in-time `bench` which says of
which module, and with which bounds, a behaviour is; the other module's
variables keep an initial state. `MCArm` has MotionLane and LiveFollow, each
behaviour of it with one kind of requests (`OfBench`: frames with lost feedback,
each looked at as it comes; heartbeats that wait, against the lease; repeated
and cancelled starts), `MCProgress` MotionLane, a silent session and the
firmware's 25 ms retry,
`MCLink` a mixed and a calm link, `MCCameras` photograph and provider,
`MCServos` the firmware's odometer and obligation list, four fault settings of
the Base's frame, three of commissioning (captures and commits over power cycles;
over losses of the servo's power alone, with failing saves; nudges with
everything that may come between) and the ids, `MCLaptop` two settings of the
web backend (calls of both threads to a Pi gateway that names itself; calls of
one thread to the simulator and to a Pi gateway that does not), two of the tools
and the simulator. `MCHatRuntime` and
`MCStopLatch` add the symmetry of interchangeable servos and STOP callers;
`plan` checks PlanRun and `firmware` TorqueOffRetry itself.

| Run | Bounds | Shows |
|---|---|---|
| `hat_safety` | 2 servos, inventory 2, 1 tolerated bad sample | energised servos are owed a torque-off; authority names owed servos; held joints have goals; STOP leaves no authority and nothing energises under it; only a proven RESET releases it; a lease excludes other torque and a joint that stays held keeps its torque |
| `hat_liveness` | 2 servos, inventory 1, tolerance 0 | an obligation is settled or covered by live authority; a host silent for good ends with no torque of this boot |
| `firmware` | 4 servos, one of them mute | the violation of section 5: a mute servo starves the others |
| `stop_all` | 2 STOP callers | no clear releases the Pi or the marker over a newer STOP; RESET is covered by the marker; an answered STOP stands |
| `stop_wins` | 2 STOP callers | the violation of section 5: a later STOP does not win at the controller |
| `arm_safety` | the Base and one more servo, room for 1 held, 1 re-send; 1 attempt, 2 frames, a lease of 2 parts, inputs that wait for 1, 1 tolerated miss | released joints stay free, a clear starts fresh, ended sessions stay ended, frames belong to the session |
| `arm_progress` | 1 servo, no re-sends; lease 1; 3 servos to retry, one of them mute | STOP is served, a lost hold comes back, a silent session ends, a servo that answers is released unless a mute one is ahead of it |
| `link` | 2 boots, 1 declaration, sequence numbers wrap at 2 | an online link is supervised; a confirmation is of one boot that knew the families; a faulted link comes back |
| `plan` | 1 route of 2 waypoints, 2 samples, 1 result kept, 2 boots | once, in turn, truthfully; the request ends |
| `cameras` | 2 plans, 1 of them photographed before, room for 1 transfer | no shutter after STOP; frames are what they say; STOP is delivered |
| `servos` | a joint at 6 places about home, half a turn, both wraps and where no reading is decodable, 1 turn; 4 servos, one of them mute; 4 coordinates, 3 boots, smaller in the faulty settings; 3 positions of a commissioned joint in turns of 2 ticks, 2 boots, 2 proposals, 1 saved profile, no drift | a valid count is true; obligations keep their order of arrival; zeroes, limits, counts and ids are used where they are true; a nudge runs at most once and only while its proposal stands; a provable frame is adopted again |
| `laptop` | 2 routes, 2 threads, 2 processes, 2 boots where the Pi gateway is unnamed; tools with 1 route, 2 photographs; simulator with 2 goals, 2 processes, 2 queued requests | the promise of a reviewed route is kept, answers are labelled truly, tools act once, the simulator is shown as it is, calls and STOP are answered |

Why these are enough. Two servos or two callers distinguish "this one", "another
one" and "all", or "older" and "newer"; four servos give a list whose head,
middle, cursor and tail differ; a room of one overflows at the second entry; two
boots or processes distinguish "still running" and "another"; two waypoints have
a first, a next and a last. Commands, faults, lost transactions, reboots of the
HAT, STOPs and clears are unbounded except where the table bounds them. Where
the bounds are a worry, section 4 has the theorem for all of them.

Deadlock is checked in every passing run. The settings of `MCServos` bound what
is asked of the commissioning API (`OfBench`): a profile needs one nudge and
three captures, so the settings of profiles make one proposal and at most four
pieces of evidence at a time, on the boot where the nudge was; the setting of
nudges keeps two pieces of evidence.

`residual` (HatRuntime) is there because a reboot forgets the obligations: what
the boot broadcast misses is still energised and owed by nobody until SCAN or
STATUS sees it. `EnergisedIsPending` and `SilentHostDeEnergises` are about
torque enabled in this boot.

Fairness. Weak fairness says a thread, the HAT's loop or a timeout runs; strong
fairness stands where the code takes a lock, or the wire succeeds, again and
again:

* `hat_liveness`: a received line is dispatched (the loop never blocks); 25 ms
  pass between two ticks again and again (strong: a command may attempt a
  torque-off and restart the interval); a servo that ticks can settle again and
  again does answer (strong, per servo, because a retry goes to the oldest
  obligation). Nothing is assumed of the host.
* `arm_progress`: threads run; a lock that is free again and again is taken in
  the end (the service thread sleeps between two ticks); a HOLD_SET sent again
  and again gets through; a lease nobody renews runs out. Of the retry, and in
  `firmware`: 25 ms pass, ticks happen, and a servo outside `Mute` that is
  retried again and again answers in the end.
* `link`: the service thread tries again and again, and a line opened again and
  again is in the end opened with nothing on its way and gets HELLO and the
  family map through. Only the calm setting assumes this.
* `plan`: threads run; since the deadline is looked at only while no telemetry
  waits, some look is done before the next report.
* `cameras`: only that the STOP handler itself runs; nothing is assumed of the
  camera, the request or the service thread.
* `servos` (interrupted setting): the service thread refreshes, the link is
  retried, a request in the lane comes to its end.
* `laptop`: the tool server works on; waiting at the bridge is bounded by its
  timeouts, and a thread that finds a lock of the controller or the client free
  again and again takes it in the end (strong). The simulator may hang.

## 4. What is proved

Eight modules hold the theorems. Each proves an inductive invariant of the
whole component, with one lemma per action, and derives the properties of the
runs from it, for every value of the constants. No proof assumes anything about
scheduling.

**HatRuntimeProofs** (`HatAssumption`: finitely many servos, `NoServo` is none).
All eight properties of `hat_safety`. `Inductive` proves `IInv`: `Safe` (well
typed, what is energised is owed or residual, authority names owed servos),
`Held` (held joints have goals), `Bare` under STOP (no authority) and the ranges
of the rest. The checked invariants are its conjuncts, but they are not
inductive apart: that a torque-off settles an obligation without leaving an
energised servo unowed needs the read-back of the same state, and that STOP
stays bare needs that no helper grants authority. So the proof goes by the bus
helpers: each returns only machines that `Keeps` the relation to its argument
(no servo newly energised, no authority granted, `Safe` and `Held` preserved);
`Keeps` is reflexive and transitive, so a handler that threads helpers keeps it
too. The few actions that energise are treated by `EnergisingStep`, which
requires the latch to be clear. `LInvInductive` adds that a controller outside
BOOTING was started; `LeasesStand` and `ResetIsProven` follow by a second walk
through the helpers, which says what they leave standing (`Stands`) and what a
complete proof has seen.

**StopLatchProofs** (no assumption). The four invariants of `stop_all`. That a
clear does not release a newer STOP needs that a clear which is not overtaken
has no STOP to lose (`OvertakenIsOwed`), and for a restart that the marker holds
what was written to it; that the marker survives needs that nobody writes it
between recheck and unlink (`UnlinkKeepsNone`, the reason for
`_safety_latch_lock`). That an answered STOP stands needs what keeps it standing
in each phase: until the lane opens the gate, the receipt
(`ClosedBeforeOpening`); when the lane is idle again, the second STOP, the
admission that it failed, or after a restart the controller's own latch
(`StandsWhenIdle`).

**ServoProofs**, what is believed of the servos (`ServosAssumption`: the bounds
are numbers, there is a boot and a turn has ticks; ids are numbers and `Free` is
no joint; the places of the odometer are integers with home among them; and
`FrameAssumption` of BaseFrame's bounds). Five parts are about the specification
of one module each; `ServosInductive` puts their invariants together.

*Odometer*. `TurnsAreCounted`, and `CountStaysTrue` of the run. The invariant
`Counted` says that a tracked count is what was owed at the last sample, and
that the angle then and the coordinate stored then agree modulo a turn;
arithmetic modulo 4096 then tells a wrap from a step back, and `lost` marks the
samples where nothing can.

*TorqueOffRetry*. `ObligationsInOrder`, and `OrderIsKept` of the run. Every
operation but an arrival thins the list (`Thins`: some entries leave, the rest
keep their order), and thinning adds up. For a removal it is shown by the
position an entry had before (`SettledThins`). A resolve pass is a function
defined by recursion on its turns: that there is such a function, and that every
turn of it thins the list, is shown by the least turn that would be a
counterexample (`PassExists`, `PassThins`), which exists because `<` on the
naturals is well-founded; this takes the place of the induction theorems, whose
operator parameter no prover here can instantiate.

*BaseFrame*. `BaseStaysTrue`, for every set of faults. `Captured` says where a
calibration has come to: a homed coordinate is the servo's while the HAT follows
it, and file and memory hold it from the save to the open gate, so the marker
goes only over a true zero. It needs no excuse. `Believed` is for the faults
under which a target is safe (`Sound`: the disk works, answers come, and a
refused request does not meet a restart): then an interrupted calibration left
the file as it found memory, so a restart does not bring an old zero back.
`Quiet` is for no faults: the service thread's read, too, is of the frame the
HAT counts in, which is why the limits are.

*Commissioning*. `CommissioningIsTrue`, for every set of faults. Of the limits:
a power cycle takes the link down and only a new connection tells the boot, so a
link that is up is of the HAT's boot (`LinkTyped`); evidence of another boot goes
when the first of a new one is filed; so what the ledger has of this boot lacks
the same turns (`Filed`, `InFrame`) while no frame changed within it, and the
limits a commit found beyond their zero were beyond it (`Reached`, `Compared`).
A change of frame within one boot marks the profile `torn` and excuses it; that
this must be is in section 5 (`EveryLimitWasReached`). Of the nudges: a token is
`Live` while the HAT and the serial controller both have it, and somebody `Holds`
it while the router or the request under way does; every event that ends
proposals takes one of the two away from the tokens made so far, in one layer or
another, and a token that is both live and held is newer than all that is over
(`Current`). No guard says so: the HAT compares its token with the one it is
given, and knows nothing of a restart of the gateway or a proposal the router
dropped.

*JointIds*. `IdsAreTrue`. Between the check of an id and the save nothing else
writes, so the id a rename is for stays unnamed (`IdInv`); while no two joints
share one, a complete declaration reaches every joint (`DeclaresWell`), and
`dirty` is what admits that it did not.

*MCServos*. `RecordsAreTrue`: a behaviour of a bench is one of each module,
because the others rest (`BenchesStep`).

**ArmProofs**, the arm service's threads, in two halves.

*MotionLane* (`MotionAssumption`: finitely many servos, at least one may be
held). `ReleasedIsFree` and `ClearIsFresh`. Needed besides them: which locks a
thread holds at each place (`Owns`), what the sets it read may still name once
they are used later (`LaneFits`, `ChaseFits`), what a torque-off or a clear has
emptied by each of its steps (`Clean`), and that a chase's copy only shrinks
(`Shrinks`). Without `Owns` a renewal in flight could give a released joint back
to the controller: the authority lock is what forbids it.

*LiveFollow* (`SessionAssumption`: the bounds are numbers, no attempt is named
like no one). The invariant is in `SessionInvariant`. A thread stands
(`Stands`) on four things: its place belongs to its operation and it owns the
locks of that place (`Runs`); a frame it is about to send is of the active
session, unless STOP has latched since, and newer than what the controller has
(`Carried`); an end for another reason than the lease is of a session that
lasted too long, and what it releases belongs to no session (`Ending`); a start
under way is alone, has installed nothing and is not cancelled (`Begun`). Of the
shared state: what was installed and what was cancelled agree (`Ledger`), a
released hold is neither wanted nor held (`Freed`), the pending frame is newer
than the sent one (`Frames`), and a target accepted and not confirmed is either
pending or in some thread's hands (`Flushed`), which is why a receipt may claim
the flush. A step moves one thread; the others keep what they stand on because
what they rely on is either theirs by a lock or changes only in the direction
they allow (`HatKeepsFrame`, `GoesOnAs`). `LiveFollowKeepsPromises` says it of
LiveFollow with all its requests at once, `SessionsEnd` and `FramesKeepTurn` of
the behaviours the run explores.

**SerialLinkProofs** (`LinkAssumption`: a boot at least, sequence numbers up to 2
at least). `Supervision` and `Confirmation`. The I/O lock belongs to whoever is
inside an exchange of several commands (`Locked`); the only answer still on its
way is that of the last sequence number (`LateIsLast`), so it never matches the
next one; hence the identity is of a controller that answered, never of a later
boot (`IdentityPast`), and a command confirmed by two STATUS answers of that
identity ran in between (`ActsInBoot`). The gate is open on an online link only
if the running boot holds the family map (`FamiliesKnown`, `ResetKnows`).

**PlanRunProofs** (`PlanAssumption`: at least one waypoint, one kept result, one
boot, and two samples). `RunsOnce` and `InTurn`. A plan is consumed before its
route sets out and only its own run dispatches its waypoints (`Consumed`), in
order (`InOrder`); what lane and kept results say of the dispatches is true
(`Honest`); boots only grow (`Grows`). `Proved` is the interesting part: a
report older than the dispatch counts at most once (`StaleCountsOnce`), because
it waits in the service thread, in the notice or in the lane, or has been
counted; with two samples one of them is new.

**LaptopProofs**, the laptop's programs, in three parts.

*GatewaySession* (`SessionAssumption`). `ImplementsReviewedRoute`: every
behaviour of the web backend and its gateways is one of `ReviewedRoute`. A route
moves at most once because the gateway takes its plan when it starts (`Routed`);
only after its review because every execution on its way was let through by a
binding (`Bound`, `Asked`, `Working`); and a route reported as executed has
moved because a call only reads work that was asked for as what it is, and a
kept receipt is of a route that moved (`Receipts`). Each step is then a step of
`ReviewedRoute` or a stutter. `AnswersAreTrue`: what an answer says of a route
is true of the process that gave it. This takes a second invariant, `Truth`,
over the first. A binding holds because the answer it was made from names the
process that stored the route (`True`, `StoredBy`), and a stored route keeps its
process (`PlansStay`). A refused sequence did not run because one that its
process moved is running there still, which keeps every other execution out, or
has left its receipt, which would have been the answer (`Ran`); a restart ends
both, and the refusals of the process that follows are about routes it never
stored. The receipt of the other mode answers too, and says that the sequence ran;
one that was pushed out does not (`Lasting`), so a sequence of which it was is
excepted. A label is right because a second attempt starts with nothing left of
the first (`Fits`).

*SimBridge* (`LaptopAssumption`: home is one of the goals, there is a process).
`SimulatorShown`. The server may hold any number of requests whose client gave
up; `Pending` says that the only one somebody waits for is the last, and that
its answer finds the queue empty, so nothing runs between the answer and its
reader (`Answering`). `Owned` ties that request to the operation that holds the
lock. So the state kept is of the pinned process and, unless a request went
unanswered, the arm's own while no drive pulls (`Shown`): photographs step the
physics, but of an arm that settled they move nothing, and an error of a move or
reset is what unsettles it.

*McpTools* (`LaptopAssumption`: the tools have scripts, the other bounds are
numbers). `ToolsTell`. A script has written nothing before it comes to its
write, and shows no photograph but the one it asked for (`Early`, `Scripted`).
What became of a route that was taken stays so, through photographs, restarts
and other calls (`RoutesStay`), which is why a report of it may be made later
(`CameTo`, `Settled`). For an intention the arm moved at most once, and then its
route is spent (`MovedBy`, `Intended`), except by a relative move.

**CameraProofs** (`ObservationAssumption`: room for what was photographed
before). `StopWins` and `FramesStayTrue`. What makes STOP win is `Stopping`: the
latch outlives the request, because a clear waits for it, so resetting the noted
generation before the arrival loses no STOP; and no STOP takes the gate while
the shutter is about to open (`Owned`). For the provider `Tracked` says what it
knows of its driver at every place of an operation, not only between operations,
and `Lifecycle` ties its state to that of the service and the camera.

### Only model-checked

Every invariant and every action property the runs check has its theorem. What
the runs alone show is liveness: `ObligationIsServed`, `SilentHostDeEnergises`,
`ReleasedInTurn`, `LaneProgresses`, `SilentSessionEnds`,
`ServiceRestoresLink`, `RequestEnds`, `StopIsDelivered`, `BaseFrameIsAdopted`
and `CallsAreAnswered`. The prover handles neither fairness of several actions
nor ENABLED.

## 5. What the code does not promise

Where a comment, a document or a test says more than the code does.
`LaterStopWinsAtTheController` and `AnsweringServoIsReleased` are runs
(`stop_wins`, `firmware`); the others were counterexamples of the definitions
named, which are kept in their modules so that anyone can check them again.

STOP and the latches (StopLatch)

* `LaterStopWinsAtTheController`: `simple_arm_api.py:7416` says a later STOP
  always wins, also when it reached the firmware before the clear's RESET. When
  that RESET takes effect and its answer is lost, `reset` raises and the clear
  leaves without stopping again. The Pi stays latched and the serial gate
  closed, so no motion command passes (`AnsweredStopStands`), but the controller
  itself is no longer stopped. The clear must be an inspected one: without
  inspection a RESET of a controller that STATUS shows stopped is refused before
  it is sent (`serial_arm_controller.py:2836-2840`).
* `UndeliveredStopStaysOnDisk`: `simple_arm_api.py:7370` says an older clear can
  never unlink a newer `STOP_DELIVERY_UNKNOWN`. Learning that a STOP was not
  delivered does not advance the generation (`:7223`), so a STOP that latched
  before the clear began and fails on the bus after the clear's RESET is not seen
  by the recheck.
* `LatchesConverge`: the docstring at `:7281` says both latches converge. A
  heartbeat answer read before RESET and ingested after the commit
  (`serial_arm_controller.py:472`) closes the serial gate over a running
  controller while the service is released.

Firmware (HatRuntime, TorqueOffRetry, Odometer)

* `NewAuthorityNeedsOffProof`: `ARM_HAT_CONTROLLER_V1.md:88-92` says faults
  block new authority until a complete all-tracked off proof. `tick()` recomputes
  `safetyFault_` from its own broadcast (`ArmHatController.cpp:4703`), so an
  earlier fault is forgotten when the host was stale and the broadcast left the
  UART. Obligations are kept, so the properties of `hat_safety` hold.
* `BadSampleRevokes`: `ARM_HAT_CONTROLLER_V1.md:97-99` says one bad sample
  revokes immediately; `:2689` tolerates a configured number.
* `AnsweringServoIsReleased` (run `firmware`): the host test (`:588-589`) says a
  failed servo cannot starve the others; `:4709` overwrites the id under the
  cursor with the first unauthorised one, so a mute servo at the head is retried
  for good. What the retry does give is `ReleasedInTurn`.
* `PassReachesEveryServo`: `:2599` says the resolve pass resolves the complete
  set. With ids 1, 2, 3 and 1 mute the attempts are 1, 2, 1.
* The odometer: `ARM_HAT_CONTROLLER_V1.md:302-306` says a failed read clears
  `valid` and sampling is every 2 ms; the code keeps `valid`
  (`ArmHatController.cpp:2447-2460`) and samples every 10 ms. A servo that lost
  turns while the joint moved by a tick keeps a valid count: only exact whole
  turns are refused (`ArmHatController.h:133-135`). MULTITURN OFF that fails after
  the phase write leaves the HAT decoding a signed position, and ODO_ZERO accepts
  it again. `resyncMultiTurnFromEncoder` treats a signed coordinate as wrapped;
  `setMultiTurnGoal` is not called. `CountIsTrue` leaves out what the HAT cannot
  see by marking the sample `lost`.

Holds, moves and sessions (MotionLane, LiveFollow)

* `RenewalKeepsJoints`: `:2707` says only `torque()` and STOP give a joint up. The
  service thread reads `_held` under the authority lock and sends HOLD_SET later;
  `_ensure_held` widens `_held` without that lock, so the older set may arrive
  last.
* `AnsweredTorqueIsRenewed`: `torque()` refused with STOPPED recovers, which
  empties `_held`, and then applies the wanted set once more (`:7096`): the
  request succeeds and nothing renews its hold.
* `StopNeverQueues`: `:1536` says STOP remains preemptive, but the endpoints that
  call blocking functions occupy the event loop that has to hand STOP to its
  thread (`:7665`).
* `NoResetUnderSession`: `:2164` says an active session is not reset underneath;
  `live_follow_active` is read before `_recover_stop` waits for its locks.

Serial link (SerialLink)

* `HeartbeatIsOne`: `serial_arm_controller.py:480` says close terminates this
  exact thread; it waits one second at most and start clears the event again.
* `ConfirmedKnewFamilies` excuses, by `crossed`, a RESET whose gate opens after
  the service thread reconnected to a rebooted controller (`:2888`): that boot
  runs on without the families, although `:347` says RESET replays them first.

Cameras (Observation, CameraProvider)

* `AfterIsMeasuredAfter`: `arm_mcp/server.py:1788` relies on a bracket whose later
  edge is when a STATUS was answered, not measured (`simple_arm_api.py:5225`): both
  poses may be of before the frame.
* `AvailableIsUsable`: a profile switch that fails closes the provider
  (`pi_camera.py:798`) but leaves the service `started` for good.

Servo records (BaseFrame, Commissioning, JointIds)

* `FileLossIsNoHarm` (`simple_arm_api.py:1174`), `HomingKeepsRange` (`:2564`),
  `HomeSurvivesRefresh` (`:1418`), `CountIsOfBoot` (`:1622`): a zero of the old
  frame after a homing whose save failed; limits not translated when the zero was
  cleared before; a homed Base un-armed by a refresh that waited for the lock; a
  count of the old boot cached under the new one.
* `CountsAreOfBoot` (`physical_arm_api.py:355`, `serial_arm_controller.py:1125`):
  evidence is labelled with the boot read after the command.
* `EveryLimitWasReached` (`physical_arm_api.py:533`): endpoint evidence is
  meaningful only in coordinates of one count, and nothing notices that the frame
  changed: an ODO_ZERO between two captures of a joint the HAT counts for, or a
  servo that lost its own turns while the HAT ran on (which
  `ArmHatController.cpp:1068` knows may happen) and moved between two samples.
  `LimitsWereReached` excuses such a profile (`torn`).
* A nudge is compared with its preview modulo a turn and within two ticks
  (`ArmHatController.cpp:4363-4369`): a joint turned by a whole turn in between
  passes, and is nudged there.
* `RefusedIsNotKept` (`physical_arm_api.py:786`): a profile that answered 503 when
  chmod failed is loaded by the next start. `StopPreempts`
  (`simple_arm_api.py:1536`): coroutines keep STOP in its socket.
* `JointsFollow` (`simple_arm_api.py:7127`): when the answer of ASSIGN_ID is lost
  after the rename, the joints are left behind.

Simulator, web backend, tools (SimBridge, GatewaySession, McpTools)

* `NoGhostMove` (`arm_sim/bridge/server.py:243`): a complete request whose client
  timed out is still dispatched. `ReconnectKeepsStop` (`simple_arm_api.py:2127`):
  reconnecting the simulator clears its latch.
* `AnsweredIsShown`: a move that the simulator answers with an error has left its
  drive target set, and the physics a photograph runs
  (`arm_sim/isaac/bridge_server.py:385`) move the arm on after a clean status:
  the positions shown are then of before. `ShownIsReal` asks that the last move
  or reset succeeded.
* A refusal of a sequence may come for one that ran: in the other mode
  (`simple_arm_api.py:3759-3766`, which says so), or after
  `SEQUENCE_RESULT_CACHE_LIMIT` others pushed its receipt out, when it is called
  unavailable. `RefusalIsTrue` tells the first apart and excepts the second.
* `AnswersNameTheirProcess` holds of a gateway that names its process; an answer
  of one that does not is labelled by a health check made after it
  (`arm_backends.py:517`).
* `MovesOnce` excepts relative moves: an `arm_move` with offsets that is called
  again as its error allows adds them twice (`arm_mcp/server.py:307`,
  `arm_mcp/README.md:25`).
* `ShiftsFromHere` (`server.py:2980`): offsets are from the pose read in an
  earlier request. `LabelIsOfEvidence` (`docs/RELEASE_REVIEW.md:38`): a result is
  labelled with the identity of the latest health check.

## 6. Not modelled

* Firmware: CONFIG, SET_POSITION_MODE and ASSIGN_ID on the HAT's side (JointIds
  models them from the Pi), raw registers, the text of the protocol, the wire
  layer of the servo bus (its outcomes are the nondeterminism of the bus
  helpers), the clock modulo 2^32.
* Commissioning: the margins of the limits and the tolerance of a nudge's end are
  0, and the run has no drift (the theorem is for any).
* Pi: the geometry of poses and limits, the arm registry, the text of answers,
  the older plan/execute API over the same controller, recovery of a native
  multi-turn servo in SCAN, decoding of telemetry, process wiring and HTTP input
  checks, the bounded history of ordinary camera frames.
* Laptop: request and response validation, the session token, the launch of
  maintenance programs; JSON-RPC parsing, projections on the desk, the frames the
  survey and detail calls derive from a photograph and keep, tools that repeat
  without harm; frame payload checks and the import of scene and robot.
* The dashboard's sender and session generation; the rest of it is presentation.
* Operations scripts run by hand (`prepare_arm_recovery` is an initial state of
  BaseFrame), plugin, release tools, CAD, media and prose.

## 7. Plan

The dashboard's sender as a module, and the session it keeps alive.
