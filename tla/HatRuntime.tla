------------------------------ MODULE HatRuntime ------------------------------
(***************************************************************************)
(* The supervision core of the ESP32 arm controller: ArmHatRuntime and the *)
(* SafetyStateMachine it drives (ArmHatController.cpp, ArmHatProtocol.cpp). *)
(*                                                                         *)
(* The sketch is one loop, poll(); tick(); ..., so a handler runs to       *)
(* completion: it is one action here.  What a handler cannot control is    *)
(* the servo bus.  Each bus transaction of a handler has its own outcome:  *)
(* a write may be lost, a read may stay unanswered.  A helper that talks   *)
(* to the bus is therefore an operator from the state before it to the SET *)
(* of states after it, and a handler threads one helper into the next.     *)
(*                                                                         *)
(* Timers (heartbeat window, lease, hold lease, 25 ms retry) are abstracted *)
(* to "has it elapsed", which the environment may turn at any moment; the  *)
(* arithmetic of millis() is left out.                                     *)
(***************************************************************************)
EXTENDS Naturals, FiniteSets

CONSTANTS
  Servos,        \* servo addresses on the bus
  NoServo,       \* the absence of a servo (no lease)
  MaxTracked,    \* MAX_TRACKED_SERVOS, the telemetry inventory
  Tolerance      \* policy_.supervisionFaultTolerance

ASSUME HatAssumption ==
  /\ IsFiniteSet(Servos)
  /\ NoServo \notin Servos
  /\ MaxTracked \in Nat
  /\ Tolerance \in Nat

VARIABLES
  energised,     \* servos whose torque-enable register is 1 (the hardware)
  residual,      \* history: those of them energised since before this boot
  pending,       \* torqueOffIds_: addressed torque-off obligations
  lease,         \* leaseServoId_ while leaseActive_, else NoServo
  holdSet,       \* holdSetIds_ while holdSetActive_, else {}
  holdGoals,     \* servo ids of holdGoals_
  safetyFault,   \* safetyFault_: the automatic recovery gate
  retryDue,      \* torqueOffRetryDue: 25 ms since the last attempt, or none yet
  stopped,       \* stopped_: the operator STOP latch
  hostFresh,     \* heartbeatFresh: seen and younger than 750 ms
  leaseOver,     \* the lease's duration has elapsed
  holdOver,      \* the hold set's duration has elapsed
  tracked,       \* ids in servos_
  badSamples,    \* supervisionFaults_
  booting,       \* bootTorqueOffPending_
  line           \* a host line being processed, and hostWasFresh for it

machine == <<energised, residual, pending, lease, holdSet, holdGoals,
             safetyFault, retryDue>>
vars == <<machine, stopped, hostFresh, leaseOver, holdOver, tracked,
          badSamples, booting, line>>

-----------------------------------------------------------------------------
(* The part of the state that bus helpers change, as a value.              *)

Machine == [energised : SUBSET Servos, pending : SUBSET Servos,
            lease : Servos \cup {NoServo}, holdSet : SUBSET Servos,
            holdGoals : SUBSET Servos, safetyFault : BOOLEAN,
            retryDue : BOOLEAN]

Current == [energised |-> energised, pending |-> pending, lease |-> lease,
            holdSet |-> holdSet, holdGoals |-> holdGoals,
            safetyFault |-> safetyFault, retryDue |-> retryDue]

Becomes(m) ==
  /\ energised' = m.energised
  /\ residual' = residual \cap m.energised
  /\ pending' = m.pending
  /\ lease' = m.lease
  /\ holdSet' = m.holdSet
  /\ holdGoals' = m.holdGoals
  /\ safetyFault' = m.safetyFault
  /\ retryDue' = m.retryDue

(* torqueAuthorizedFor: live authority covers only servos that are pending. *)
Authorised(m) ==
  IF stopped THEN {}
  ELSE m.pending \cap (   (IF leaseOver THEN {} ELSE {m.lease})
                     \cup (IF holdOver THEN {} ELSE m.holdSet))

(* nextUnauthorizedTorqueOff ranges over these.                             *)
Unauthorised(m) == m.pending \ Authorised(m)

(* queueTorqueOffObligation, for every servo of S.  The first obligation of *)
(* an empty list is due at once.                                            *)
Owe(m, S) ==
  [m EXCEPT !.pending = @ \cup S,
            !.retryDue = @ \/ (m.pending = {} /\ S # {})]

(* Mutant of Confirmed: the proof ends a lease but not hold membership.     *)
ConfirmedKeepsHold(m, S) ==
  [m EXCEPT !.pending = @ \ S, !.lease = IF @ \in S THEN NoServo ELSE @]

(* markTorqueOffConfirmed, for every servo of S: the obligation and any     *)
(* authority over that servo end together.                                  *)
Confirmed(m, S) ==
  [m EXCEPT !.pending = @ \ S,
            !.holdSet = @ \ S,
            !.lease = IF @ \in S THEN NoServo ELSE @]

Revoke(m) == [m EXCEPT !.lease = NoServo, !.holdSet = {}]

DropGoals(m) == [m EXCEPT !.holdGoals = {}]

Fault(m) == [m EXCEPT !.safetyFault = TRUE]

-----------------------------------------------------------------------------
(* Bus helpers.                                                            *)

(* broadcastTorqueOff: no status packet, any receiver may miss it.          *)
Broadcasts(m) == {[m EXCEPT !.energised = missed] : missed \in SUBSET m.energised}

(* torqueOffAndConfirm for every servo of S: queue, note the attempt, write *)
(* register 40 (lost for some), read it back (unanswered by some).  A servo *)
(* counts as off only when the read answers 0.                              *)
Attempted(m, S, lost) ==
  [Owe(m, S) EXCEPT !.energised = (@ \ S) \cup lost, !.retryDue = FALSE]

TorqueOffs(m, S) ==
  IF S = {} THEN {m}
  ELSE UNION {{Confirmed(Attempted(m, S, lost), heard \ lost) :
                 heard \in SUBSET S} : lost \in SUBSET (S \cap m.energised)}

(* Mutants of ConfirmAlls: an answer counts as proof whatever it says; only *)
(* servos that already owe an OFF are read.                                 *)
ConfirmAllsUnread(m, T) == {Confirmed(Owe(m, T), heard) : heard \in SUBSET T}

(* confirmAllTrackedTorqueOff over the inventory T: queue and read back.    *)
ConfirmAlls(m, T) ==
  {Confirmed(Owe(m, T), heard \ m.energised) : heard \in SUBSET T}

(* Mutant of Resolves: an incomplete proof raises the fault only.           *)
ResolvesKeepsAuthority(m) ==
  {IF n.pending = {} THEN n ELSE Fault(n) : n \in TorqueOffs(DropGoals(m), m.pending)}

(* resolvePendingTorqueOff: abandon the hold goals and try every obligation *)
(* once; unless all are proven, revoke authority and raise the fault.       *)
Resolves(m) ==
  LET Close(n) == IF n.pending = {} THEN n ELSE Fault(Revoke(n))
  IN {Close(n) : n \in TorqueOffs(DropGoals(m), m.pending)}

(* Mutant of Proven: an empty inventory counts as proven off.               *)
ProvenVacuously(m, T) == m.pending = {}

(* The tail shared by STOP-like paths: everything addressed and proven.     *)
Proven(m, T) == T # {} /\ m.pending = {}

(* refreshServo over S.  An answered OFF settles the obligation.  An        *)
(* answered UNKNOWN, or an ON outside live authority, queues the servo,     *)
(* revokes ALL authority, faults and turns that servo off; any energised    *)
(* servo refreshed after that first trip has lost its authority too.        *)
Trips(m, S) == TorqueOffs(Fault(Revoke(Owe(m, S))), S)

Refreshed(m, unclear, known) ==
  LET n == Confirmed(m, known \ m.energised)
      wrong == unclear \cup (known \cap (m.energised \ Authorised(n)))
  IN IF wrong = {} THEN {n}
     ELSE UNION {Trips(n, wrong \cup later) :
                   later \in SUBSET (known \cap m.energised)}

Refreshes(m, S) ==
  UNION {UNION {Refreshed(m, unclear, answered \ unclear) :
                  unclear \in SUBSET answered} : answered \in SUBSET S}

-----------------------------------------------------------------------------
(* Initial state and restart.  A restart of the controller forgets every    *)
(* obligation; the servos keep whatever torque they have.                   *)

ColdRam ==
  /\ pending' = {} /\ lease' = NoServo /\ holdSet' = {} /\ holdGoals' = {}
  /\ safetyFault' = FALSE /\ retryDue' = TRUE
  /\ stopped' = FALSE /\ hostFresh' = FALSE
  /\ leaseOver' = FALSE /\ holdOver' = FALSE
  /\ tracked' = {} /\ badSamples' = 0 /\ booting' = TRUE /\ line' = "none"

Init ==
  /\ energised \in SUBSET Servos
  /\ residual = energised
  /\ pending = {} /\ lease = NoServo /\ holdSet = {} /\ holdGoals = {}
  /\ safetyFault = FALSE /\ retryDue = TRUE
  /\ stopped = FALSE /\ hostFresh = FALSE
  /\ leaseOver = FALSE /\ holdOver = FALSE
  /\ tracked = {} /\ badSamples = 0 /\ booting = TRUE /\ line = "none"

Reboot == ColdRam /\ residual' = energised /\ UNCHANGED energised

-----------------------------------------------------------------------------
(* The environment: time passes, a servo's own protection drops its torque. *)

HeartbeatExpires ==
  /\ hostFresh
  /\ hostFresh' = FALSE
  /\ UNCHANGED <<machine, stopped, leaseOver, holdOver, tracked, badSamples,
                 booting, line>>

LeaseElapses ==
  /\ lease # NoServo /\ ~leaseOver
  /\ leaseOver' = TRUE
  /\ UNCHANGED <<machine, stopped, hostFresh, holdOver, tracked, badSamples,
                 booting, line>>

HoldElapses ==
  /\ holdSet # {} /\ ~holdOver
  /\ holdOver' = TRUE
  /\ UNCHANGED <<machine, stopped, hostFresh, leaseOver, tracked, badSamples,
                 booting, line>>

RetryFallsDue ==
  /\ ~retryDue
  /\ Becomes([Current EXCEPT !.retryDue = TRUE])
  /\ UNCHANGED <<stopped, hostFresh, leaseOver, holdOver, tracked, badSamples,
                 booting, line>>

ServoDrops(s) ==
  /\ s \in energised
  /\ Becomes([Current EXCEPT !.energised = @ \ {s}])
  /\ UNCHANGED <<stopped, hostFresh, leaseOver, holdOver, tracked, badSamples,
                 booting, line>>

-----------------------------------------------------------------------------
(* tick().  It runs once per loop, and first of all in processLine, which   *)
(* samples hostWasFresh just before it.                                     *)

TickFrame ==
  /\ line = "none"
  /\ line' \in {"none", IF hostFresh THEN "fresh" ELSE "stale"}
  /\ UNCHANGED <<stopped, hostFresh, leaseOver, holdOver, tracked>>

(* The first tick after begin(): one broadcast, before anything is pending. *)
TickBoot ==
  /\ TickFrame /\ booting
  /\ booting' = FALSE
  /\ \E m \in Broadcasts(Current), sent \in BOOLEAN :
       /\ ~sent => m = Current
       /\ Becomes([m EXCEPT !.safetyFault = ~sent])
  /\ UNCHANGED badSamples

(* SafetyStateMachine::tick, in its order of precedence. *)
Lapsed == (lease # NoServo /\ leaseOver) \/ (holdSet # {} /\ holdOver)

(* Mutants of Event: no watchdog; no retry under a live host.               *)
EventWithoutWatchdog ==
  IF pending = {} THEN "NONE"
  ELSE IF Lapsed THEN "LEASE_EXPIRED"
  ELSE IF Unauthorised(Current) # {} THEN "TORQUE_OFF_RETRY"
  ELSE "NONE"

EventWithoutRetry ==
  IF pending = {} THEN "NONE"
  ELSE IF ~hostFresh THEN "WATCHDOG_STOP"
  ELSE IF Lapsed THEN "LEASE_EXPIRED"
  ELSE "NONE"

Event ==
  IF pending = {} THEN "NONE"
  ELSE IF ~hostFresh THEN "WATCHDOG_STOP"
  ELSE IF Lapsed THEN "LEASE_EXPIRED"
  ELSE IF Unauthorised(Current) # {} THEN "TORQUE_OFF_RETRY"
  ELSE "NONE"

(* superviseActiveLease: nothing to supervise, not yet 25 ms, or all healthy. *)
TickQuiet ==
  /\ TickFrame /\ ~booting /\ Event = "NONE"
  /\ badSamples' \in {badSamples, IF Authorised(Current) = {} THEN badSamples
                                  ELSE 0}
  /\ UNCHANGED <<machine, booting>>

(* Mutant of Tolerated: one bad sample too many.                            *)
ToleratedOffByOne == badSamples <= Tolerance

Tolerated == badSamples < Tolerance

(* A supervised servo is not healthy: a bounded run of bad samples is       *)
(* tolerated, then everything is revoked and turned off.  Any of the        *)
(* servo's refresh outcomes can be unhealthy (a fault byte, a wrong mode).  *)
TickSupervisionBad ==
  /\ TickFrame /\ ~booting /\ Event = "NONE"
  /\ \E id \in Authorised(Current) : \E m \in Refreshes(Current, {id}) :
       IF Tolerated
       THEN badSamples' = badSamples + 1 /\ Becomes(m)
       ELSE /\ badSamples' = 0
            /\ \E a \in Broadcasts(Fault(DropGoals(Revoke(Owe(m, {id}))))) :
               \E b \in Resolves(a) : \E c \in ConfirmAlls(b, tracked) :
                 Becomes(Fault(c))
  /\ UNCHANGED booting

(* Expired authority is dropped, then unauthorised servos are turned off in *)
(* turn until one cannot be proven off.                                     *)
TickLeaseExpired ==
  /\ TickFrame /\ ~booting /\ Event = "LEASE_EXPIRED"
  /\ LET m == [Current EXCEPT !.lease = IF leaseOver THEN NoServo ELSE @,
                              !.holdSet = IF holdOver THEN {} ELSE @]
         unauthorised == Unauthorised(m)
     IN \/ \E n \in TorqueOffs(m, unauthorised) :
             /\ unauthorised \cap n.pending = {}
             /\ Becomes([n EXCEPT !.safetyFault = FALSE, !.holdGoals =
                            IF n.holdSet = {} THEN {} ELSE @])
        \/ \E id \in unauthorised : \E done \in SUBSET (unauthorised \ {id}) :
           \E n \in TorqueOffs(m, done \cup {id}) :
             /\ n.pending \cap (done \cup {id}) = {id}
             /\ \E r \in Resolves(DropGoals(Revoke(n))) : Becomes(Fault(r))
  /\ UNCHANGED <<badSamples, booting>>

(* A silent host: all authority and goals go, one broadcast; when a retry   *)
(* is due, one addressed torque-off and a read-back of the inventory.       *)
TickWatchdog ==
  /\ TickFrame /\ ~booting /\ Event = "WATCHDOG_STOP"
  /\ \E sent \in BOOLEAN : \E m \in Broadcasts(DropGoals(Revoke(Current))) :
       /\ ~sent => m.energised = energised
       /\ IF ~retryDue
          THEN Becomes([m EXCEPT !.safetyFault = ~sent])
          ELSE \E id \in pending : \E n \in TorqueOffs(m, {id}) :
               \E c \in ConfirmAlls(n, tracked) :
                 Becomes([c EXCEPT !.safetyFault =
                   ~(sent /\ id \notin n.pending /\ Proven(c, tracked))])
  /\ UNCHANGED <<badSamples, booting>>

(* An obligation without authority under a live host.                       *)
TickRetry ==
  /\ TickFrame /\ ~booting /\ Event = "TORQUE_OFF_RETRY"
  /\ IF ~retryDue
     THEN UNCHANGED machine
     ELSE \E id \in Unauthorised(Current) :
          \E n \in TorqueOffs(Current, {id}) :
            Becomes([(IF id \in n.pending THEN Revoke(n) ELSE n)
                       EXCEPT !.safetyFault = n.pending # {}])
  /\ UNCHANGED <<badSamples, booting>>

Tick == \/ TickBoot \/ TickQuiet \/ TickSupervisionBad
        \/ TickLeaseExpired \/ TickWatchdog \/ TickRetry

-----------------------------------------------------------------------------
(* Host commands.  processLine refreshes the heartbeat around a command     *)
(* only if the host was fresh when the line arrived.                        *)

CommandFrame ==
  /\ line # "none"
  /\ line' = "none"
  /\ UNCHANGED <<badSamples, booting>>

Fresh == line = "fresh"

Served == CommandFrame /\ hostFresh' = (hostFresh \/ Fresh)

(* Mutant of MotionAllowed: the STOP latch is not consulted.                *)
MotionAllowedWhenStopped == Fresh /\ ~safetyFault

(* dispatch refuses operations that take motion authority while automatic   *)
(* recovery is pending, and the handlers need a live host and no STOP.      *)
MotionAllowed == Fresh /\ ~stopped /\ ~safetyFault

NoTimers == UNCHANGED <<leaseOver, holdOver>>

(* rememberServo: the inventory is bounded. *)
Remember(T, S) == IF Cardinality(T \cup S) <= MaxTracked THEN T \cup S ELSE T

(* Mutant of Release: the joint keeps its place in the hold set.            *)
ReleaseGoalOnly(m, id) == [m EXCEPT !.holdGoals = @ \ {id}]

(* Releasing one joint: its goal and its membership in the hold set. *)
Release(m, id) == [m EXCEPT !.holdGoals = @ \ {id}, !.holdSet = @ \ {id}]

WasRecovering == safetyFault /\ ~stopped

(* A line too long or unparsable: an error reply, and no proof of life. *)
LineRejected ==
  /\ CommandFrame
  /\ UNCHANGED <<machine, stopped, hostFresh, tracked>> /\ NoTimers

(* Queries, and every command refused before it changes anything; MOVE,     *)
(* whose outcome is a goal register, and a MOVE_SET that was verified.      *)
Query ==
  /\ Served
  /\ UNCHANGED <<machine, stopped, tracked>> /\ NoTimers

(* HEARTBEAT; also HOLD_SET refused for a STOP or a live lease, which has   *)
(* renewed the heartbeat by then.                                           *)
Heartbeat ==
  /\ CommandFrame
  /\ hostFresh' = TRUE
  /\ UNCHANGED <<machine, stopped, tracked>> /\ NoTimers

(* FAMILY declares a configured servo without touching the bus. *)
Family(id) ==
  /\ Served
  /\ tracked' = Remember(tracked, {id})
  /\ UNCHANGED <<machine, stopped>> /\ NoTimers

(* STATUS refreshes the inventory; a complete healthy all-off answer, with  *)
(* nothing pending, ends automatic recovery.                                *)
Status ==
  /\ Served
  /\ \E m \in Refreshes(Current, tracked) : Becomes(m)
  /\ UNCHANGED <<stopped, tracked>> /\ NoTimers

StatusEndsRecovery ==
  /\ Served
  /\ ~stopped /\ tracked # {} /\ tracked \cap energised = {}
  /\ LET m == Confirmed(Current, tracked)
     IN m.pending = {} /\ Becomes([m EXCEPT !.safetyFault = FALSE])
  /\ UNCHANGED <<stopped, tracked>> /\ NoTimers

(* SCAN: turn everything off, ping a range, and track the census of it; ids *)
(* outside the range stay tracked.  Only a complete clean census may end a  *)
(* recovery that was pending.                                               *)
Census(range, found) == (tracked \ range) \cup found

(* Off, broadcast, ping, off again; swept clean if both passes proved it.   *)
Swept(found, clean) ==
  LET first == {a \in Resolves(Current) : clean => a.pending = {}}
      pinged == {Owe(b, found) : b \in UNION {Broadcasts(a) : a \in first}}
  IN {c \in UNION {Resolves(b) : b \in pinged} : clean => c.pending = {}}

Scan(range, found) ==
  /\ Served
  /\ found \subseteq range /\ Cardinality(Census(range, found)) <= MaxTracked
  /\ tracked' = Census(range, found)
  /\ \/ \E clean \in BOOLEAN : \E c \in Swept(found, clean) :
          LET complete == range = Servos /\ found # {}
          IN /\ found \cap c.energised = {}
             /\ Becomes([Confirmed(c, found) EXCEPT !.safetyFault =
                           ~clean \/ (WasRecovering /\ ~complete)])
     \/ \E d \in UNION {Refreshes(c, found) : c \in Swept(found, FALSE)} :
          Becomes(Fault(d))
  /\ UNCHANGED stopped /\ NoTimers

ScanOverCapacity(range, found) ==
  /\ Served
  /\ found \subseteq range /\ Cardinality(Census(range, found)) > MaxTracked
  /\ \E a \in Resolves(Current) : \E b \in Broadcasts(a) : \E sent \in BOOLEAN :
     \E c \in IF Cardinality(found) > MaxTracked
              THEN {Fault(Revoke(Owe(b, found)))}
              ELSE Resolves(Owe(b, found)) :
       /\ ~sent => b = a
       /\ Becomes(IF sent THEN c ELSE Fault(c))
  /\ UNCHANGED <<stopped, tracked>> /\ NoTimers

(* TORQUE_OFF ALL *)
TorqueOffAll ==
  /\ Served
  /\ \E a \in Resolves(Current) : \E b \in Broadcasts(a) :
     \E c \in ConfirmAlls(b, tracked) :
       IF a.pending = {} /\ Proven(c, tracked)
       THEN Becomes([c EXCEPT !.safetyFault = FALSE])
       ELSE Becomes(Fault(Revoke(c)))
  /\ UNCHANGED <<stopped, tracked>> /\ NoTimers

(* TORQUE_OFF id: off, then a fresh read; proof of one address does not end *)
(* a recovery that was already pending.                                     *)
TorqueOffOne(id) ==
  /\ Served
  /\ tracked' = Remember(tracked, {id})
  /\ \E n \in TorqueOffs(Release(Current, id), {id}) :
       \/ /\ id \notin n.pending /\ id \in tracked'
          /\ Becomes([n EXCEPT !.safetyFault = WasRecovering])
       \/ \E m \in IF id \in n.pending THEN {n} ELSE Refreshes(n, {id}) :
            Becomes(Fault(DropGoals(Revoke(m))))
  /\ UNCHANGED stopped /\ NoTimers

(* STOP latches first; the fault stays up unless everything is proven off. *)
Stop ==
  /\ Served
  /\ stopped' = TRUE
  /\ \E a \in Broadcasts(DropGoals(Revoke(Current))) : \E b \in Resolves(a) :
     \E c \in ConfirmAlls(b, tracked) :
       Becomes([c EXCEPT !.safetyFault =
                  ~(b.pending = {} /\ Proven(c, tracked))])
  /\ UNCHANGED tracked /\ NoTimers

(* RESET INSPECTED releases the latch only on a complete off proof.  The    *)
(* heartbeat is read again after the bus work (late).                       *)
Reset ==
  /\ Served /\ Fresh
  /\ \E a \in Resolves(Current) : \E b \in Broadcasts(a) :
     \E c \in ConfirmAlls(b, tracked), late \in BOOLEAN :
       IF a.pending = {} /\ Proven(c, tracked) /\ stopped /\ ~late
       THEN stopped' = FALSE /\ Becomes([Revoke(c) EXCEPT !.safetyFault = FALSE])
       ELSE UNCHANGED stopped /\ Becomes(Fault(c))
  /\ UNCHANGED tracked /\ NoTimers

(* Mutant of HoldSetFrame: the STOP latch is not consulted.                 *)
HoldSetFrameWhenStopped ==
  /\ CommandFrame
  /\ hostFresh' = TRUE
  /\ ~safetyFault
  /\ lease = NoServo \/ leaseOver
  /\ UNCHANGED <<stopped, leaseOver>>

(* HOLD_SET S, once past the refusals.  Members already held with live      *)
(* authority are renewed untouched; the others are captured (read, OFF,     *)
(* goal written and verified, obligation queued), enabled one by one, and   *)
(* only then does the set become authority.                                 *)
HoldSetFrame ==
  /\ CommandFrame
  /\ hostFresh' = TRUE
  /\ ~stopped /\ ~safetyFault
  /\ lease = NoServo \/ leaseOver
  /\ UNCHANGED <<stopped, leaseOver>>

Added(S) == S \ (IF holdOver THEN {} ELSE holdSet \cap holdGoals)

(* The capture of id fails after those of done succeeded, whose obligations *)
(* stay queued.                                                             *)
HoldCaptureFails(S) ==
  /\ HoldSetFrame
  /\ \E id \in Added(S) : \E done \in SUBSET (Added(S) \ {id}) :
       /\ tracked' = Remember(Remember(tracked, done), {id})
       /\ done \cap energised = {} /\ done \subseteq tracked'
       /\ \E m \in Refreshes(Owe(Confirmed(Current, done), done), {id}) :
            Becomes(m)
  /\ UNCHANGED holdOver

HoldReady(S) ==
  /\ HoldSetFrame
  /\ tracked' = Remember(tracked, Added(S))
  /\ Added(S) \cap energised = {} /\ Added(S) \subseteq tracked'

Captured(S) == Owe(Confirmed(Current, Added(S)), Added(S))

(* The enable of id fails after those of done succeeded: they are rolled    *)
(* back, and the whole hold is dropped unless the rest can be accounted for *)
(* by the hold goals.                                                       *)
HoldEnableFails(S) ==
  /\ HoldReady(S)
  /\ \E id \in Added(S) : \E done \in SUBSET (Added(S) \ {id}) :
     \E landed \in SUBSET {id} :
     \E n \in TorqueOffs([Captured(S) EXCEPT !.energised = @ \cup done \cup landed],
                         done \cup {id}) :
       IF \/ (done \cup {id}) \cap n.pending # {}
          \/ Cardinality(n.pending) > Cardinality(n.holdGoals)
       THEN Becomes(Fault(DropGoals(Revoke(n))))
       ELSE Becomes(n)
  /\ UNCHANGED holdOver

Enabled(S) == [Captured(S) EXCEPT !.energised = @ \cup Added(S)]

(* setHoldSet refuses: the heartbeat aged out during the bus work (late), a *)
(* lapsed lease has not been ticked yet, or a member is not pending.        *)
HoldAuthorityFails(S) ==
  /\ HoldReady(S)
  /\ \E n \in TorqueOffs(Enabled(S), Added(S)) :
       IF Added(S) \cap n.pending # {}
       THEN Becomes(Fault(DropGoals(Revoke(n))))
       ELSE Becomes(n)
  /\ UNCHANGED holdOver

(* The states after members were verified and the whole hold was dropped.   *)
RolledBack(n, S, T) ==
  LET off == UNION {Resolves(Revoke(m)) : m \in Refreshes(n, S)}
  IN UNION {ConfirmAlls(b, T) : b \in UNION {Broadcasts(a) : a \in off}}

(* Authority granted; members no longer desired are turned off, every       *)
(* member is verified, and anything short of that drops the whole hold.     *)
HoldSet(S) ==
  /\ HoldReady(S)
  /\ lease = NoServo /\ S \subseteq Enabled(S).pending
  /\ holdOver' = FALSE
  /\ \E n \in TorqueOffs([Enabled(S) EXCEPT !.holdSet = S, !.holdGoals = S],
                         holdGoals \ S) :
       \/ /\ (holdGoals \ S) \cap n.pending = {}
          /\ S \subseteq n.energised
          /\ Becomes([n EXCEPT !.safetyFault = FALSE])
       \/ /\ S # {} \/ (holdGoals \ S) \cap n.pending # {}
          /\ \E c \in RolledBack(n, S, tracked') : Becomes(Fault(c))

-----------------------------------------------------------------------------
(* TORQUE_LEASE id: everything off and proven, then one servo is enabled    *)
(* and leased.                                                              *)
LeaseFrame ==
  /\ Served /\ MotionAllowed
  /\ lease = NoServo \/ leaseOver
  /\ UNCHANGED <<stopped, holdOver>>

(* The states after a complete off proof of the inventory T and of id.      *)
AllOffFor(id, T) ==
  {d \in UNION {TorqueOffs(c, {id}) :
           c \in {e \in UNION {ConfirmAlls(b, T) :
                      b \in UNION {Broadcasts(a) :
                        a \in {r \in Resolves(Current) : r.pending = {}}}} :
                  e.pending = {}}} :
     d.pending = {} /\ id \in T}

LeasePreflightFails(id) ==
  /\ LeaseFrame
  /\ \E a \in Resolves(Current) :
       IF a.pending # {}
       THEN Becomes(a) /\ UNCHANGED tracked
       ELSE /\ tracked' = Remember(tracked, {id})
            /\ \E b \in Broadcasts(a) : \E c \in ConfirmAlls(b, tracked') :
               \E d \in TorqueOffs(c, {id}) :
               \E e \in IF id \in d.pending THEN {d} ELSE Refreshes(d, {id}) :
                 Becomes(Fault(Revoke(e)))
  /\ UNCHANGED leaseOver

LeaseModeOrGoalFails(id) ==
  /\ LeaseFrame
  /\ tracked' = Remember(tracked, {id})
  /\ \E d \in AllOffFor(id, tracked') : \E e \in TorqueOffs(d, {id}) :
       Becomes(IF e.pending # {} THEN Fault(Revoke(e)) ELSE e)
  /\ UNCHANGED leaseOver

LeaseEnableFails(id) ==
  /\ LeaseFrame
  /\ tracked' = Remember(tracked, {id})
  /\ \E d \in AllOffFor(id, tracked') : \E landed \in SUBSET {id} :
     \E e \in TorqueOffs([Owe(d, {id}) EXCEPT !.energised = @ \cup landed], {id}) :
       Becomes(IF e.pending # {} THEN Fault(Revoke(e)) ELSE e)
  /\ UNCHANGED leaseOver

TorqueLease(id) ==
  /\ LeaseFrame
  /\ tracked' = Remember(tracked, {id})
  /\ \E d \in AllOffFor(id, tracked') :
       Becomes([Owe(d, {id}) EXCEPT !.energised = @ \cup {id}, !.lease = id])
  /\ leaseOver' = FALSE

-----------------------------------------------------------------------------
(* Grouped motion.  MOVE_SET and FOLLOW_SET need live authority over every  *)
(* member; an ambiguous dispatch or read-back fails the whole group closed  *)
(* (failMoveSetClosed).  FOLLOW_SET refreshes its members before it replies.*)

FailClosed(m, S) ==
  UNION {TorqueOffs(b, S) : b \in Broadcasts(DropGoals(Revoke(m)))}

GroupMember(S) == S # {} /\ S \subseteq (Authorised(Current) \cap tracked)

MoveSetFails(S) ==
  /\ Served /\ MotionAllowed /\ GroupMember(S)
  /\ \E n \in FailClosed(Current, S) : Becomes(Fault(n))
  /\ UNCHANGED <<stopped, tracked>> /\ NoTimers

FollowSetFails(S) ==
  /\ Served /\ MotionAllowed /\ GroupMember(S) /\ Cardinality(S) = 2
  /\ \E m \in Refreshes(Current, S) : \E n \in FailClosed(m, S) :
       Becomes(Fault(n))
  /\ UNCHANGED <<stopped, tracked>> /\ NoTimers

FollowRead(S) ==
  /\ Served /\ Fresh /\ ~stopped /\ GroupMember(S) /\ Cardinality(S) = 2
  /\ \E m \in Refreshes(Current, S) : Becomes(m)
  /\ UNCHANGED <<stopped, tracked>> /\ NoTimers

-----------------------------------------------------------------------------
(* Commissioning commands that take one joint out of the hold first.        *)

(* CAPTURE: prove id off, then five refreshed samples. *)
Capture(id) ==
  /\ Served
  /\ tracked' = Remember(tracked, {id})
  /\ \E n \in TorqueOffs(Release(Current, id), {id}) :
       IF id \in n.pending
       THEN Becomes(Fault(DropGoals(Revoke(n))))
       ELSE \/ /\ id \in tracked'
               /\ \/ Becomes([n EXCEPT !.safetyFault = WasRecovering])
                  \/ Becomes(n)      \* off, but the samples were unusable
            \/ \E m \in Refreshes(n, {id}) : \E r \in TorqueOffs(m, {id}) :
                 Becomes(IF id \in r.pending
                         THEN Fault(DropGoals(Revoke(r))) ELSE r)
  /\ UNCHANGED stopped /\ NoTimers

(* MULTITURN: the joint is proven off before its registers change. *)
MultiTurn(id) ==
  /\ Served
  /\ \E n \in TorqueOffs(Release(Current, id), {id}) : Becomes(n)
  /\ UNCHANGED <<stopped, tracked>> /\ NoTimers

-----------------------------------------------------------------------------
HoldSetStep(S) ==
  \/ HoldCaptureFails(S) \/ HoldEnableFails(S)
  \/ HoldAuthorityFails(S) \/ HoldSet(S)

LeaseStep(id) ==
  \/ LeasePreflightFails(id) \/ LeaseModeOrGoalFails(id)
  \/ LeaseEnableFails(id) \/ TorqueLease(id)

Command ==
  \/ LineRejected \/ Query \/ Heartbeat
  \/ Status \/ StatusEndsRecovery
  \/ TorqueOffAll \/ Stop \/ Reset
  \/ \E id \in Servos : \/ Family(id) \/ TorqueOffOne(id) \/ LeaseStep(id)
                        \/ Capture(id) \/ MultiTurn(id)
  \/ \E S \in SUBSET Servos : \/ HoldSetStep(S) \/ MoveSetFails(S)
                              \/ FollowSetFails(S) \/ FollowRead(S)
  \/ \E range, found \in SUBSET Servos : \/ Scan(range, found)
                                         \/ ScanOverCapacity(range, found)

Environment ==
  \/ HeartbeatExpires \/ LeaseElapses \/ HoldElapses \/ RetryFallsDue
  \/ Reboot
  \/ \E s \in Servos : ServoDrops(s)

Next == Tick \/ Command \/ Environment

Spec == Init /\ [][Next]_vars

(* What liveness rests on.  A received line is always dispatched.  25 ms    *)
(* pass between two ticks again and again: the host does not itself address *)
(* a torque-off in every such window.  And a servo the ticks can settle     *)
(* again and again answers in the end: per servo, because a retry takes the *)
(* oldest obligation first (module TorqueOffRetry).                         *)
LineDone == line # "none" /\ line' = "none"

FallsDueIdle == line = "none" /\ RetryFallsDue

Settles(s) == s \in pending /\ Tick /\ s \notin pending'

FairSpec ==
  /\ Spec
  /\ WF_line(LineDone) /\ SF_vars(FallsDueIdle)
  /\ \A s \in Servos : SF_vars(Settles(s))

-----------------------------------------------------------------------------
TypeOK ==
  /\ Current \in Machine
  /\ residual \in SUBSET Servos /\ tracked \in SUBSET Servos
  /\ stopped \in BOOLEAN /\ hostFresh \in BOOLEAN
  /\ leaseOver \in BOOLEAN /\ holdOver \in BOOLEAN /\ booting \in BOOLEAN
  /\ badSamples \in 0..Tolerance
  /\ line \in {"none", "fresh", "stale"}

(* No servo is energised by this boot without a retained torque-off         *)
(* obligation: armTorqueOffObligation precedes every enable, and only an    *)
(* addressed read of 0 settles it.                                          *)
EnergisedIsPending == energised \subseteq pending \cup residual

(* A lease or hold set never names a servo whose obligation was settled.    *)
AuthorityIsPending ==
  /\ holdSet \subseteq pending
  /\ lease # NoServo => lease \in pending

(* Every held joint has a retained goal: a renewal may not lose it.         *)
HoldHasGoal == holdSet \subseteq holdGoals

(* A latched STOP leaves no authority behind.                               *)
StopHasNoAuthority == stopped => lease = NoServo /\ holdSet = {}

(* While the STOP latch is set no step energises a servo, whatever commands,*)
(* retries and timers interleave with it.                                   *)
StopNeverEnergises ==
  [][stopped /\ stopped' => energised' \subseteq energised]_vars

(* Only RESET releases the latch (short of a reboot), and when it does every*)
(* tracked servo is physically off and nothing is left to prove.            *)
ResetNeedsOffProof ==
  [][stopped /\ ~stopped' /\ ~booting'
       => pending' = {} /\ tracked' # {} /\ tracked' \cap energised' = {}]_vars

(* A new single-servo lease energises that servo alone: no other tracked    *)
(* servo has torque at that moment.                                         *)
NewLeaseIsAlone ==
  lease' # lease /\ lease' # NoServo => tracked' \cap energised' = {lease'}

(* A joint that stays in the hold set across a step keeps its torque: no    *)
(* retry, scan, failed addition or supervision trip of another joint turns  *)
(* it off behind an authority that goes on claiming it is held.             *)
HeldStaysEnergised ==
  \A s \in holdSet \cap holdSet' :
    s \in energised => s \in energised' \/ ServoDrops(s)

(* Leases are exclusive and holds last, whatever the bus loses.             *)
LeasesAndHoldsStand == [][NewLeaseIsAlone /\ HeldStaysEnergised]_vars

(* Every torque-off obligation is in the end settled, or covered by live    *)
(* authority: no tick, command or expiry loses or starves it.               *)
ObligationIsServed ==
  \A s \in Servos : s \in pending ~> (s \notin pending \/ s \in Authorised(Current))

(* Once the host is silent for good, every servo that this boot energised   *)
(* loses its torque.                                                        *)
SilentHostDeEnergises ==
  <>[]~hostFresh => <>[](energised \subseteq residual)

=============================================================================
