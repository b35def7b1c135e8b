------------------------------- MODULE MCServos -----------------------------
(***************************************************************************)
(* What HAT and gateway keep of the servos, for TLC: the firmware's count  *)
(* of turns and its list of torque-off obligations; the gateway's frame of *)
(* the Base, its commissioning of a multi-turn joint, the IDs on the bus.  *)
(* A behaviour is of one module, with one set of bounds and faults: bench  *)
(* says which.  The other modules' variables then stay in an initial state.*)
(***************************************************************************)
EXTENDS BaseFrame, FiniteSets

CONSTANTS
  Positions, ApiTurn, ApiBoots, Tokens, Saved, Drift,       \* of Commissioning
  Joints, Ids, IdFaults,                                    \* of JointIds
  Turnable, MaxTurns,                                       \* of Odometer
  Servos, Mute                                              \* of TorqueOffRetry

VARIABLES
  bench,
  apiFaults, pos, apiHat, apiLink, http, ledger, apiOp, stop, profile, seen,
  bus, ids, idsOnDisk, family, dirty, idOp,
  angle, servo, extended, count, quick, shown, lost,
  off, retryDue

commissioning == <<apiFaults, pos, apiHat, apiLink, http, ledger, apiOp, stop, profile, seen>>
jointIds == <<bus, ids, idsOnDisk, family, dirty, idOp>>
counting == <<angle, servo, extended, count, quick, shown, lost>>
retrying == <<off, retryDue>>
allVars == <<bench, vars, commissioning, jointIds, counting, retrying>>

Api ==
  INSTANCE Commissioning WITH
    Boots <- ApiBoots, Saves <- Saved, Turn <- ApiTurn,
    faults <- apiFaults, hat <- apiHat, link <- apiLink, op <- apiOp,
    store <- profile

Names ==
  INSTANCE JointIds WITH
    Faults <- IdFaults, mem <- ids, disk <- idsOnDisk, op <- idOp

Odo ==
  INSTANCE Odometer WITH
    Places <- Turnable, place <- angle, native <- extended, seen <- shown

Retries == INSTANCE TorqueOffRetry

ASSUME ServosAssumption ==
  /\ Positions \in Nat /\ ApiTurn \in Nat \ {0} /\ ApiBoots \in Nat \ {0}
  /\ Tokens \in Nat /\ Saved \in Nat /\ Drift \in Nat
  /\ Ids \subseteq Nat /\ Names!Free \notin Joints
  /\ Turnable \subseteq Int /\ 0 \in Turnable /\ MaxTurns \in Nat

(* Home and the tick before it, where the encoder reads its last value;     *)
(* steps below and above half a turn, beyond both ends of the first turn;   *)
(* and where no reading is decodable.                                       *)
MCPlaces == {0, -1, 2000, 6000, -1000, 31000}

(* The Base while nothing fails but the power of servo, HAT and link, while *)
(* requests meet each other and restarts too, while everything fails that   *)
(* may leave file, marker and memory apart, and interrupted requests for    *)
(* the service thread to make good; captures and commits over power cycles  *)
(* and losses of the servo's power alone; nudges with lost answers, restarts*)
(* and power cycles.                                                        *)
BaseBenches ==
  [quiet |-> {}, counts |-> {"race", "restart"},
   torn |-> {"disk", "reply", "crash", "refused", "race", "clear"},
   interrupted |-> {"disk", "reply", "race", "restart"}]
ApiBenches ==
  [profiles |-> {"cycle"}, blinks |-> {"blink", "chmod"},
   nudges |-> {"cycle", "race", "lost", "restart", "turn"}]

Asked(kind) == apiOp'.kind \in {"none"} \cup kind
OfBench ==
  /\ bench \in {"torn", "interrupted"} => coord' <= 3 /\ boot' <= 2
  /\ bench \in {"profiles", "blinks"} =>
       /\ Asked({"capture", "commit", "execute", "prepare", "zero"})
       /\ apiHat'.made <= 1 /\ stop' = "none"
       /\ apiOp'.kind = "prepare" /\ apiHat'.made = 1 => apiOp'.at = "keep"
       /\ apiOp'.at \in {"none", "adopt"} \/ profile'.disk = Api!None
       /\ apiOp'.kind = "capture" =>
            /\ http = Api!None /\ Cardinality(ledger) <= 3
            /\ apiHat'.made = 1 \/ \A e \in ledger : e.boot # apiHat.boot
  /\ bench = "nudges" =>
       /\ Asked({"capture", "prepare", "execute", "census", "reset", "reconnect"})
       /\ apiOp'.kind = "capture" => Cardinality(ledger) <= 1

MCInit ==
  /\ bench \in DOMAIN BaseBenches \cup DOMAIN ApiBenches \cup {"names", "turns", "retry"}
  /\ faults = IF bench \in DOMAIN BaseBenches THEN BaseBenches[bench] ELSE {}
  /\ apiFaults = IF bench \in DOMAIN ApiBenches THEN ApiBenches[bench] ELSE {}
  /\ Init /\ Api!Init /\ Names!Init /\ Odo!Init /\ Retries!Init
  /\ bench \notin DOMAIN BaseBenches => mem.zero = None
  /\ bench # "names" => bus = CHOOSE b \in [Joints -> Ids] : Names!Apart(b)
  /\ bench # "turns" => ~servo.extended
  /\ bench \notin {"profiles", "blinks"} => ~apiHat.native

BaseNext == Next /\ UNCHANGED <<commissioning, jointIds, counting, retrying>>
ApiNext == Api!Next /\ UNCHANGED <<vars, jointIds, counting, retrying>>
NamesNext == Names!Next /\ UNCHANGED <<vars, commissioning, counting, retrying>>
TurnsNext == Odo!Next /\ UNCHANGED <<vars, commissioning, jointIds, retrying>>
RetryNext == Retries!Next /\ UNCHANGED <<vars, commissioning, jointIds, counting>>

MCNext ==
  /\ UNCHANGED bench
  /\ \/ bench \in DOMAIN BaseBenches /\ BaseNext
     \/ bench \in DOMAIN ApiBenches /\ ApiNext
     \/ bench = "names" /\ NamesNext
     \/ bench = "turns" /\ TurnsNext
     \/ bench = "retry" /\ RetryNext
  /\ OfBench

MCSpec == MCInit /\ [][MCNext]_allVars

MCFairSpec ==
  /\ MCSpec
  /\ \/ bench # "interrupted"
     \/ bench = "interrupted" /\ Fairness

-----------------------------------------------------------------------------
(* Every variable stays in its range. *)
TypesOK == TypeOK /\ Api!TypeOK /\ Names!TypeOK

(* A valid count of turns is the coordinate it was zeroed in plus every tick*)
(* turned since, through wraps, failed reads, resyncs and restarts.         *)
CountIsTrue == Odo!CountIsTrue

(* Obligations are settled and retried first come, first served.            *)
ArrivalOrderKept == Retries!ArrivalOrderKept

(* A frame the HAT can prove is adopted again, whatever was interrupted.    *)
BaseFrameIsAdopted == bench = "interrupted" => FrameIsAdopted

(* A committed profile's limits were really reached, unless the frame of its*)
(* counts changed within one boot; a nudge runs at most once, and not after *)
(* what ended its preview; two joints never name one ID, in memory or in the*)
(* file, and an ID is spoken to in its joint's dialect.                     *)
ServoRecordsAreTrue ==
  /\ TypesOK
  /\ Api!LimitsWereReached /\ Api!NudgeIsCurrent
  /\ Names!OneJointPerId /\ Names!DialectFollowsJoint
=============================================================================
