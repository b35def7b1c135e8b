--------------------------- MODULE StopLatchProofs ---------------------------
(***************************************************************************)
(* Proofs about StopLatch, for every set of callers.                       *)
(*                                                                         *)
(* None of the invariants is inductive alone.  LaterStopStaysLatched needs *)
(* to know that a clear which has not been overtaken has no STOP to lose   *)
(* (OvertakenIsOwed), and, for a restart, that the marker holds what was   *)
(* written to it (LaterStopStaysOnDisk).  AnsweredStopStands needs to know *)
(* what closes the serial gate over an answered STOP in each phase of the  *)
(* lane: up to the moment the lane opens it, the receipt of that STOP      *)
(* (ClosedBeforeOpening); once the lane is idle again, the lane's second   *)
(* STOP, its admission that this failed, or after a restart the controller *)
(* itself (StandsWhenIdle).                                                *)
(***************************************************************************)
EXTENDS StopLatch, TLAPS

(* From its first step to its commit a clear may still release the Pi. *)
Deciding == {"survey", "firstStop", "writeAhead", "declare", "reset", "finalize",
             "families", "recheck", "unlink", "commit"}

(* The lane has not yet opened the serial gate. *)
BeforeOpening == {"survey", "firstStop", "writeAhead", "declare", "reset", "finalize",
                  "recover", "recoverFinalize"}

(* STOPs answered by the controller whose receipt closed the serial gate. *)
Received == {c \in acked : stopPc[c] # "receipt"}

(* TypeOK in four parts. *)
Flags ==
  /\ legacy \in BOOLEAN /\ fwStopped \in BOOLEAN /\ linkUp \in BOOLEAN
  /\ gate \in BOOLEAN /\ autoReported \in BOOLEAN
  /\ latched \in BOOLEAN /\ overtaken \in BOOLEAN /\ missed \in BOOLEAN

Values ==
  /\ heard \in {"none", "stopped", "running"}
  /\ reason \in Reasons /\ marker \in Reasons /\ required \in Reasons
  /\ lane \in {"idle"} \cup ClearStates \cup RecoveryStates
  /\ stopPc \in [Callers -> StopStates]
  /\ owed \subseteq Callers /\ kept \subseteq owed /\ acked \subseteq owed

Reports == autoReported => legacy

UnlinkAsked == lane = "unlink" => required # "none"

OvertakenIsOwed == lane \in Deciding /\ ~overtaken => owed = {}

UnlinkKeepsNone == lane = "unlink" => kept = {}

SendIsUnanswered == \A c \in Callers : stopPc[c] = "send" => c \notin acked

ClosedBeforeOpening == lane \in BeforeOpening /\ Received # {} => gate

StandsWhenIdle == lane = "idle" /\ Received # {} => fwStopped \/ gate \/ reason = "unknown"

AdmitsUnknown == lane = "unknownPersist" => reason = "unknown"

Typed == Flags /\ Values /\ Reports

Kept ==
  /\ LaterStopStaysLatched /\ LaterStopStaysOnDisk /\ WriteAheadHolds
  /\ OvertakenIsOwed /\ UnlinkKeepsNone /\ UnlinkAsked

Stands == SendIsUnanswered /\ ClosedBeforeOpening /\ StandsWhenIdle /\ AdmitsUnknown

IInv == Typed /\ Kept /\ Stands

-----------------------------------------------------------------------------
(* One call of STOP, at any of its steps. *)
LEMMA StopGood ==
  ASSUME IInv, NEW c \in Callers, Stop(c)
  PROVE  IInv'
<1> USE DEF IInv, Typed
<1>1. CASE StopLatches(c)
  <2>1. Flags'
    BY <1>1 DEF StopLatches, Flags, hat, link
  <2>2. Values'
    BY <1>1 DEF StopLatches, At, Values, StopStates, Reasons, link
  <2>3. Reports'
    BY <1>1 DEF StopLatches, Reports, hat, link
  <2>4. Kept'
    BY <1>1 DEF StopLatches, Kept, LaterStopStaysLatched,
            LaterStopStaysOnDisk, WriteAheadHolds, OvertakenIsOwed,
            UnlinkKeepsNone, UnlinkAsked
  <2>5. Stands'
    BY <1>1 DEF StopLatches, At, Stands, SendIsUnanswered,
            ClosedBeforeOpening, StandsWhenIdle, AdmitsUnknown, Received, hat,
            link
  <2>6. QED BY <2>1, <2>2, <2>3, <2>4, <2>5
<1>2. CASE StopSent(c)
  <2>1. Flags'
    BY <1>2 DEF StopSent, StopAcknowledged, Flags, latch, clear
  <2>2. Values'
    BY <1>2 DEF StopSent, At, Values, StopStates, latch, clear
  <2>3. Reports'
    BY <1>2 DEF StopSent, StopAcknowledged, Reports
  <2>4. Kept'
    BY <1>2 DEF StopSent, Kept, LaterStopStaysLatched, LaterStopStaysOnDisk,
            WriteAheadHolds, OvertakenIsOwed, UnlinkKeepsNone, UnlinkAsked,
            latch, clear
  <2>5. Stands'
    BY <1>2 DEF StopSent, At, StopAcknowledged, Stands, Values,
            SendIsUnanswered, ClosedBeforeOpening, StandsWhenIdle,
            AdmitsUnknown, Received, latch
  <2>6. QED BY <2>1, <2>2, <2>3, <2>4, <2>5
<1>3. CASE StopNotSent(c)
  <2>1. Flags'
    BY <1>3 DEF StopNotSent, StopUnacknowledged, LinkFaults, Flags, latch,
            clear
  <2>2. Values'
    BY <1>3 DEF StopNotSent, At, Values, StopStates, latch, clear
  <2>3. Reports'
    BY <1>3 DEF StopNotSent, StopUnacknowledged, LinkFaults, Reports
  <2>4. Kept'
    BY <1>3 DEF StopNotSent, Kept, LaterStopStaysLatched,
            LaterStopStaysOnDisk, WriteAheadHolds, OvertakenIsOwed,
            UnlinkKeepsNone, UnlinkAsked, latch, clear
  <2>5. Stands'
    BY <1>3 DEF StopNotSent, At, StopUnacknowledged, Stands, Values,
            SendIsUnanswered, ClosedBeforeOpening, StandsWhenIdle,
            AdmitsUnknown, Received, latch
  <2>6. QED BY <2>1, <2>2, <2>3, <2>4, <2>5
<1>4. CASE StopReceipt(c)
  <2>1. Flags'
    BY <1>4 DEF StopReceipt, GateCloses, Flags, hat, latch, clear, history
  <2>2. Values'
    BY <1>4 DEF StopReceipt, At, Values, StopStates, latch, clear, history
  <2>3. Reports'
    BY <1>4 DEF StopReceipt, GateCloses, Reports, hat
  <2>4. Kept'
    BY <1>4 DEF StopReceipt, Kept, LaterStopStaysLatched,
            LaterStopStaysOnDisk, WriteAheadHolds, OvertakenIsOwed,
            UnlinkKeepsNone, UnlinkAsked, latch, clear, history
  <2>5. Stands'
    BY <1>4 DEF StopReceipt, At, GateCloses, Stands, SendIsUnanswered,
            ClosedBeforeOpening, StandsWhenIdle, AdmitsUnknown, latch, history
  <2>6. QED BY <2>1, <2>2, <2>3, <2>4, <2>5
<1>5. CASE StopPersists(c)
  <2>1. Flags'
    BY <1>5 DEF StopPersists, Flags, hat, link, latch, clear
  <2>2. Values'
    BY <1>5 DEF StopPersists, At, Values, StopStates, Reasons, link, latch,
            clear
  <2>3. Reports'
    BY <1>5 DEF StopPersists, Reports, hat, link
  <2>4. Kept'
    BY <1>5 DEF StopPersists, LatchLockFree, Kept, LaterStopStaysLatched,
            LaterStopStaysOnDisk, WriteAheadHolds, OvertakenIsOwed,
            UnlinkKeepsNone, UnlinkAsked, latch, clear
  <2>5. Stands'
    BY <1>5 DEF StopPersists, At, Stands, SendIsUnanswered,
            ClosedBeforeOpening, StandsWhenIdle, AdmitsUnknown, Received, hat,
            link, latch
  <2>6. QED BY <2>1, <2>2, <2>3, <2>4, <2>5
<1>6. CASE StopPersistFails(c)
  <2>1. Flags'
    BY <1>6 DEF StopPersistFails, Flags, hat, link, latch, clear, history
  <2>2. Values'
    BY <1>6 DEF StopPersistFails, At, Values, StopStates, Reasons, link,
            latch, clear, history
  <2>3. Reports'
    BY <1>6 DEF StopPersistFails, Reports, hat, link
  <2>4. Kept'
    BY <1>6 DEF StopPersistFails, Kept, LaterStopStaysLatched,
            LaterStopStaysOnDisk, WriteAheadHolds, OvertakenIsOwed,
            UnlinkKeepsNone, UnlinkAsked, latch, clear, history
  <2>5. Stands'
    BY <1>6 DEF StopPersistFails, At, Stands, SendIsUnanswered,
            ClosedBeforeOpening, StandsWhenIdle, AdmitsUnknown, Received, hat,
            link, latch, history
  <2>6. QED BY <2>1, <2>2, <2>3, <2>4, <2>5
<1>7. CASE StopUnknown(c)
  <2>1. Flags'
    BY <1>7 DEF StopUnknown, Flags, hat, link, clear, history
  <2>2. Values'
    BY <1>7 DEF StopUnknown, At, Values, StopStates, Reasons, link, clear,
            history
  <2>3. Reports'
    BY <1>7 DEF StopUnknown, Reports, hat, link
  <2>4. Kept'
    BY <1>7 DEF StopUnknown, Kept, LaterStopStaysLatched,
            LaterStopStaysOnDisk, WriteAheadHolds, OvertakenIsOwed,
            UnlinkKeepsNone, UnlinkAsked, clear, history
  <2>5. Stands'
    BY <1>7 DEF StopUnknown, At, Stands, SendIsUnanswered,
            ClosedBeforeOpening, StandsWhenIdle, AdmitsUnknown, Received,
            link, history
  <2>6. QED BY <2>1, <2>2, <2>3, <2>4, <2>5
<1>8. CASE StopUnknownPersists(c)
  <2>1. Flags'
    BY <1>8 DEF StopUnknownPersists, Flags, hat, link, latch, clear
  <2>2. Values'
    BY <1>8 DEF StopUnknownPersists, At, Values, StopStates, Reasons, link,
            latch, clear
  <2>3. Reports'
    BY <1>8 DEF StopUnknownPersists, Reports, hat, link
  <2>4. Kept'
    BY <1>8 DEF StopUnknownPersists, LatchLockFree, Kept,
            LaterStopStaysLatched, LaterStopStaysOnDisk, WriteAheadHolds,
            OvertakenIsOwed, UnlinkKeepsNone, UnlinkAsked, latch, clear
  <2>5. Stands'
    BY <1>8 DEF StopUnknownPersists, At, Stands, SendIsUnanswered,
            ClosedBeforeOpening, StandsWhenIdle, AdmitsUnknown, Received, hat,
            link, latch
  <2>6. QED BY <2>1, <2>2, <2>3, <2>4, <2>5
<1>9. QED
  BY <1>1, <1>2, <1>3, <1>4, <1>5, <1>6, <1>7, <1>8 DEF Stop

(* A clear, at any of its steps. *)
LEMMA ClearGood ==
  ASSUME IInv, Clear
  PROVE  IInv'
<1> USE DEF IInv, Typed
<1>1. CASE ClearBegins
  <2>1. Flags'
    BY <1>1 DEF ClearBegins, Flags, hat, link, latch
  <2>2. Values'
    BY <1>1 DEF ClearBegins, Step, Values, Reasons, ClearStates, link, latch
  <2>3. Reports'
    BY <1>1 DEF ClearBegins, Reports, hat, link
  <2>4. Kept'
    BY <1>1 DEF ClearBegins, Step, Kept, LaterStopStaysLatched,
            LaterStopStaysOnDisk, WriteAheadHolds, OvertakenIsOwed,
            UnlinkKeepsNone, UnlinkAsked
  <2>5. Stands'
    BY <1>1 DEF ClearBegins, Step, Stands, SendIsUnanswered,
            ClosedBeforeOpening, StandsWhenIdle, AdmitsUnknown, Received
  <2>6. QED BY <2>1, <2>2, <2>3, <2>4, <2>5
<1>2. CASE ClearSurveys
  <2>1. Flags'
    BY <1>2 DEF ClearSurveys, Flags, hat, link, latch, clear, history
  <2>2. Values'
    BY <1>2 DEF ClearSurveys, Step, Values, ClearStates, link, latch, clear,
            history
  <2>3. Reports'
    BY <1>2 DEF ClearSurveys, Reports, hat, link
  <2>4. Kept'
    BY <1>2 DEF ClearSurveys, Step, Kept, LaterStopStaysLatched,
            LaterStopStaysOnDisk, WriteAheadHolds, OvertakenIsOwed,
            UnlinkKeepsNone, UnlinkAsked, Deciding, latch, clear, history
  <2>5. Stands'
    BY <1>2 DEF ClearSurveys, Step, Stands, SendIsUnanswered,
            ClosedBeforeOpening, StandsWhenIdle, AdmitsUnknown, Received,
            BeforeOpening, link, history
  <2>6. QED BY <2>1, <2>2, <2>3, <2>4, <2>5
<1>3. CASE FirstStop
  <2>1. Flags'
    BY <1>3 DEF FirstStop, LaneStops, LaneCannotStop, GateCloses,
            StopAcknowledged, StopUnacknowledged, LinkFaults, Flags, latch,
            clear, history
  <2>2. Values'
    BY <1>3 DEF FirstStop, LaneStops, LaneCannotStop, Step, Values,
            ClearStates, latch, clear, history
  <2>3. Reports'
    BY <1>3 DEF FirstStop, LaneStops, LaneCannotStop, GateCloses,
            StopAcknowledged, StopUnacknowledged, LinkFaults, Reports
  <2>4. Kept'
    BY <1>3 DEF FirstStop, LaneStops, LaneCannotStop, Step, Kept,
            LaterStopStaysLatched, LaterStopStaysOnDisk, WriteAheadHolds,
            OvertakenIsOwed, UnlinkKeepsNone, UnlinkAsked, Deciding, latch,
            clear, history
  <2>5. Stands'
    BY <1>3 DEF FirstStop, LaneStops, LaneCannotStop, GateCloses, Step,
            Stands, SendIsUnanswered, ClosedBeforeOpening, StandsWhenIdle,
            AdmitsUnknown, Received, BeforeOpening, history
  <2>6. QED BY <2>1, <2>2, <2>3, <2>4, <2>5
<1>4. CASE WriteAhead
  <2>1. Flags'
    BY <1>4 DEF WriteAhead, Flags, hat, link, latch, history
  <2>2. Values'
    BY <1>4 DEF WriteAhead, Step, Why, Values, Reasons, ClearStates, link,
            latch, history
  <2>3. Reports'
    BY <1>4 DEF WriteAhead, Reports, hat, link
  <2>4. Kept'
    BY <1>4 DEF WriteAhead, Step, Why, Kept, LaterStopStaysLatched,
            LaterStopStaysOnDisk, WriteAheadHolds, OvertakenIsOwed,
            UnlinkKeepsNone, UnlinkAsked, Deciding, latch, history
  <2>5. Stands'
    BY <1>4 DEF WriteAhead, Step, Stands, SendIsUnanswered,
            ClosedBeforeOpening, StandsWhenIdle, AdmitsUnknown, Received,
            BeforeOpening, link, history
  <2>6. QED BY <2>1, <2>2, <2>3, <2>4, <2>5
<1>5. CASE WriteAheadFails
  <2>1. Flags'
    BY <1>5 DEF WriteAheadFails, Flags, hat, link, clear, history
  <2>2. Values'
    BY <1>5 DEF WriteAheadFails, Step, Why, Values, Reasons, link, clear,
            history
  <2>3. Reports'
    BY <1>5 DEF WriteAheadFails, Reports, hat, link
  <2>4. Kept'
    BY <1>5 DEF WriteAheadFails, Step, Why, Kept, LaterStopStaysLatched,
            LaterStopStaysOnDisk, WriteAheadHolds, OvertakenIsOwed,
            UnlinkKeepsNone, UnlinkAsked, Deciding, history
  <2>5. Stands'
    BY <1>5 DEF WriteAheadFails, Step, Stands, SendIsUnanswered,
            ClosedBeforeOpening, StandsWhenIdle, AdmitsUnknown, BeforeOpening,
            history
  <2>6. QED BY <2>1, <2>2, <2>3, <2>4, <2>5
<1>6. CASE Declare
  <2>1. Flags'
    BY <1>6 DEF Declare, Flags, hat, link, clear, history
  <2>2. Values'
    BY <1>6 DEF Declare, Step, Values, ClearStates, link, clear, history
  <2>3. Reports'
    BY <1>6 DEF Declare, Reports, hat, link
  <2>4. Kept'
    BY <1>6 DEF Declare, Step, Kept, LaterStopStaysLatched,
            LaterStopStaysOnDisk, WriteAheadHolds, OvertakenIsOwed,
            UnlinkKeepsNone, UnlinkAsked, Deciding, clear, history
  <2>5. Stands'
    BY <1>6 DEF Declare, Step, Stands, SendIsUnanswered, ClosedBeforeOpening,
            StandsWhenIdle, AdmitsUnknown, Received, BeforeOpening, link,
            history
  <2>6. QED BY <2>1, <2>2, <2>3, <2>4, <2>5
<1>7. CASE ClearResets
  <2>1. Flags'
    BY <1>7 DEF ClearResets, Inspected, StatusSeen, ResetAccepted, ResetRefused,
            ResetUnanswered, Seen, Flags, latch, clear, history
  <2>2. Values'
    BY <1>7 DEF ClearResets, Inspected, Step, ResetAccepted, ResetRefused,
            ResetUnanswered, Values, ClearStates, latch, clear, history
  <2>3. Reports'
    BY <1>7 DEF ClearResets, Inspected, StatusSeen, ResetAccepted, ResetRefused,
            ResetUnanswered, Reports
  <2>4. Kept'
    BY <1>7 DEF ClearResets, Inspected, Step, Kept, LaterStopStaysLatched,
            LaterStopStaysOnDisk, WriteAheadHolds, OvertakenIsOwed,
            UnlinkKeepsNone, UnlinkAsked, Deciding, latch, clear, history
  <2>5. Stands'
    BY <1>7 DEF ClearResets, Inspected, Step, StatusSeen, ResetAccepted, ResetRefused,
            ResetUnanswered, Seen, Stands, SendIsUnanswered,
            ClosedBeforeOpening, StandsWhenIdle, AdmitsUnknown, Received,
            BeforeOpening, history
  <2>6. QED BY <2>1, <2>2, <2>3, <2>4, <2>5
<1>8. CASE ClearOpensGate
  <2>1. Flags'
    BY <1>8 DEF ClearOpensGate, GateOpens, Flags, hat, latch, clear, history
  <2>2. Values'
    BY <1>8 DEF ClearOpensGate, Step, GateOpens, Values, ClearStates, latch,
            clear, history
  <2>3. Reports'
    BY <1>8 DEF ClearOpensGate, GateOpens, Reports
  <2>4. Kept'
    BY <1>8 DEF ClearOpensGate, Step, Kept, LaterStopStaysLatched,
            LaterStopStaysOnDisk, WriteAheadHolds, OvertakenIsOwed,
            UnlinkKeepsNone, UnlinkAsked, Deciding, latch, clear, history
  <2>5. Stands'
    BY <1>8 DEF ClearOpensGate, Step, Stands, SendIsUnanswered,
            ClosedBeforeOpening, StandsWhenIdle, AdmitsUnknown, BeforeOpening,
            history
  <2>6. QED BY <2>1, <2>2, <2>3, <2>4, <2>5
<1>9. CASE ClearLosesPolicy
  <2>1. Flags'
    BY <1>9 DEF ClearLosesPolicy, PolicyLost, LinkFaults, Flags, hat, latch,
            clear, history
  <2>2. Values'
    BY <1>9 DEF ClearLosesPolicy, Step, PolicyLost, Values, latch, clear,
            history
  <2>3. Reports'
    BY <1>9 DEF ClearLosesPolicy, PolicyLost, LinkFaults, Reports, hat
  <2>4. Kept'
    BY <1>9 DEF ClearLosesPolicy, Step, Kept, LaterStopStaysLatched,
            LaterStopStaysOnDisk, WriteAheadHolds, OvertakenIsOwed,
            UnlinkKeepsNone, UnlinkAsked, Deciding, latch, history
  <2>5. Stands'
    BY <1>9 DEF ClearLosesPolicy, Step, PolicyLost, Stands, SendIsUnanswered,
            ClosedBeforeOpening, StandsWhenIdle, AdmitsUnknown, history
  <2>6. QED BY <2>1, <2>2, <2>3, <2>4, <2>5
<1>10. CASE ClearDeclaresFamilies
  <2>1. Flags'
    BY <1>10 DEF ClearDeclaresFamilies, Flags, hat, link, latch, clear,
            history
  <2>2. Values'
    BY <1>10 DEF ClearDeclaresFamilies, Step, Values, ClearStates, link,
            latch, clear, history
  <2>3. Reports'
    BY <1>10 DEF ClearDeclaresFamilies, Reports, hat, link
  <2>4. Kept'
    BY <1>10 DEF ClearDeclaresFamilies, Step, Kept, LaterStopStaysLatched,
            LaterStopStaysOnDisk, WriteAheadHolds, OvertakenIsOwed,
            UnlinkKeepsNone, UnlinkAsked, Deciding, latch, clear, history
  <2>5. Stands'
    BY <1>10 DEF ClearDeclaresFamilies, Step, Stands, SendIsUnanswered,
            ClosedBeforeOpening, StandsWhenIdle, AdmitsUnknown, BeforeOpening,
            history
  <2>6. QED BY <2>1, <2>2, <2>3, <2>4, <2>5
<1>11. CASE FamiliesFail
  <2>1. Flags'
    BY <1>11 DEF FamiliesFail, LinkFaults, Flags, hat, history
  <2>2. Values'
    BY <1>11 DEF FamiliesFail, Step, Why, Values, Reasons, ClearStates,
            history
  <2>3. Reports'
    BY <1>11 DEF FamiliesFail, LinkFaults, Reports
  <2>4. Kept'
    BY <1>11 DEF FamiliesFail, Step, Kept, LaterStopStaysLatched,
            LaterStopStaysOnDisk, WriteAheadHolds, OvertakenIsOwed,
            UnlinkKeepsNone, UnlinkAsked, history
  <2>5. Stands'
    BY <1>11 DEF FamiliesFail, Step, Stands, SendIsUnanswered,
            ClosedBeforeOpening, StandsWhenIdle, AdmitsUnknown, BeforeOpening,
            history
  <2>6. QED BY <2>1, <2>2, <2>3, <2>4, <2>5
<1>12. CASE ClearRechecks
  <2>1. Flags'
    BY <1>12 DEF ClearRechecks, Flags, hat, link, latch, clear, history
  <2>2. Values'
    BY <1>12 DEF ClearRechecks, Step, Values, ClearStates, link, latch, clear,
            history
  <2>3. Reports'
    BY <1>12 DEF ClearRechecks, Reports, hat, link
  <2>4. Kept'
    BY <1>12 DEF ClearRechecks, Step, MayUnlink, Kept, Values,
            LaterStopStaysLatched, LaterStopStaysOnDisk, WriteAheadHolds,
            OvertakenIsOwed, UnlinkKeepsNone, UnlinkAsked, Deciding, latch,
            clear, history
  <2>5. Stands'
    BY <1>12 DEF ClearRechecks, Step, Stands, SendIsUnanswered,
            ClosedBeforeOpening, StandsWhenIdle, AdmitsUnknown, BeforeOpening,
            history
  <2>6. QED BY <2>1, <2>2, <2>3, <2>4, <2>5
<1>13. CASE Unlink
  <2>1. Flags'
    BY <1>13 DEF Unlink, Flags, hat, link, latch, clear, history
  <2>2. Values'
    BY <1>13 DEF Unlink, Step, Values, Reasons, ClearStates, link, latch,
            clear, history
  <2>3. Reports'
    BY <1>13 DEF Unlink, Reports, hat, link
  <2>4. Kept'
    BY <1>13 DEF Unlink, Step, Kept, LaterStopStaysLatched,
            LaterStopStaysOnDisk, WriteAheadHolds, OvertakenIsOwed,
            UnlinkKeepsNone, UnlinkAsked, Deciding, latch, clear, history
  <2>5. Stands'
    BY <1>13 DEF Unlink, Step, Stands, SendIsUnanswered, ClosedBeforeOpening,
            StandsWhenIdle, AdmitsUnknown, BeforeOpening, history
  <2>6. QED BY <2>1, <2>2, <2>3, <2>4, <2>5
<1>14. CASE UnlinkFails
  <2>1. Flags'
    BY <1>14 DEF UnlinkFails, Flags, hat, link, latch, clear, history
  <2>2. Values'
    BY <1>14 DEF UnlinkFails, Step, Values, Reasons, ClearStates, link, latch,
            clear, history
  <2>3. Reports'
    BY <1>14 DEF UnlinkFails, Reports, hat, link
  <2>4. Kept'
    BY <1>14 DEF UnlinkFails, Step, Kept, LaterStopStaysLatched,
            LaterStopStaysOnDisk, WriteAheadHolds, OvertakenIsOwed,
            UnlinkKeepsNone, UnlinkAsked, Deciding, latch, history
  <2>5. Stands'
    BY <1>14 DEF UnlinkFails, Step, Stands, SendIsUnanswered,
            ClosedBeforeOpening, StandsWhenIdle, AdmitsUnknown, BeforeOpening,
            history
  <2>6. QED BY <2>1, <2>2, <2>3, <2>4, <2>5
<1>15. CASE CommitClear
  <2>1. Flags'
    BY <1>15 DEF CommitClear, Flags, hat, link, latch, clear, history
  <2>2. Values'
    BY <1>15 DEF CommitClear, Step, Values, Reasons, ClearStates, link, latch,
            clear, history
  <2>3. Reports'
    BY <1>15 DEF CommitClear, Reports, hat, link
  <2>4. Kept'
    BY <1>15 DEF CommitClear, Step, Kept, LaterStopStaysLatched,
            LaterStopStaysOnDisk, WriteAheadHolds, OvertakenIsOwed,
            UnlinkKeepsNone, UnlinkAsked, Deciding, latch, history
  <2>5. Stands'
    BY <1>15 DEF CommitClear, Step, Kept, Stands, Values, OvertakenIsOwed,
            Deciding, SendIsUnanswered, ClosedBeforeOpening, StandsWhenIdle,
            AdmitsUnknown, Received, BeforeOpening, history
  <2>6. QED BY <2>1, <2>2, <2>3, <2>4, <2>5
<1>16. CASE CommitError
  <2>1. Flags'
    BY <1>16 DEF CommitError, Flags, hat, link, clear, history
  <2>2. Values'
    BY <1>16 DEF CommitError, Step, Values, Reasons, ClearStates, link, clear,
            history
  <2>3. Reports'
    BY <1>16 DEF CommitError, Reports, hat, link
  <2>4. Kept'
    BY <1>16 DEF CommitError, Step, Kept, LaterStopStaysLatched,
            LaterStopStaysOnDisk, WriteAheadHolds, OvertakenIsOwed,
            UnlinkKeepsNone, UnlinkAsked, Deciding, history
  <2>5. Stands'
    BY <1>16 DEF CommitError, Step, Stands, SendIsUnanswered,
            ClosedBeforeOpening, StandsWhenIdle, AdmitsUnknown, BeforeOpening,
            history
  <2>6. QED BY <2>1, <2>2, <2>3, <2>4, <2>5
<1>17. QED
  BY <1>1, <1>2, <1>3, <1>4, <1>5, <1>6, <1>7, <1>8, <1>9, <1>10, <1>11,
            <1>12, <1>13, <1>14, <1>15, <1>16 DEF Clear

(* The background recovery, at any of its steps. *)
LEMMA RecoveryGood ==
  ASSUME IInv, Recovery
  PROVE  IInv'
<1> USE DEF IInv, Typed
<1>1. CASE RecoveryBegins
  <2>1. Flags'
    BY <1>1 DEF RecoveryBegins, Flags, hat, link, latch, history
  <2>2. Values'
    BY <1>1 DEF RecoveryBegins, Step, Values, RecoveryStates, link, latch,
            history
  <2>3. Reports'
    BY <1>1 DEF RecoveryBegins, Reports, hat
  <2>4. Kept'
    BY <1>1 DEF RecoveryBegins, Step, Kept, LaterStopStaysLatched,
            LaterStopStaysOnDisk, WriteAheadHolds, OvertakenIsOwed,
            UnlinkKeepsNone, UnlinkAsked, history
  <2>5. Stands'
    BY <1>1 DEF RecoveryBegins, Step, Kept, Stands, Values,
            LaterStopStaysLatched, SendIsUnanswered, ClosedBeforeOpening,
            StandsWhenIdle, AdmitsUnknown, Received, history
  <2>6. QED BY <2>1, <2>2, <2>3, <2>4, <2>5
<1>2. CASE RecoveryResets
  <2>1. Flags'
    BY <1>2 DEF RecoveryResets, StatusSeen, ResetAccepted, ResetRefused,
            ResetUnanswered, Seen, Flags, latch, clear, history
  <2>2. Values'
    BY <1>2 DEF RecoveryResets, Step, ResetAccepted, ResetRefused,
            ResetUnanswered, Values, RecoveryStates, latch, clear, history
  <2>3. Reports'
    BY <1>2 DEF RecoveryResets, StatusSeen, ResetAccepted, ResetRefused,
            ResetUnanswered, Reports
  <2>4. Kept'
    BY <1>2 DEF RecoveryResets, Step, Kept, LaterStopStaysLatched,
            LaterStopStaysOnDisk, WriteAheadHolds, OvertakenIsOwed,
            UnlinkKeepsNone, UnlinkAsked, Deciding, latch, history
  <2>5. Stands'
    BY <1>2 DEF RecoveryResets, Step, StatusSeen, ResetAccepted, ResetRefused,
            ResetUnanswered, Seen, Stands, SendIsUnanswered,
            ClosedBeforeOpening, StandsWhenIdle, AdmitsUnknown, Received,
            BeforeOpening, history
  <2>6. QED BY <2>1, <2>2, <2>3, <2>4, <2>5
<1>3. CASE RecoveryOpensGate
  <2>1. Flags'
    BY <1>3 DEF RecoveryOpensGate, GateOpens, Flags, hat, latch, clear,
            history
  <2>2. Values'
    BY <1>3 DEF RecoveryOpensGate, Step, GateOpens, Values, RecoveryStates,
            latch, clear, history
  <2>3. Reports'
    BY <1>3 DEF RecoveryOpensGate, GateOpens, Reports
  <2>4. Kept'
    BY <1>3 DEF RecoveryOpensGate, Step, Kept, LaterStopStaysLatched,
            LaterStopStaysOnDisk, WriteAheadHolds, OvertakenIsOwed,
            UnlinkKeepsNone, UnlinkAsked, Deciding, latch, history
  <2>5. Stands'
    BY <1>3 DEF RecoveryOpensGate, Step, Stands, SendIsUnanswered,
            ClosedBeforeOpening, StandsWhenIdle, AdmitsUnknown, BeforeOpening,
            history
  <2>6. QED BY <2>1, <2>2, <2>3, <2>4, <2>5
<1>4. CASE RecoveryLosesPolicy
  <2>1. Flags'
    BY <1>4 DEF RecoveryLosesPolicy, PolicyLost, LinkFaults, Flags, hat,
            latch, clear, history
  <2>2. Values'
    BY <1>4 DEF RecoveryLosesPolicy, Step, PolicyLost, Values, latch, clear,
            history
  <2>3. Reports'
    BY <1>4 DEF RecoveryLosesPolicy, PolicyLost, LinkFaults, Reports, hat
  <2>4. Kept'
    BY <1>4 DEF RecoveryLosesPolicy, Step, Kept, LaterStopStaysLatched,
            LaterStopStaysOnDisk, WriteAheadHolds, OvertakenIsOwed,
            UnlinkKeepsNone, UnlinkAsked, Deciding, latch, history
  <2>5. Stands'
    BY <1>4 DEF RecoveryLosesPolicy, Step, PolicyLost, Stands,
            SendIsUnanswered, ClosedBeforeOpening, StandsWhenIdle,
            AdmitsUnknown, history
  <2>6. QED BY <2>1, <2>2, <2>3, <2>4, <2>5
<1>5. CASE RecoveryConcludes
  <2>1. Flags'
    BY <1>5 DEF RecoveryConcludes, Flags, hat, link, latch, clear, history
  <2>2. Values'
    BY <1>5 DEF RecoveryConcludes, Step, Values, ClearStates, link, latch,
            clear, history
  <2>3. Reports'
    BY <1>5 DEF RecoveryConcludes, Reports, hat, link
  <2>4. Kept'
    BY <1>5 DEF RecoveryConcludes, Step, Kept, LaterStopStaysLatched,
            LaterStopStaysOnDisk, WriteAheadHolds, OvertakenIsOwed,
            UnlinkKeepsNone, UnlinkAsked, Deciding, latch, history
  <2>5. Stands'
    BY <1>5 DEF RecoveryConcludes, Step, Kept, Stands, Values,
            LaterStopStaysLatched, SendIsUnanswered, ClosedBeforeOpening,
            StandsWhenIdle, AdmitsUnknown, Received, BeforeOpening, history
  <2>6. QED BY <2>1, <2>2, <2>3, <2>4, <2>5
<1>6. QED
  BY <1>1, <1>2, <1>3, <1>4, <1>5 DEF Recovery

(* The second STOP an overtaken clear or recovery ends with. *)
LEMMA LaneEndsGood ==
  ASSUME IInv, LaneEnds
  PROVE  IInv'
<1> USE DEF IInv, Typed
<1>1. CASE Restop
  <2>1. Flags'
    BY <1>1 DEF Restop, LaneStops, LaneCannotStop, GateCloses,
            StopAcknowledged, StopUnacknowledged, LinkFaults, Flags, latch,
            clear, history
  <2>2. Values'
    BY <1>1 DEF Restop, LaneStops, LaneCannotStop, Step, Values, ClearStates,
            latch, clear, history
  <2>3. Reports'
    BY <1>1 DEF Restop, LaneStops, LaneCannotStop, GateCloses,
            StopAcknowledged, StopUnacknowledged, LinkFaults, Reports
  <2>4. Kept'
    BY <1>1 DEF Restop, LaneStops, LaneCannotStop, Step, Kept,
            LaterStopStaysLatched, LaterStopStaysOnDisk, WriteAheadHolds,
            OvertakenIsOwed, UnlinkKeepsNone, UnlinkAsked, Deciding, latch,
            history
  <2>5. Stands'
    BY <1>1 DEF Restop, LaneStops, LaneCannotStop, GateCloses, Step, Stands,
            SendIsUnanswered, ClosedBeforeOpening, StandsWhenIdle,
            AdmitsUnknown, BeforeOpening, history
  <2>6. QED BY <2>1, <2>2, <2>3, <2>4, <2>5
<1>2. CASE LaneUnknown
  <2>1. Flags'
    BY <1>2 DEF LaneUnknown, Flags, hat, link, clear, history
  <2>2. Values'
    BY <1>2 DEF LaneUnknown, Step, Values, Reasons, ClearStates, link, clear,
            history
  <2>3. Reports'
    BY <1>2 DEF LaneUnknown, Reports, hat, link
  <2>4. Kept'
    BY <1>2 DEF LaneUnknown, Step, Kept, LaterStopStaysLatched,
            LaterStopStaysOnDisk, WriteAheadHolds, OvertakenIsOwed,
            UnlinkKeepsNone, UnlinkAsked, Deciding, history
  <2>5. Stands'
    BY <1>2 DEF LaneUnknown, Step, Stands, SendIsUnanswered,
            ClosedBeforeOpening, StandsWhenIdle, AdmitsUnknown, BeforeOpening,
            history
  <2>6. QED BY <2>1, <2>2, <2>3, <2>4, <2>5
<1>3. CASE LaneUnknownPersists
  <2>1. Flags'
    BY <1>3 DEF LaneUnknownPersists, Flags, hat, link, latch, clear, history
  <2>2. Values'
    BY <1>3 DEF LaneUnknownPersists, Step, Values, Reasons, link, latch,
            clear, history
  <2>3. Reports'
    BY <1>3 DEF LaneUnknownPersists, Reports, hat, link
  <2>4. Kept'
    BY <1>3 DEF LaneUnknownPersists, Step, Kept, LaterStopStaysLatched,
            LaterStopStaysOnDisk, WriteAheadHolds, OvertakenIsOwed,
            UnlinkKeepsNone, UnlinkAsked, Deciding, latch, history
  <2>5. Stands'
    BY <1>3 DEF LaneUnknownPersists, Step, Stands, SendIsUnanswered,
            ClosedBeforeOpening, StandsWhenIdle, AdmitsUnknown, BeforeOpening,
            latch, history
  <2>6. QED BY <2>1, <2>2, <2>3, <2>4, <2>5
<1>4. QED
  BY <1>1, <1>2, <1>3 DEF LaneEnds

(* Controller, link, heartbeat and a restart of the gateway process. *)
LEMMA EnvironmentGood ==
  ASSUME IInv, Environment
  PROVE  IInv'
<1> USE DEF IInv, Typed
<1>1. CASE ControllerReboots
  <2>1. Flags'
    BY <1>1 DEF ControllerReboots, Flags, latch, clear
  <2>2. Values'
    BY <1>1 DEF ControllerReboots, Values, latch, clear
  <2>3. Reports'
    BY <1>1 DEF ControllerReboots, Reports
  <2>4. Kept'
    BY <1>1 DEF ControllerReboots, Kept, LaterStopStaysLatched,
            LaterStopStaysOnDisk, WriteAheadHolds, OvertakenIsOwed,
            UnlinkKeepsNone, UnlinkAsked, latch, clear
  <2>5. Stands'
    BY <1>1 DEF ControllerReboots, Stands, SendIsUnanswered,
            ClosedBeforeOpening, StandsWhenIdle, AdmitsUnknown, Received,
            latch
  <2>6. QED BY <2>1, <2>2, <2>3, <2>4, <2>5
<1>2. CASE LegacyStops
  <2>1. Flags'
    BY <1>2 DEF LegacyStops, Flags, link, latch, clear, history
  <2>2. Values'
    BY <1>2 DEF LegacyStops, Values, link, latch, clear, history
  <2>3. Reports'
    BY <1>2 DEF LegacyStops, Reports
  <2>4. Kept'
    BY <1>2 DEF LegacyStops, Kept, LaterStopStaysLatched,
            LaterStopStaysOnDisk, WriteAheadHolds, OvertakenIsOwed,
            UnlinkKeepsNone, UnlinkAsked, latch, clear, history
  <2>5. Stands'
    BY <1>2 DEF LegacyStops, Stands, SendIsUnanswered, ClosedBeforeOpening,
            StandsWhenIdle, AdmitsUnknown, Received, link, latch, history
  <2>6. QED BY <2>1, <2>2, <2>3, <2>4, <2>5
<1>3. CASE Reconnect
  <2>1. Flags'
    BY <1>3 DEF Reconnect, Flags, hat, latch, clear, history
  <2>2. Values'
    BY <1>3 DEF Reconnect, Values, latch, clear, history
  <2>3. Reports'
    BY <1>3 DEF Reconnect, Reports, hat
  <2>4. Kept'
    BY <1>3 DEF Reconnect, Kept, LaterStopStaysLatched, LaterStopStaysOnDisk,
            WriteAheadHolds, OvertakenIsOwed, UnlinkKeepsNone, UnlinkAsked,
            latch, clear, history
  <2>5. Stands'
    BY <1>3 DEF Reconnect, Stands, SendIsUnanswered, ClosedBeforeOpening,
            StandsWhenIdle, AdmitsUnknown, Received, hat, latch, history
  <2>6. QED BY <2>1, <2>2, <2>3, <2>4, <2>5
<1>4. CASE HeartbeatAnswered
  <2>1. Flags'
    BY <1>4 DEF HeartbeatAnswered, Flags, hat, latch, clear, history
  <2>2. Values'
    BY <1>4 DEF HeartbeatAnswered, Values, latch, clear, history
  <2>3. Reports'
    BY <1>4 DEF HeartbeatAnswered, Reports, hat
  <2>4. Kept'
    BY <1>4 DEF HeartbeatAnswered, Kept, LaterStopStaysLatched,
            LaterStopStaysOnDisk, WriteAheadHolds, OvertakenIsOwed,
            UnlinkKeepsNone, UnlinkAsked, latch, clear, history
  <2>5. Stands'
    BY <1>4 DEF HeartbeatAnswered, Stands, SendIsUnanswered,
            ClosedBeforeOpening, StandsWhenIdle, AdmitsUnknown, Received, hat,
            latch, history
  <2>6. QED BY <2>1, <2>2, <2>3, <2>4, <2>5
<1>5. CASE HeartbeatIngested
  <2>1. Flags'
    BY <1>5 DEF HeartbeatIngested, Flags, hat, latch, clear, history
  <2>2. Values'
    BY <1>5 DEF HeartbeatIngested, Values, latch, clear, history
  <2>3. Reports'
    BY <1>5 DEF HeartbeatIngested, Reports, hat
  <2>4. Kept'
    BY <1>5 DEF HeartbeatIngested, Kept, LaterStopStaysLatched,
            LaterStopStaysOnDisk, WriteAheadHolds, OvertakenIsOwed,
            UnlinkKeepsNone, UnlinkAsked, latch, clear, history
  <2>5. Stands'
    BY <1>5 DEF HeartbeatIngested, Stands, SendIsUnanswered,
            ClosedBeforeOpening, StandsWhenIdle, AdmitsUnknown, Received, hat,
            latch, history
  <2>6. QED BY <2>1, <2>2, <2>3, <2>4, <2>5
<1>6. CASE PiRestarts
  <2>1. Flags'
    BY <1>6 DEF PiRestarts, Flags, hat
  <2>2. Values'
    BY <1>6 DEF PiRestarts, Values, StopStates, Reasons
  <2>3. Reports'
    BY <1>6 DEF PiRestarts, Reports
  <2>4. Kept'
    BY <1>6 DEF PiRestarts, Kept, LaterStopStaysLatched, LaterStopStaysOnDisk,
            WriteAheadHolds, OvertakenIsOwed, UnlinkKeepsNone, UnlinkAsked,
            Deciding
  <2>5. Stands'
    BY <1>6 DEF PiRestarts, Stands, SendIsUnanswered, ClosedBeforeOpening,
            StandsWhenIdle, AdmitsUnknown, Received, BeforeOpening, hat
  <2>6. QED BY <2>1, <2>2, <2>3, <2>4, <2>5
<1>7. QED
  BY <1>1, <1>2, <1>3, <1>4, <1>5, <1>6 DEF Environment

-----------------------------------------------------------------------------
(* The gateway starts released, with nothing latched and nothing owed. *)
LEMMA InitGood == Init => IInv
<1> SUFFICES ASSUME Init PROVE IInv
  OBVIOUS
<1> USE DEF Init
<1>1. Typed
  BY DEF Typed, Flags, Values, Reports, Reasons, StopStates
<1>2. Kept
  BY DEF Kept, LaterStopStaysLatched, LaterStopStaysOnDisk, WriteAheadHolds,
         OvertakenIsOwed, UnlinkKeepsNone, UnlinkAsked
<1>3. Stands
  BY DEF Stands, SendIsUnanswered, ClosedBeforeOpening, StandsWhenIdle,
         AdmitsUnknown, Received
<1>4. QED BY <1>1, <1>2, <1>3 DEF IInv

(* A stuttering step keeps every part. *)
LEMMA StutterGood == IInv /\ UNCHANGED vars => IInv'
<1> SUFFICES ASSUME IInv, UNCHANGED vars PROVE IInv'
  OBVIOUS
<1> USE DEF IInv, vars, hat, link, latch, clear, history
<1>1. Typed'
  BY DEF Typed, Flags, Values, Reports
<1>2. Kept'
  BY DEF Kept, LaterStopStaysLatched, LaterStopStaysOnDisk, WriteAheadHolds,
         OvertakenIsOwed, UnlinkKeepsNone, UnlinkAsked
<1>3. Stands'
  BY DEF Stands, SendIsUnanswered, ClosedBeforeOpening, StandsWhenIdle,
         AdmitsUnknown, Received
<1>4. QED BY <1>1, <1>2, <1>3

(* Every state of the gateway satisfies the inductive invariant, however many *)
(* threads serve STOP and whatever the link, the controller and the disk do.  *)
THEOREM Inductive == Spec => []IInv
<1>1. IInv /\ [Next]_vars => IInv'
  BY StopGood, ClearGood, RecoveryGood, LaneEndsGood, EnvironmentGood, StutterGood
     DEF Next
<1>2. QED BY <1>1, InitGood, PTL DEF Spec

(* Every variable stays in its range, only old firmware is taken for having   *)
(* stopped by itself, and only a clear that wrote the marker removes it.      *)
THEOREM TypeCorrect == Spec => []TypeOK
<1>1. IInv => TypeOK
  BY DEF IInv, Typed, Flags, Values, Reports, Kept, UnlinkAsked, TypeOK
<1>2. QED BY <1>1, Inductive, PTL

(* No clear that began before a STOP latched releases the Pi. *)
THEOREM StopWinsOverOlderClear == Spec => []LaterStopStaysLatched
<1>1. IInv => LaterStopStaysLatched
  BY DEF IInv, Kept
<1>2. QED BY <1>1, Inductive, PTL

(* ... nor removes the marker once that STOP is in it. *)
THEOREM StopSurvivesRestart == Spec => []LaterStopStaysOnDisk
<1>1. IInv => LaterStopStaysOnDisk
  BY DEF IInv, Kept
<1>2. QED BY <1>1, Inductive, PTL

(* From before its RESET until it commits, a clear that found a latch is      *)
(* covered by the marker.                                                     *)
THEOREM ClearIsWrittenAhead == Spec => []WriteAheadHolds
<1>1. IInv => WriteAheadHolds
  BY DEF IInv, Kept
<1>2. QED BY <1>1, Inductive, PTL

(* A STOP answered by this boot of the controller stands below the Pi's latch *)
(* whenever no clear or recovery is still answering for it.                   *)
THEOREM AnsweredStopHolds == Spec => []AnsweredStopStands
<1>1. IInv => AnsweredStopStands
  <2> SUFFICES ASSUME IInv, Answered, ~Concluding
               PROVE  fwStopped \/ gate \/ reason = "unknown"
    BY DEF AnsweredStopStands
  <2>1. Received # {}
    BY DEF Answered, Received
  <2>2. lane = "idle" \/ lane \in BeforeOpening
    BY DEF IInv, Typed, Values, ClearStates, RecoveryStates, Concluding,
           PastReset, BeforeOpening
  <2>3. QED
    BY <2>1, <2>2 DEF IInv, Stands, ClosedBeforeOpening, StandsWhenIdle
<1>2. QED BY <1>1, Inductive, PTL

=============================================================================
