--------------------------- MODULE HatRuntimeProofs ---------------------------
(***************************************************************************)
(* Proofs about HatRuntime for every bus, inventory size and tolerance.    *)
(*                                                                         *)
(* The invariants are proved together, as IInv.  A handler threads         *)
(* bus helpers, so the work is done once per helper: from a Safe state      *)
(* every outcome of the helper is Safe, energises nothing, leaves no held   *)
(* joint without its goal and creates no authority (Keeps).  The second    *)
(* half is about steps: what a RESET, a new lease and a renewed hold may   *)
(* do to the servos.                                                       *)
(***************************************************************************)
EXTENDS HatRuntime, TLAPS

-----------------------------------------------------------------------------
Safe(m) ==
  /\ m \in Machine
  /\ m.energised \subseteq m.pending \cup residual
  /\ m.holdSet \subseteq m.pending
  /\ m.lease # NoServo => m.lease \in m.pending

Held(m) == m.holdSet \subseteq m.holdGoals

Bare(m) == m.lease = NoServo /\ m.holdSet = {}

Keeps(m, n) ==
  /\ Safe(n)
  /\ n.energised \subseteq m.energised
  /\ Held(m) => Held(n)
  /\ Bare(m) => Bare(n)

(* Outcomes compose: a helper may start where another ended. *)
LEMMA KeepsTransitive ==
  ASSUME NEW m, NEW n, NEW o, Keeps(m, n), Keeps(n, o)
  PROVE  Keeps(m, o)
BY DEF Keeps

(* Queueing obligations is always sound: it only widens what is pending. *)
LEMMA OweKeeps ==
  ASSUME NEW m, Safe(m), NEW S \in SUBSET Servos
  PROVE  Keeps(m, Owe(m, S)) /\ S \subseteq Owe(m, S).pending
BY DEF Keeps, Safe, Held, Bare, Owe, Machine

(* Settling obligations is sound only for servos that are off. *)
LEMMA ConfirmedKeeps ==
  ASSUME NEW m, Safe(m), NEW S \in SUBSET Servos, S \cap m.energised = {}
  PROVE  Keeps(m, Confirmed(m, S))
<1>1. Confirmed(m, S) \in Machine
  BY DEF Safe, Confirmed, Machine
<1>2. Confirmed(m, S).energised \subseteq Confirmed(m, S).pending \cup residual
  BY DEF Safe, Confirmed, Machine
<1>3. QED BY <1>1, <1>2 DEF Keeps, Safe, Held, Bare, Confirmed, Machine

(* Revoking authority, with or without the goals, and raising the fault. *)
LEMMA RevokeKeeps ==
  ASSUME NEW m, Safe(m)
  PROVE  /\ Keeps(m, Revoke(m)) /\ Bare(Revoke(m)) /\ Held(Revoke(m))
         /\ Keeps(m, DropGoals(Revoke(m)))
         /\ Bare(DropGoals(Revoke(m))) /\ Held(DropGoals(Revoke(m)))
BY DEF Keeps, Safe, Held, Bare, Revoke, DropGoals, Machine

(* Raising the recovery gate changes no obligation and no authority. *)
LEMMA FaultKeeps ==
  ASSUME NEW m, Safe(m)
  PROVE  Keeps(m, Fault(m))
BY DEF Keeps, Safe, Held, Bare, Fault, Machine

(* The recovery gate and the retry timer carry no obligation. *)
LEMMA FaultBitKeeps ==
  ASSUME NEW m, Safe(m), NEW b \in BOOLEAN
  PROVE  Keeps(m, [m EXCEPT !.safetyFault = b])
BY DEF Keeps, Safe, Held, Bare, Machine

(* A broadcast torque-off, whoever misses it. *)
LEMMA BroadcastsKeep ==
  ASSUME NEW m, Safe(m), NEW n \in Broadcasts(m)
  PROVE  Keeps(m, n)
BY DEF Keeps, Safe, Held, Bare, Broadcasts, Machine

(* An addressed torque-off, whatever is lost or unanswered. *)
LEMMA TorqueOffsKeep ==
  ASSUME NEW m, Safe(m), NEW S \in SUBSET Servos, NEW n \in TorqueOffs(m, S)
  PROVE  Keeps(m, n)
<1>1. CASE S = {}
  BY <1>1 DEF TorqueOffs, Keeps
<1>2. CASE S # {}
  <2>1. PICK lost \in SUBSET (S \cap m.energised), heard \in SUBSET S :
          n = Confirmed(Attempted(m, S, lost), heard \ lost)
    BY <1>2 DEF TorqueOffs
  <2> DEFINE o == Owe(m, S)
             a == Attempted(m, S, lost)
  <2>2. Keeps(m, o)
    BY OweKeeps
  <2>3. o.energised = m.energised
    BY DEF Owe, Safe, Machine
  <2>4. Keeps(o, a)
    BY <2>2, <2>3 DEF Keeps, Safe, Held, Bare, Attempted, Machine
  <2>5. (heard \ lost) \cap a.energised = {}
    BY <2>2, <2>3 DEF Keeps, Safe, Attempted, Machine
  <2>6. Keeps(a, Confirmed(a, heard \ lost))
    BY <2>4, <2>5, ConfirmedKeeps DEF Keeps
  <2>7. QED BY <2>1, <2>2, <2>4, <2>6, KeepsTransitive
<1>3. QED BY <1>1, <1>2

(* A read-back of the inventory. *)
LEMMA ConfirmAllsKeep ==
  ASSUME NEW m, Safe(m), NEW T \in SUBSET Servos, NEW n \in ConfirmAlls(m, T)
  PROVE  Keeps(m, n)
<1>1. PICK heard \in SUBSET T : n = Confirmed(Owe(m, T), heard \ m.energised)
  BY DEF ConfirmAlls
<1>2. Keeps(m, Owe(m, T)) /\ Owe(m, T).energised = m.energised
  BY OweKeeps DEF Owe, Safe, Machine
<1>3. (heard \ m.energised) \cap Owe(m, T).energised = {}
  BY <1>2
<1>4. heard \ m.energised \in SUBSET Servos
  OBVIOUS
<1>5. Keeps(Owe(m, T), Confirmed(Owe(m, T), heard \ m.energised))
  BY <1>2, <1>3, <1>4, ConfirmedKeeps DEF Keeps
<1>6. QED BY <1>1, <1>2, <1>5, KeepsTransitive

(* Closing after a pass over the obligations: everything proven off, or     *)
(* every authority revoked.                                                 *)
LEMMA ResolvesKeep ==
  ASSUME NEW m, Safe(m), NEW n \in Resolves(m)
  PROVE  Keeps(m, n) /\ Held(n)
<1> DEFINE d == DropGoals(m)
<1>1. Safe(d) /\ d.pending = m.pending /\ d.energised = m.energised
      /\ d.lease = m.lease /\ d.holdSet = m.holdSet
  BY DEF Safe, DropGoals, Machine
<1>2. d.pending \in SUBSET Servos
  BY <1>1 DEF Safe, Machine
<1>3. PICK o \in TorqueOffs(d, d.pending) :
        n = IF o.pending = {} THEN o ELSE Fault(Revoke(o))
  BY <1>1 DEF Resolves
<1>4. Keeps(d, o)
  BY <1>1, <1>2, TorqueOffsKeep
<1>5. Safe(o) /\ o.energised \subseteq m.energised /\ (Bare(m) => Bare(o))
  BY <1>1, <1>4 DEF Keeps, Bare
<1>6. CASE o.pending = {}
  BY <1>3, <1>5, <1>6 DEF Keeps, Safe, Held
<1>7. CASE o.pending # {}
  <2>1. Keeps(o, Revoke(o)) /\ Bare(Revoke(o)) /\ Held(Revoke(o))
    BY <1>5, RevokeKeeps
  <2>2. Keeps(Revoke(o), Fault(Revoke(o)))
    BY <2>1, FaultKeeps DEF Keeps
  <2>3. QED BY <1>3, <1>5, <1>7, <2>1, <2>2 DEF Keeps
<1>8. QED BY <1>6, <1>7

(* The trip of a telemetry refresh, and the refresh itself. *)
LEMMA TripsKeep ==
  ASSUME NEW m, Safe(m), NEW S \in SUBSET Servos, NEW n \in Trips(m, S)
  PROVE  Keeps(m, n)
<1>1. Keeps(m, Owe(m, S))
  BY OweKeeps
<1>2. Keeps(Owe(m, S), Revoke(Owe(m, S)))
  BY <1>1, RevokeKeeps DEF Keeps
<1>3. Keeps(Revoke(Owe(m, S)), Fault(Revoke(Owe(m, S))))
  BY <1>2, FaultKeeps DEF Keeps
<1>4. Keeps(Fault(Revoke(Owe(m, S))), n)
  BY <1>3, TorqueOffsKeep DEF Keeps, Trips
<1>5. QED BY <1>1, <1>2, <1>3, <1>4, KeepsTransitive

(* refreshServo over any set of servos, answered or not, tripping or not. *)
LEMMA RefreshesKeep ==
  ASSUME NEW m, Safe(m), NEW S \in SUBSET Servos, NEW n \in Refreshes(m, S)
  PROVE  Keeps(m, n)
<1>1. PICK answered \in SUBSET S :
        n \in UNION {Refreshed(m, unclear, answered \ unclear) :
                       unclear \in SUBSET answered}
  BY DEF Refreshes
<1>2. PICK unclear \in SUBSET answered :
        n \in Refreshed(m, unclear, answered \ unclear)
  BY <1>1
<1> DEFINE known == answered \ unclear
           c == Confirmed(m, known \ m.energised)
           wrong == unclear \cup (known \cap (m.energised \ Authorised(c)))
<1>3. Keeps(m, c)
  BY ConfirmedKeeps
<1>4. CASE wrong = {}
  <2>1. n = c
    BY <1>2, <1>4 DEF Refreshed
  <2>2. QED BY <1>3, <2>1
<1>5. CASE wrong # {}
  <2>1. PICK later \in SUBSET (known \cap m.energised) :
          n \in Trips(c, wrong \cup later)
    BY <1>2, <1>5 DEF Refreshed
  <2>2. wrong \cup later \in SUBSET Servos
    OBVIOUS
  <2>3. Keeps(c, n)
    BY <1>3, <2>1, <2>2, TripsKeep DEF Keeps
  <2>4. QED BY <1>3, <2>3, KeepsTransitive
<1>6. QED BY <1>4, <1>5

-----------------------------------------------------------------------------
(* The inductive invariant, and what every step is shown to do.             *)

RestOK ==
  /\ tracked \in SUBSET Servos
  /\ stopped \in BOOLEAN /\ hostFresh \in BOOLEAN
  /\ leaseOver \in BOOLEAN /\ holdOver \in BOOLEAN /\ booting \in BOOLEAN
  /\ badSamples \in 0..Tolerance
  /\ line \in {"none", "fresh", "stale"}

IInv ==
  /\ Safe(Current) /\ Held(Current)
  /\ stopped => Bare(Current)
  /\ residual \in SUBSET Servos
  /\ RestOK

StepGood == IInv' /\ (stopped /\ stopped' => energised' \subseteq energised)

(* The inductive invariant contains the checked ones. *)
LEMMA IInvImplies ==
  IInv => /\ TypeOK /\ EnergisedIsPending /\ AuthorityIsPending
          /\ HoldHasGoal /\ StopHasNoAuthority
BY DEF IInv, RestOK, Safe, Held, Bare, Current, TypeOK, EnergisedIsPending,
       AuthorityIsPending, HoldHasGoal, StopHasNoAuthority

(* The state a handler writes is the state it ends in. *)
LEMMA BecomesCurrent ==
  ASSUME IInv, NEW m, Safe(m), Becomes(m)
  PROVE  Current' = m /\ Safe(m)' /\ residual' \in SUBSET Servos
<1>1. m \in Machine
  BY DEF Safe
<1>2. Current' = m
  BY <1>1 DEF Becomes, Current, Machine
<1>3. Safe(m)'
  BY DEF Becomes, Safe
<1>4. QED BY <1>2, <1>3 DEF IInv, Becomes

(* A step that stays within Keeps: most handlers and every tick. *)
LEMMA KeptStep ==
  ASSUME IInv, NEW m, Keeps(Current, m), Becomes(m), RestOK', stopped' => stopped
  PROVE  StepGood
<1>1. Safe(m) /\ Held(m) /\ (stopped' => Bare(m))
  BY DEF IInv, Keeps
<1>2. Current' = m /\ Safe(m)' /\ residual' \in SUBSET Servos
  BY <1>1, BecomesCurrent
<1>3. IInv'
  BY <1>1, <1>2 DEF IInv, Safe, Held, Bare
<1>4. energised' \subseteq energised
  BY DEF Keeps, Becomes, Current
<1>5. QED BY <1>3, <1>4 DEF StepGood

(* A step that may energise: only with the STOP latch clear. *)
LEMMA EnergisingStep ==
  ASSUME IInv, NEW m, Safe(m), Held(m), Becomes(m), RestOK', ~stopped, ~stopped'
  PROVE  StepGood
<1>1. Current' = m /\ Safe(m)' /\ residual' \in SUBSET Servos
  BY BecomesCurrent
<1>2. IInv'
  BY <1>1 DEF IInv, Safe, Held, Bare
<1>3. QED BY <1>2 DEF StepGood

(* A step that leaves the supervision state alone. *)
LEMMA IdleStep ==
  ASSUME IInv, UNCHANGED machine, RestOK', stopped' => stopped
  PROVE  StepGood
BY DEF IInv, StepGood, machine, Current, Safe, Held, Bare

(* The frames of commands and ticks preserve the remaining types. *)
LEMMA CommandRest ==
  ASSUME IInv, CommandFrame, hostFresh' \in BOOLEAN, stopped' \in BOOLEAN,
         leaseOver' \in BOOLEAN, holdOver' \in BOOLEAN, tracked' \in SUBSET Servos
  PROVE  RestOK'
BY DEF IInv, RestOK, CommandFrame

(* So does a command that renews the heartbeat. *)
LEMMA ServedRest ==
  ASSUME IInv, Served, stopped' \in BOOLEAN,
         leaseOver' \in BOOLEAN, holdOver' \in BOOLEAN, tracked' \in SUBSET Servos
  PROVE  RestOK'
BY CommandRest DEF IInv, RestOK, Served, Fresh

(* So does a tick, which samples hostWasFresh. *)
LEMMA TickRest ==
  ASSUME IInv, TickFrame, badSamples' \in 0..Tolerance, booting' \in BOOLEAN
  PROVE  RestOK' /\ (stopped' => stopped)
BY DEF IInv, RestOK, TickFrame

(* rememberServo keeps the inventory among the servos. *)
LEMMA RememberType ==
  ASSUME NEW T \in SUBSET Servos, NEW S \in SUBSET Servos
  PROVE  Remember(T, S) \in SUBSET Servos
BY DEF Remember

(* The supervision state of a good state is a safe starting point. *)
LEMMA CurrentSafe ==
  ASSUME IInv
  PROVE  Safe(Current) /\ Keeps(Current, Current)
BY DEF IInv, Keeps

-----------------------------------------------------------------------------
(* The environment. *)

(* A cold start: whatever has torque is residual. *)
LEMMA InitGood == Init => IInv
<1> SUFFICES ASSUME Init PROVE IInv
  OBVIOUS
<1>1. Current \in Machine
  BY DEF Init, Current, Machine
<1>2. Safe(Current) /\ Held(Current) /\ Bare(Current)
  BY <1>1 DEF Init, Safe, Held, Bare, Current
<1>3. badSamples \in 0..Tolerance /\ tracked \in SUBSET Servos
  BY HatAssumption DEF Init, HatAssumption
<1>4. RestOK
  BY <1>3, Zenon DEF Init, RestOK
<1>5. QED BY <1>2, <1>4 DEF Init, IInv

(* A restart forgets the obligations and calls all torque residual. *)
LEMMA RebootGood == IInv /\ Reboot => StepGood
<1> SUFFICES ASSUME IInv, Reboot PROVE StepGood
  OBVIOUS
<1>1. Current' \in Machine /\ residual' \in SUBSET Servos
  BY DEF IInv, Safe, Reboot, ColdRam, Current, Machine
<1>2. Safe(Current)' /\ Held(Current)' /\ Bare(Current)'
  BY <1>1 DEF Reboot, ColdRam, Safe, Held, Bare, Current
<1>3. badSamples' \in 0..Tolerance /\ tracked' \in SUBSET Servos
  BY HatAssumption DEF Reboot, ColdRam, HatAssumption
<1>4. RestOK'
  BY <1>3, Zenon DEF Reboot, ColdRam, RestOK
<1>5. energised' = energised
  BY DEF Reboot
<1>6. QED BY <1>1, <1>2, <1>4, <1>5 DEF IInv, StepGood

(* Elapsing timers touch neither torque nor obligations. *)
LEMMA TimersGood ==
  IInv /\ (HeartbeatExpires \/ LeaseElapses \/ HoldElapses) => StepGood
<1> SUFFICES ASSUME IInv, HeartbeatExpires \/ LeaseElapses \/ HoldElapses
             PROVE  StepGood
  OBVIOUS
<1>1. UNCHANGED machine /\ (stopped' => stopped)
  BY DEF HeartbeatExpires, LeaseElapses, HoldElapses
<1>2. RestOK'
  BY Zenon DEF HeartbeatExpires, LeaseElapses, HoldElapses, IInv, RestOK
<1>3. QED BY <1>1, <1>2, IdleStep

(* Nor does the retry timer. *)
LEMMA RetryFallsDueGood == IInv /\ RetryFallsDue => StepGood
<1> SUFFICES ASSUME IInv, RetryFallsDue PROVE StepGood
  OBVIOUS
<1> DEFINE m == [Current EXCEPT !.retryDue = TRUE]
<1>1. Keeps(Current, m)
  BY DEF IInv, Keeps, Safe, Held, Bare, Machine
<1>2. Becomes(m) /\ RestOK' /\ (stopped' => stopped)
  BY DEF RetryFallsDue, IInv, RestOK
<1>3. QED BY <1>1, <1>2, KeptStep

(* A servo that drops its torque can only shrink what is owed. *)
LEMMA ServoDropsGood ==
  ASSUME IInv, NEW s \in Servos, ServoDrops(s)
  PROVE  StepGood
<1> DEFINE m == [Current EXCEPT !.energised = @ \ {s}]
<1>1. Keeps(Current, m)
  BY DEF IInv, Keeps, Safe, Held, Bare, Machine
<1>2. Becomes(m) /\ RestOK' /\ (stopped' => stopped)
  BY DEF ServoDrops, IInv, RestOK
<1>3. QED BY <1>1, <1>2, KeptStep

-----------------------------------------------------------------------------
(* tick(). *)

(* The first tick after begin(): one broadcast. *)
LEMMA TickBootGood == IInv /\ TickBoot => StepGood
<1> SUFFICES ASSUME IInv, TickBoot PROVE StepGood
  OBVIOUS
<1>1. RestOK' /\ (stopped' => stopped)
  <2>1. badSamples' \in 0..Tolerance /\ booting' \in BOOLEAN
    BY DEF TickBoot, IInv, RestOK
  <2>2. QED BY <2>1, TickRest DEF TickBoot
<1>2. PICK m \in Broadcasts(Current), sent \in BOOLEAN :
        Becomes([m EXCEPT !.safetyFault = ~sent])
  BY DEF TickBoot
<1>3. Keeps(Current, m)
  BY CurrentSafe, BroadcastsKeep
<1>4. Keeps(m, [m EXCEPT !.safetyFault = ~sent])
  BY <1>3, FaultBitKeeps DEF Keeps
<1>5. Keeps(Current, [m EXCEPT !.safetyFault = ~sent])
  BY <1>3, <1>4, KeepsTransitive
<1>6. QED BY <1>1, <1>2, <1>5, KeptStep

(* A tick that finds nothing to do. *)
LEMMA TickQuietGood == IInv /\ TickQuiet => StepGood
<1> SUFFICES ASSUME IInv, TickQuiet PROVE StepGood
  OBVIOUS
<1>1. badSamples' \in 0..Tolerance /\ booting' \in BOOLEAN
  BY HatAssumption DEF TickQuiet, IInv, RestOK, HatAssumption
<1>2. QED BY <1>1, TickRest, IdleStep DEF TickQuiet

(* A supervision sample that is not healthy: tolerated, or all off. *)
LEMMA TickSupervisionBadGood == IInv /\ TickSupervisionBad => StepGood
<1> SUFFICES ASSUME IInv, TickSupervisionBad PROVE StepGood
  OBVIOUS
<1>0. PICK id \in Authorised(Current) : \E m \in Refreshes(Current, {id}) :
        IF Tolerated
        THEN badSamples' = badSamples + 1 /\ Becomes(m)
        ELSE /\ badSamples' = 0
             /\ \E a \in Broadcasts(Fault(DropGoals(Revoke(Owe(m, {id}))))) :
                \E b \in Resolves(a) : \E c \in ConfirmAlls(b, tracked) :
                  Becomes(Fault(c))
  BY DEF TickSupervisionBad
<1>1. PICK m \in Refreshes(Current, {id}) :
        IF Tolerated
        THEN badSamples' = badSamples + 1 /\ Becomes(m)
        ELSE /\ badSamples' = 0
             /\ \E a \in Broadcasts(Fault(DropGoals(Revoke(Owe(m, {id}))))) :
                \E b \in Resolves(a) : \E c \in ConfirmAlls(b, tracked) :
                  Becomes(Fault(c))
  BY <1>0
<1>2. {id} \in SUBSET Servos
  BY CurrentSafe DEF Authorised, Safe, Machine
<1>3. badSamples' \in 0..Tolerance
  BY <1>1, HatAssumption DEF Tolerated, IInv, RestOK, HatAssumption
<1>4. RestOK' /\ (stopped' => stopped)
  <2>1. TickFrame /\ booting' \in BOOLEAN
    BY DEF TickSupervisionBad, IInv, RestOK
  <2>2. QED BY <1>3, <2>1, TickRest
<1>5. Keeps(Current, m)
  BY <1>1, <1>2, CurrentSafe, RefreshesKeep
<1>6. CASE Tolerated
  BY <1>1, <1>4, <1>5, <1>6, KeptStep
<1>7. CASE ~Tolerated
  <2> DEFINE o == Owe(m, {id})
             r == DropGoals(Revoke(o))
  <2>1. PICK a \in Broadcasts(Fault(r)) :
          \E b \in Resolves(a) : \E c \in ConfirmAlls(b, tracked) : Becomes(Fault(c))
    BY <1>1, <1>7
  <2>2. PICK b \in Resolves(a) : \E c \in ConfirmAlls(b, tracked) : Becomes(Fault(c))
    BY <2>1
  <2>3. PICK c \in ConfirmAlls(b, tracked) : Becomes(Fault(c))
    BY <2>2
  <2>4. Keeps(Current, o)
    BY <1>2, <1>5, OweKeeps, KeepsTransitive DEF Keeps
  <2>5. Keeps(Current, r)
    BY <2>4, RevokeKeeps, KeepsTransitive DEF Keeps
  <2>6. Keeps(Current, Fault(r))
    BY <2>5, FaultKeeps, KeepsTransitive DEF Keeps
  <2>7. Keeps(Current, a)
    BY <2>1, <2>6, BroadcastsKeep, KeepsTransitive DEF Keeps
  <2>8. Keeps(Current, b)
    BY <2>2, <2>7, ResolvesKeep, KeepsTransitive DEF Keeps
  <2>9. Keeps(Current, c)
    BY <2>3, <2>8, ConfirmAllsKeep, KeepsTransitive DEF Keeps, IInv, RestOK
  <2>10. Keeps(Current, Fault(c))
    BY <2>9, FaultKeeps, KeepsTransitive DEF Keeps
  <2>11. QED BY <1>4, <2>3, <2>10, KeptStep
<1>8. QED BY <1>6, <1>7

(* A tick under a silent host. *)
LEMMA TickWatchdogGood == IInv /\ TickWatchdog => StepGood
<1> SUFFICES ASSUME IInv, TickWatchdog PROVE StepGood
  OBVIOUS
<1>1. RestOK' /\ (stopped' => stopped)
  <2>1. TickFrame /\ badSamples' \in 0..Tolerance /\ booting' \in BOOLEAN
    BY DEF TickWatchdog, IInv, RestOK
  <2>2. QED BY <2>1, TickRest
<1> DEFINE r == DropGoals(Revoke(Current))
<1>2. PICK sent \in BOOLEAN, m \in Broadcasts(r) :
        IF ~retryDue
        THEN Becomes([m EXCEPT !.safetyFault = ~sent])
        ELSE \E id \in pending : \E n \in TorqueOffs(m, {id}) :
             \E c \in ConfirmAlls(n, tracked) :
               Becomes([c EXCEPT !.safetyFault =
                 ~(sent /\ id \notin n.pending /\ Proven(c, tracked))])
  BY DEF TickWatchdog
<1>3. Keeps(Current, r)
  BY CurrentSafe, RevokeKeeps
<1>4. Keeps(Current, m)
  BY <1>2, <1>3, BroadcastsKeep, KeepsTransitive DEF Keeps
<1>5. CASE ~retryDue
  <2>1. Keeps(Current, [m EXCEPT !.safetyFault = ~sent])
    BY <1>4, FaultBitKeeps, KeepsTransitive DEF Keeps
  <2>2. QED BY <1>1, <1>2, <1>5, <2>1, KeptStep
<1>6. CASE retryDue
  <2>0. PICK id \in pending : \E n \in TorqueOffs(m, {id}) :
          \E c \in ConfirmAlls(n, tracked) :
            Becomes([c EXCEPT !.safetyFault =
              ~(sent /\ id \notin n.pending /\ Proven(c, tracked))])
    BY <1>2, <1>6
  <2>1. PICK n \in TorqueOffs(m, {id}) :
          \E c \in ConfirmAlls(n, tracked) :
            Becomes([c EXCEPT !.safetyFault =
              ~(sent /\ id \notin n.pending /\ Proven(c, tracked))])
    BY <2>0
  <2>2. PICK c \in ConfirmAlls(n, tracked) :
          Becomes([c EXCEPT !.safetyFault =
            ~(sent /\ id \notin n.pending /\ Proven(c, tracked))])
    BY <2>1
  <2>3. {id} \in SUBSET Servos
    BY CurrentSafe DEF Safe, Machine, Current
  <2>4. Keeps(Current, n)
    BY <1>4, <2>1, <2>3, TorqueOffsKeep, KeepsTransitive DEF Keeps
  <2>5. Keeps(Current, c)
    BY <2>2, <2>4, ConfirmAllsKeep, KeepsTransitive DEF Keeps, IInv, RestOK
  <2> DEFINE bit == ~(sent /\ id \notin n.pending /\ Proven(c, tracked))
  <2>6. bit \in BOOLEAN
    OBVIOUS
  <2> HIDE DEF bit
  <2>7. Keeps(Current, [c EXCEPT !.safetyFault = bit])
    BY <2>5, <2>6, FaultBitKeeps, KeepsTransitive DEF Keeps
  <2>8. QED BY <1>1, <2>2, <2>7, KeptStep DEF bit
<1>7. QED BY <1>5, <1>6

(* A tick that retries one obligation. *)
LEMMA TickRetryGood == IInv /\ TickRetry => StepGood
<1> SUFFICES ASSUME IInv, TickRetry PROVE StepGood
  OBVIOUS
<1>1. RestOK' /\ (stopped' => stopped)
  <2>1. TickFrame /\ badSamples' \in 0..Tolerance /\ booting' \in BOOLEAN
    BY DEF TickRetry, IInv, RestOK
  <2>2. QED BY <2>1, TickRest
<1>2. CASE ~retryDue
  BY <1>1, <1>2, IdleStep DEF TickRetry
<1>3. CASE retryDue
  <2>0. PICK id \in Unauthorised(Current) : \E n \in TorqueOffs(Current, {id}) :
          Becomes([(IF id \in n.pending THEN Revoke(n) ELSE n)
                     EXCEPT !.safetyFault = n.pending # {}])
    BY <1>3 DEF TickRetry
  <2>1. PICK n \in TorqueOffs(Current, {id}) :
          Becomes([(IF id \in n.pending THEN Revoke(n) ELSE n)
                     EXCEPT !.safetyFault = n.pending # {}])
    BY <2>0
  <2> DEFINE bit == n.pending # {}
             o == IF id \in n.pending THEN Revoke(n) ELSE n
  <2>2. {id} \in SUBSET Servos
    BY CurrentSafe DEF Unauthorised, Safe, Machine
  <2>3. Keeps(Current, n)
    BY <2>1, <2>2, CurrentSafe, TorqueOffsKeep
  <2>4. Keeps(Current, o)
    BY <2>3, RevokeKeeps, KeepsTransitive DEF Keeps
  <2>5. bit \in BOOLEAN
    OBVIOUS
  <2>6. Becomes([o EXCEPT !.safetyFault = bit])
    BY <2>1
  <2> HIDE DEF bit, o
  <2>7. Keeps(Current, [o EXCEPT !.safetyFault = bit])
    BY <2>4, <2>5, FaultBitKeeps, KeepsTransitive DEF Keeps
  <2>8. QED BY <1>1, <2>6, <2>7, KeptStep
<1>4. QED BY <1>2, <1>3

(* Dropping lapsed authority; the obligations stay. *)
LEMMA LapseKeeps ==
  ASSUME NEW m, Safe(m), NEW a, NEW b
  PROVE  Keeps(m, [m EXCEPT !.lease = IF a THEN NoServo ELSE @,
                            !.holdSet = IF b THEN {} ELSE @])
BY DEF Keeps, Safe, Held, Bare, Machine

(* A tick that drops lapsed authority. *)
LEMMA TickLeaseExpiredGood == IInv /\ TickLeaseExpired => StepGood
<1> SUFFICES ASSUME IInv, TickLeaseExpired PROVE StepGood
  OBVIOUS
<1>1. RestOK' /\ (stopped' => stopped)
  <2>1. TickFrame /\ badSamples' \in 0..Tolerance /\ booting' \in BOOLEAN
    BY DEF TickLeaseExpired, IInv, RestOK
  <2>2. QED BY <2>1, TickRest
<1> DEFINE m == [Current EXCEPT !.lease = IF leaseOver THEN NoServo ELSE @,
                                !.holdSet = IF holdOver THEN {} ELSE @]
           U == Unauthorised(m)
<1>2. Keeps(Current, m)
  BY CurrentSafe, LapseKeeps
<1>3. U \in SUBSET Servos
  BY <1>2 DEF Unauthorised, Keeps, Safe, Machine
<1>4. \/ \E n \in TorqueOffs(m, U) :
           Becomes([n EXCEPT !.safetyFault = FALSE, !.holdGoals =
                      IF n.holdSet = {} THEN {} ELSE @])
      \/ \E id \in U : \E done \in SUBSET (U \ {id}) :
         \E n \in TorqueOffs(m, done \cup {id}) :
         \E r \in Resolves(DropGoals(Revoke(n))) : Becomes(Fault(r))
  BY DEF TickLeaseExpired
<1> HIDE DEF m, U
<1>5. CASE \E n \in TorqueOffs(m, U) :
             Becomes([n EXCEPT !.safetyFault = FALSE, !.holdGoals =
                        IF n.holdSet = {} THEN {} ELSE @])
  <2>1. PICK n \in TorqueOffs(m, U) :
          Becomes([n EXCEPT !.safetyFault = FALSE, !.holdGoals =
                     IF n.holdSet = {} THEN {} ELSE @])
    BY <1>5
  <2> DEFINE o == [n EXCEPT !.safetyFault = FALSE, !.holdGoals =
                     IF n.holdSet = {} THEN {} ELSE @]
  <2>2. Keeps(Current, n)
    BY <1>2, <1>3, <2>1, TorqueOffsKeep, KeepsTransitive DEF Keeps
  <2>3. Keeps(n, o)
    BY <2>2 DEF Keeps, Safe, Held, Bare, Machine
  <2>4. Keeps(Current, o)
    BY <2>2, <2>3, KeepsTransitive
  <2>5. QED BY <1>1, <2>1, <2>4, KeptStep
<1>6. CASE \E id \in U : \E done \in SUBSET (U \ {id}) :
           \E n \in TorqueOffs(m, done \cup {id}) :
           \E r \in Resolves(DropGoals(Revoke(n))) : Becomes(Fault(r))
  <2>1. PICK id \in U : \E done \in SUBSET (U \ {id}) :
           \E n \in TorqueOffs(m, done \cup {id}) :
           \E r \in Resolves(DropGoals(Revoke(n))) : Becomes(Fault(r))
    BY <1>6
  <2>2. PICK done \in SUBSET (U \ {id}) :
           \E n \in TorqueOffs(m, done \cup {id}) :
           \E r \in Resolves(DropGoals(Revoke(n))) : Becomes(Fault(r))
    BY <2>1
  <2>3. PICK n \in TorqueOffs(m, done \cup {id}) :
           \E r \in Resolves(DropGoals(Revoke(n))) : Becomes(Fault(r))
    BY <2>2
  <2>4. PICK r \in Resolves(DropGoals(Revoke(n))) : Becomes(Fault(r))
    BY <2>3
  <2>5. Keeps(Current, n)
    <3>1. done \cup {id} \in SUBSET Servos
      BY <1>3
    <3>2. QED BY <1>2, <2>3, <3>1, TorqueOffsKeep, KeepsTransitive DEF Keeps
  <2>6. Keeps(Current, DropGoals(Revoke(n)))
    BY <2>5, RevokeKeeps, KeepsTransitive DEF Keeps
  <2>7. Keeps(Current, r)
    BY <2>4, <2>6, ResolvesKeep, KeepsTransitive DEF Keeps
  <2>8. Keeps(Current, Fault(r))
    BY <2>7, FaultKeeps, KeepsTransitive DEF Keeps
  <2>9. QED BY <1>1, <2>4, <2>8, KeptStep
<1>7. QED BY <1>4, <1>5, <1>6

-----------------------------------------------------------------------------
(* Commands that leave the supervision state alone. *)

(* Commands that only renew the heartbeat, or not even that. *)
LEMMA IdleCommandsGood ==
  IInv /\ (LineRejected \/ Query \/ Heartbeat) => StepGood
<1> SUFFICES ASSUME IInv, LineRejected \/ Query \/ Heartbeat PROVE StepGood
  OBVIOUS
<1>1. CommandFrame /\ UNCHANGED <<machine, stopped, tracked, leaseOver, holdOver>>
  BY DEF LineRejected, Query, Heartbeat, Served, NoTimers
<1>2. hostFresh' \in BOOLEAN
  BY DEF LineRejected, Query, Heartbeat, Served, Fresh, IInv, RestOK
<1>3. RestOK'
  BY <1>1, <1>2, CommandRest DEF IInv, RestOK
<1>4. QED BY <1>1, <1>3, IdleStep

(* FAMILY: the inventory grows. *)
LEMMA FamilyGood ==
  ASSUME IInv, NEW id \in Servos, Family(id)
  PROVE  StepGood
<1>1. tracked' \in SUBSET Servos
  BY RememberType DEF Family, IInv, RestOK
<1>2. RestOK' /\ UNCHANGED machine /\ (stopped' => stopped)
  BY <1>1, ServedRest DEF Family, NoTimers, IInv, RestOK
<1>3. QED BY <1>2, IdleStep

-----------------------------------------------------------------------------
(* Commands that stay within Keeps. *)

(* STATUS: a refresh of the inventory. *)
LEMMA StatusGood == IInv /\ Status => StepGood
<1> SUFFICES ASSUME IInv, Status PROVE StepGood
  OBVIOUS
<1>1. RestOK' /\ (stopped' => stopped)
  BY ServedRest DEF Status, NoTimers, IInv, RestOK
<1>2. PICK m \in Refreshes(Current, tracked) : Becomes(m)
  BY DEF Status
<1>3. Keeps(Current, m)
  BY CurrentSafe, RefreshesKeep DEF IInv, RestOK
<1>4. QED BY <1>1, <1>2, <1>3, KeptStep

(* STATUS that answers all off and ends the recovery. *)
LEMMA StatusEndsRecoveryGood == IInv /\ StatusEndsRecovery => StepGood
<1> SUFFICES ASSUME IInv, StatusEndsRecovery PROVE StepGood
  OBVIOUS
<1>1. RestOK' /\ (stopped' => stopped)
  BY ServedRest DEF StatusEndsRecovery, NoTimers, IInv, RestOK
<1> DEFINE m == Confirmed(Current, tracked)
<1>2. Keeps(Current, m)
  <2>1. tracked \cap Current.energised = {}
    BY DEF StatusEndsRecovery, Current
  <2>2. QED BY <2>1, CurrentSafe, ConfirmedKeeps DEF IInv, RestOK
<1>3. Keeps(Current, [m EXCEPT !.safetyFault = FALSE])
  BY <1>2, FaultBitKeeps, KeepsTransitive DEF Keeps
<1>4. Becomes([m EXCEPT !.safetyFault = FALSE])
  BY DEF StatusEndsRecovery
<1>5. QED BY <1>1, <1>3, <1>4, KeptStep

(* One more helper at the end of a chain that started in c. *)
LEMMA Chain ==
  ASSUME NEW c, NEW m, Keeps(c, m)
  PROVE  /\ Keeps(c, Revoke(m)) /\ Keeps(c, Fault(m))
         /\ Keeps(c, DropGoals(Revoke(m)))
         /\ \A b \in BOOLEAN : Keeps(c, [m EXCEPT !.safetyFault = b])
         /\ \A S \in SUBSET Servos : Keeps(c, Owe(m, S))
         /\ \A n \in Broadcasts(m) : Keeps(c, n)
         /\ \A n \in Resolves(m) : Keeps(c, n)
         /\ \A S \in SUBSET Servos : \A n \in TorqueOffs(m, S) : Keeps(c, n)
         /\ \A S \in SUBSET Servos : \A n \in ConfirmAlls(m, S) : Keeps(c, n)
         /\ \A S \in SUBSET Servos : \A n \in Refreshes(m, S) : Keeps(c, n)
<1>1. Safe(m)
  BY DEF Keeps
<1>2. Keeps(c, Revoke(m)) /\ Keeps(c, Fault(m)) /\ Keeps(c, DropGoals(Revoke(m)))
  BY <1>1, RevokeKeeps, FaultKeeps, KeepsTransitive
<1>3. \A b \in BOOLEAN : Keeps(c, [m EXCEPT !.safetyFault = b])
  BY <1>1, FaultBitKeeps, KeepsTransitive
<1>4. \A S \in SUBSET Servos : Keeps(c, Owe(m, S))
  BY <1>1, OweKeeps, KeepsTransitive
<1>5. \A n \in Broadcasts(m) : Keeps(c, n)
  BY <1>1, BroadcastsKeep, KeepsTransitive
<1>6. \A n \in Resolves(m) : Keeps(c, n)
  BY <1>1, ResolvesKeep, KeepsTransitive
<1>7. \A S \in SUBSET Servos : \A n \in TorqueOffs(m, S) : Keeps(c, n)
  BY <1>1, TorqueOffsKeep, KeepsTransitive
<1>8. \A S \in SUBSET Servos : \A n \in ConfirmAlls(m, S) : Keeps(c, n)
  BY <1>1, ConfirmAllsKeep, KeepsTransitive
<1>9. \A S \in SUBSET Servos : \A n \in Refreshes(m, S) : Keeps(c, n)
  BY <1>1, RefreshesKeep, KeepsTransitive
<1>10. QED BY <1>2, <1>3, <1>4, <1>5, <1>6, <1>7, <1>8, <1>9

(* Releasing a joint from the hold set together with its goal. *)
LEMMA ReleaseKeeps ==
  ASSUME NEW m, Safe(m), NEW id
  PROVE  Keeps(m, Release(m, id))
BY DEF Keeps, Safe, Held, Bare, Release, Machine

(* STOP leaves no authority, so it may set the latch. *)
LEMMA BareStep ==
  ASSUME IInv, NEW m, Keeps(Current, m), Bare(m), Becomes(m), RestOK'
  PROVE  StepGood
<1>1. Safe(m) /\ Held(m)
  BY DEF IInv, Keeps
<1>2. Current' = m /\ Safe(m)' /\ residual' \in SUBSET Servos
  BY <1>1, BecomesCurrent
<1>3. IInv'
  BY <1>1, <1>2 DEF IInv, Safe, Held, Bare
<1>4. energised' \subseteq energised
  BY DEF Keeps, Becomes, Current
<1>5. QED BY <1>3, <1>4 DEF StepGood

(* STOP: the latch is set and no authority survives. *)
LEMMA StopGood == IInv /\ Stop => StepGood
<1> SUFFICES ASSUME IInv, Stop PROVE StepGood
  OBVIOUS
<1> DEFINE r == DropGoals(Revoke(Current))
<1>1. RestOK'
  BY ServedRest DEF Stop, NoTimers, IInv, RestOK
<1>2. PICK a \in Broadcasts(r) : \E b \in Resolves(a) :
        \E c \in ConfirmAlls(b, tracked) :
          Becomes([c EXCEPT !.safetyFault = ~(b.pending = {} /\ Proven(c, tracked))])
  BY DEF Stop
<1>3. PICK b \in Resolves(a) : \E c \in ConfirmAlls(b, tracked) :
          Becomes([c EXCEPT !.safetyFault = ~(b.pending = {} /\ Proven(c, tracked))])
  BY <1>2
<1>4. PICK c \in ConfirmAlls(b, tracked) :
          Becomes([c EXCEPT !.safetyFault = ~(b.pending = {} /\ Proven(c, tracked))])
  BY <1>3
<1>5. Keeps(Current, r) /\ Bare(r)
  BY CurrentSafe, RevokeKeeps
<1>6. Keeps(r, r)
  BY <1>5 DEF Keeps
<1>7. Keeps(r, a)
  BY <1>2, <1>6, Chain
<1>8. Keeps(r, b)
  BY <1>3, <1>7, Chain
<1>9. Keeps(r, c)
  BY <1>4, <1>8, Chain DEF IInv, RestOK
<1> DEFINE bit == ~(b.pending = {} /\ Proven(c, tracked))
<1>10. bit \in BOOLEAN
  OBVIOUS
<1>11. Becomes([c EXCEPT !.safetyFault = bit])
  BY <1>4
<1> HIDE DEF bit, r
<1>12. Keeps(r, [c EXCEPT !.safetyFault = bit])
  BY <1>9, <1>10, Chain
<1>13. Keeps(Current, [c EXCEPT !.safetyFault = bit])
       /\ Bare([c EXCEPT !.safetyFault = bit])
  BY <1>5, <1>12, KeepsTransitive DEF Keeps
<1>14. QED BY <1>1, <1>11, <1>13, BareStep

(* RESET, released or refused. *)
LEMMA ResetGood == IInv /\ Reset => StepGood
<1> SUFFICES ASSUME IInv, Reset PROVE StepGood
  OBVIOUS
<1>1. PICK a \in Resolves(Current) : \E b \in Broadcasts(a) :
        \E c \in ConfirmAlls(b, tracked), late \in BOOLEAN :
          \/ stopped' = FALSE /\ Becomes([Revoke(c) EXCEPT !.safetyFault = FALSE])
          \/ stopped' = stopped /\ Becomes(Fault(c))
  BY DEF Reset
<1>2. PICK b \in Broadcasts(a) :
        \E c \in ConfirmAlls(b, tracked), late \in BOOLEAN :
          \/ stopped' = FALSE /\ Becomes([Revoke(c) EXCEPT !.safetyFault = FALSE])
          \/ stopped' = stopped /\ Becomes(Fault(c))
  BY <1>1
<1>3. PICK c \in ConfirmAlls(b, tracked) :
          \/ stopped' = FALSE /\ Becomes([Revoke(c) EXCEPT !.safetyFault = FALSE])
          \/ stopped' = stopped /\ Becomes(Fault(c))
  BY <1>2
<1>4. stopped' \in BOOLEAN /\ (stopped' => stopped)
  <2>1. stopped' = FALSE \/ stopped' = stopped
    BY <1>3
  <2>2. stopped \in BOOLEAN
    BY DEF IInv, RestOK
  <2>3. CASE stopped' = FALSE
    BY <2>3
  <2>4. CASE stopped' = stopped
    BY <2>2, <2>4
  <2>5. QED BY <2>1, <2>3, <2>4
<1>5. RestOK'
  BY <1>4, ServedRest DEF Reset, NoTimers, IInv, RestOK
<1>6. Keeps(Current, a)
  BY <1>1, CurrentSafe, Chain
<1>7. Keeps(Current, b)
  BY <1>2, <1>6, Chain
<1>8. Keeps(Current, c)
  BY <1>3, <1>7, Chain DEF IInv, RestOK
<1>9. Keeps(Current, Fault(c)) /\ Keeps(Current, Revoke(c))
  BY <1>8, Chain
<1>10. Keeps(Current, [Revoke(c) EXCEPT !.safetyFault = FALSE])
  BY <1>9, Chain
<1>11. QED BY <1>3, <1>4, <1>5, <1>9, <1>10, KeptStep

(* TORQUE_OFF ALL, proven or not. *)
LEMMA TorqueOffAllGood == IInv /\ TorqueOffAll => StepGood
<1> SUFFICES ASSUME IInv, TorqueOffAll PROVE StepGood
  OBVIOUS
<1>1. RestOK' /\ (stopped' => stopped)
  BY ServedRest DEF TorqueOffAll, NoTimers, IInv, RestOK
<1>2. PICK a \in Resolves(Current) : \E b \in Broadcasts(a) :
        \E c \in ConfirmAlls(b, tracked) :
          Becomes([c EXCEPT !.safetyFault = FALSE]) \/ Becomes(Fault(Revoke(c)))
  BY DEF TorqueOffAll
<1>3. PICK b \in Broadcasts(a) : \E c \in ConfirmAlls(b, tracked) :
          Becomes([c EXCEPT !.safetyFault = FALSE]) \/ Becomes(Fault(Revoke(c)))
  BY <1>2
<1>4. PICK c \in ConfirmAlls(b, tracked) :
          Becomes([c EXCEPT !.safetyFault = FALSE]) \/ Becomes(Fault(Revoke(c)))
  BY <1>3
<1>5. Keeps(Current, a)
  BY <1>2, CurrentSafe, Chain
<1>6. Keeps(Current, b)
  BY <1>3, <1>5, Chain
<1>7. Keeps(Current, c)
  BY <1>4, <1>6, Chain DEF IInv, RestOK
<1>8. Keeps(Current, [c EXCEPT !.safetyFault = FALSE]) /\ Keeps(Current, Revoke(c))
  BY <1>7, Chain
<1>9. Keeps(Current, Fault(Revoke(c)))
  BY <1>8, Chain
<1>10. QED BY <1>1, <1>4, <1>8, <1>9, KeptStep

(* The two passes and the pings of a scan. *)
LEMMA SweptKeep ==
  ASSUME IInv, NEW found \in SUBSET Servos, NEW clean \in BOOLEAN,
         NEW c \in Swept(found, clean)
  PROVE  Keeps(Current, c)
<1> DEFINE first == {a \in Resolves(Current) : clean => a.pending = {}}
           sent == UNION {Broadcasts(a) : a \in first}
           pinged == {Owe(b, found) : b \in sent}
<1>1. c \in UNION {Resolves(b) : b \in pinged}
  BY DEF Swept
<1>2. PICK p \in pinged : c \in Resolves(p)
  BY <1>1
<1>3. PICK b \in sent : p = Owe(b, found)
  BY <1>2
<1>4. PICK a \in Resolves(Current) : b \in Broadcasts(a)
  BY <1>3
<1>5. Keeps(Current, a)
  BY CurrentSafe, Chain
<1>6. Keeps(Current, b)
  BY <1>4, <1>5, Chain
<1>7. Keeps(Current, p)
  BY <1>3, <1>6, Chain
<1>8. QED BY <1>2, <1>7, Chain

(* SCAN within the capacity of the inventory. *)
LEMMA ScanGood ==
  ASSUME IInv, NEW range \in SUBSET Servos, NEW found \in SUBSET Servos,
         Scan(range, found)
  PROVE  StepGood
<1>1. RestOK' /\ (stopped' => stopped)
  <2>1. tracked' \in SUBSET Servos
    BY DEF Scan, Census, IInv, RestOK
  <2>2. QED BY <2>1, ServedRest DEF Scan, NoTimers, IInv, RestOK
<1>2. \/ \E clean \in BOOLEAN : \E c \in Swept(found, clean) : \E bit \in BOOLEAN :
           /\ found \cap c.energised = {}
           /\ Becomes([Confirmed(c, found) EXCEPT !.safetyFault = bit])
      \/ \E d \in UNION {Refreshes(c, found) : c \in Swept(found, FALSE)} :
           Becomes(Fault(d))
  BY DEF Scan
<1>3. ASSUME NEW clean \in BOOLEAN, NEW c \in Swept(found, clean),
             NEW bit \in BOOLEAN, found \cap c.energised = {},
             Becomes([Confirmed(c, found) EXCEPT !.safetyFault = bit])
      PROVE  StepGood
  <2>1. Keeps(Current, c)
    BY SweptKeep
  <2>2. Keeps(Current, Confirmed(c, found))
    BY <1>3, <2>1, ConfirmedKeeps, KeepsTransitive DEF Keeps
  <2>3. Keeps(Current, [Confirmed(c, found) EXCEPT !.safetyFault = bit])
    BY <2>2, Chain
  <2>4. QED BY <1>1, <1>3, <2>3, KeptStep
<1>4. ASSUME NEW d \in UNION {Refreshes(c, found) : c \in Swept(found, FALSE)},
             Becomes(Fault(d))
      PROVE  StepGood
  <2>1. PICK c \in Swept(found, FALSE) : d \in Refreshes(c, found)
    OBVIOUS
  <2>2. Keeps(Current, c)
    BY SweptKeep
  <2>3. Keeps(Current, d)
    BY <2>1, <2>2, Chain
  <2>4. Keeps(Current, Fault(d))
    BY <2>3, Chain
  <2>5. QED BY <1>1, <1>4, <2>4, KeptStep
<1>5. QED BY <1>2, <1>3, <1>4

(* SCAN that finds more servos than can be tracked. *)
LEMMA ScanOverCapacityGood ==
  ASSUME IInv, NEW range \in SUBSET Servos, NEW found \in SUBSET Servos,
         ScanOverCapacity(range, found)
  PROVE  StepGood
<1>1. RestOK' /\ (stopped' => stopped)
  BY ServedRest DEF ScanOverCapacity, NoTimers, IInv, RestOK
<1>2. PICK a \in Resolves(Current) : \E b \in Broadcasts(a) :
        \E c \in {Fault(Revoke(Owe(b, found)))} \cup Resolves(Owe(b, found)) :
          Becomes(c) \/ Becomes(Fault(c))
  BY DEF ScanOverCapacity
<1>3. PICK b \in Broadcasts(a) :
        \E c \in {Fault(Revoke(Owe(b, found)))} \cup Resolves(Owe(b, found)) :
          Becomes(c) \/ Becomes(Fault(c))
  BY <1>2
<1>4. PICK c \in {Fault(Revoke(Owe(b, found)))} \cup Resolves(Owe(b, found)) :
          Becomes(c) \/ Becomes(Fault(c))
  BY <1>3
<1>5. Keeps(Current, a)
  BY <1>2, CurrentSafe, Chain
<1>6. Keeps(Current, b)
  BY <1>3, <1>5, Chain
<1>7. Keeps(Current, Owe(b, found))
  BY <1>6, Chain
<1>8. Keeps(Current, Revoke(Owe(b, found)))
  BY <1>7, Chain
<1>9. Keeps(Current, c)
  BY <1>4, <1>7, <1>8, Chain
<1>10. Keeps(Current, Fault(c))
  BY <1>9, Chain
<1>11. QED BY <1>1, <1>4, <1>9, <1>10, KeptStep

(* TORQUE_OFF of one servo. *)
LEMMA TorqueOffOneGood ==
  ASSUME IInv, NEW id \in Servos, TorqueOffOne(id)
  PROVE  StepGood
<1>1. RestOK' /\ (stopped' => stopped)
  <2>1. tracked' \in SUBSET Servos
    BY RememberType DEF TorqueOffOne, IInv, RestOK
  <2>2. QED BY <2>1, ServedRest DEF TorqueOffOne, NoTimers, IInv, RestOK
<1>2. PICK n \in TorqueOffs(Release(Current, id), {id}) :
        \/ \E bit \in BOOLEAN : Becomes([n EXCEPT !.safetyFault = bit])
        \/ \E m \in {n} \cup Refreshes(n, {id}) :
             Becomes(Fault(DropGoals(Revoke(m))))
  <2>1. PICK n \in TorqueOffs(Release(Current, id), {id}) :
          \/ Becomes([n EXCEPT !.safetyFault = WasRecovering])
          \/ \E m \in IF id \in n.pending THEN {n} ELSE Refreshes(n, {id}) :
               Becomes(Fault(DropGoals(Revoke(m))))
    BY DEF TorqueOffOne
  <2>2. WasRecovering \in BOOLEAN
    BY DEF WasRecovering
  <2>3. QED BY <2>1, <2>2
<1>3. Keeps(Current, Release(Current, id))
  BY CurrentSafe, ReleaseKeeps
<1>4. Keeps(Current, n)
  BY <1>2, <1>3, Chain
<1>5. ASSUME NEW bit \in BOOLEAN, Becomes([n EXCEPT !.safetyFault = bit])
      PROVE  StepGood
  <2>1. Keeps(Current, [n EXCEPT !.safetyFault = bit])
    BY <1>4, Chain
  <2>2. QED BY <1>1, <1>5, <2>1, KeptStep
<1>6. ASSUME NEW m \in {n} \cup Refreshes(n, {id}),
             Becomes(Fault(DropGoals(Revoke(m))))
      PROVE  StepGood
  <2>1. Keeps(Current, m)
    BY <1>4, Chain
  <2>2. Keeps(Current, DropGoals(Revoke(m)))
    BY <2>1, Chain
  <2>3. Keeps(Current, Fault(DropGoals(Revoke(m))))
    BY <2>2, Chain
  <2>4. QED BY <1>1, <1>6, <2>3, KeptStep
<1>7. QED BY <1>2, <1>5, <1>6

(* MULTITURN: the joint leaves the hold and is turned off. *)
LEMMA MultiTurnGood ==
  ASSUME IInv, NEW id \in Servos, MultiTurn(id)
  PROVE  StepGood
<1>1. RestOK' /\ (stopped' => stopped)
  BY ServedRest DEF MultiTurn, NoTimers, IInv, RestOK
<1>2. PICK n \in TorqueOffs(Release(Current, id), {id}) : Becomes(n)
  BY DEF MultiTurn
<1>3. Keeps(Current, Release(Current, id))
  BY CurrentSafe, ReleaseKeeps
<1>4. Keeps(Current, n)
  BY <1>2, <1>3, Chain
<1>5. QED BY <1>1, <1>2, <1>4, KeptStep

(* CAPTURE: the joint leaves the hold and is turned off. *)
LEMMA CaptureGood ==
  ASSUME IInv, NEW id \in Servos, Capture(id)
  PROVE  StepGood
<1>1. RestOK' /\ (stopped' => stopped)
  <2>1. tracked' \in SUBSET Servos
    BY RememberType DEF Capture, IInv, RestOK
  <2>2. QED BY <2>1, ServedRest DEF Capture, NoTimers, IInv, RestOK
<1>2. PICK n \in TorqueOffs(Release(Current, id), {id}) :
        \/ Becomes(Fault(DropGoals(Revoke(n))))
        \/ Becomes([n EXCEPT !.safetyFault = WasRecovering])
        \/ Becomes(n)
        \/ \E m \in Refreshes(n, {id}) : \E r \in TorqueOffs(m, {id}) :
             Becomes(r) \/ Becomes(Fault(DropGoals(Revoke(r))))
  BY DEF Capture
<1>3. Keeps(Current, Release(Current, id))
  BY CurrentSafe, ReleaseKeeps
<1>4. Keeps(Current, n)
  BY <1>2, <1>3, Chain
<1>5. Keeps(Current, DropGoals(Revoke(n)))
  BY <1>4, Chain
<1>6. Keeps(Current, Fault(DropGoals(Revoke(n))))
  BY <1>5, Chain
<1>7. Keeps(Current, [n EXCEPT !.safetyFault = WasRecovering])
  <2>1. WasRecovering \in BOOLEAN
    BY DEF WasRecovering
  <2>2. QED BY <1>4, <2>1, Chain
<1>8. ASSUME NEW m \in Refreshes(n, {id}), NEW r \in TorqueOffs(m, {id}),
             Becomes(r) \/ Becomes(Fault(DropGoals(Revoke(r))))
      PROVE  StepGood
  <2>1. Keeps(Current, m)
    BY <1>4, Chain
  <2>2. Keeps(Current, r)
    BY <2>1, Chain
  <2>3. Keeps(Current, DropGoals(Revoke(r)))
    BY <2>2, Chain
  <2>4. Keeps(Current, Fault(DropGoals(Revoke(r))))
    BY <2>3, Chain
  <2>5. QED BY <1>1, <1>8, <2>2, <2>4, KeptStep
<1>9. QED BY <1>1, <1>2, <1>4, <1>6, <1>7, <1>8, KeptStep

(* Grouped motion: refreshes and the fail-closed tail. *)
LEMMA FailClosedKeep ==
  ASSUME NEW c, NEW m, Keeps(c, m), NEW S \in SUBSET Servos, NEW n \in FailClosed(m, S)
  PROVE  Keeps(c, n)
<1>1. PICK b \in Broadcasts(DropGoals(Revoke(m))) : n \in TorqueOffs(b, S)
  BY DEF FailClosed
<1>2. Keeps(c, DropGoals(Revoke(m)))
  BY Chain
<1>3. Keeps(c, b)
  BY <1>1, <1>2, Chain
<1>4. QED BY <1>1, <1>3, Chain

(* A grouped move that fails, or a follow that reads its members. *)
LEMMA GroupMotionGood ==
  ASSUME IInv, NEW S \in SUBSET Servos,
         MoveSetFails(S) \/ FollowSetFails(S) \/ FollowRead(S)
  PROVE  StepGood
<1>1. /\ Served /\ NoTimers /\ UNCHANGED <<stopped, tracked>>
      /\ \/ \E n \in FailClosed(Current, S) : Becomes(Fault(n))
         \/ \E m \in Refreshes(Current, S) :
              \/ Becomes(m)
              \/ \E n \in FailClosed(m, S) : Becomes(Fault(n))
  BY DEF MoveSetFails, FollowSetFails, FollowRead
<1>2. RestOK' /\ (stopped' => stopped)
  BY <1>1, ServedRest DEF NoTimers, IInv, RestOK
<1>3. ASSUME NEW m, Keeps(Current, m), NEW n \in FailClosed(m, S), Becomes(Fault(n))
      PROVE  StepGood
  <2>1. Keeps(Current, n)
    BY <1>3, FailClosedKeep
  <2>2. Keeps(Current, Fault(n))
    BY <2>1, Chain
  <2>3. QED BY <1>2, <1>3, <2>2, KeptStep
<1>4. Keeps(Current, Current) /\ \A m \in Refreshes(Current, S) : Keeps(Current, m)
  BY CurrentSafe, Chain
<1>5. QED BY <1>1, <1>2, <1>3, <1>4, KeptStep

-----------------------------------------------------------------------------
(* TORQUE_LEASE. *)

(* The proven all-off state a lease starts from is a safe one. *)
LEMMA AllOffForKeep ==
  ASSUME IInv, NEW id \in Servos, NEW T \in SUBSET Servos, NEW d \in AllOffFor(id, T)
  PROVE  Keeps(Current, d) /\ d.pending = {}
<1> DEFINE as == {r \in Resolves(Current) : r.pending = {}}
           bs == UNION {Broadcasts(a) : a \in as}
           cs == {e \in UNION {ConfirmAlls(b, T) : b \in bs} : e.pending = {}}
<1>1. d \in UNION {TorqueOffs(c, {id}) : c \in cs} /\ d.pending = {}
  BY DEF AllOffFor
<1>2. PICK c \in cs : d \in TorqueOffs(c, {id})
  BY <1>1
<1>3. PICK b \in bs : c \in ConfirmAlls(b, T)
  BY <1>2
<1>4. PICK a \in as : b \in Broadcasts(a)
  BY <1>3
<1>5. Keeps(Current, a)
  BY CurrentSafe, Chain
<1>6. Keeps(Current, b)
  BY <1>4, <1>5, Chain
<1>7. Keeps(Current, c)
  BY <1>3, <1>6, Chain
<1>8. QED BY <1>1, <1>2, <1>7, Chain

(* A lease is taken only with the STOP latch clear. *)
LEMMA LeaseRest ==
  ASSUME IInv, LeaseFrame, leaseOver' \in BOOLEAN, tracked' \in SUBSET Servos
  PROVE  RestOK' /\ ~stopped /\ ~stopped'
<1>1. ~stopped /\ stopped' = stopped /\ holdOver' = holdOver /\ Served
  BY DEF LeaseFrame, MotionAllowed
<1>2. QED BY <1>1, ServedRest DEF IInv, RestOK

(* TORQUE_LEASE whose off proof stays incomplete. *)
LEMMA LeasePreflightFailsGood ==
  ASSUME IInv, NEW id \in Servos, LeasePreflightFails(id)
  PROVE  StepGood
<1>1. PICK a \in Resolves(Current) :
        IF a.pending # {}
        THEN Becomes(a) /\ UNCHANGED tracked
        ELSE /\ tracked' = Remember(tracked, {id})
             /\ \E b \in Broadcasts(a) : \E c \in ConfirmAlls(b, tracked') :
                \E d \in TorqueOffs(c, {id}) :
                \E e \in IF id \in d.pending THEN {d} ELSE Refreshes(d, {id}) :
                  Becomes(Fault(Revoke(e)))
  BY DEF LeasePreflightFails
<1>2. tracked' \in SUBSET Servos
  BY <1>1, RememberType DEF IInv, RestOK
<1>3. RestOK' /\ ~stopped /\ ~stopped'
  BY <1>2, LeaseRest DEF LeasePreflightFails, IInv, RestOK
<1>4. Keeps(Current, a)
  BY CurrentSafe, Chain
<1>5. ASSUME NEW b \in Broadcasts(a), NEW c \in ConfirmAlls(b, tracked'),
             NEW d \in TorqueOffs(c, {id}),
             NEW e \in {d} \cup Refreshes(d, {id}), Becomes(Fault(Revoke(e)))
      PROVE  StepGood
  <2>1. Keeps(Current, b)
    BY <1>4, Chain
  <2>2. Keeps(Current, c)
    BY <1>2, <2>1, Chain
  <2>3. Keeps(Current, d)
    BY <2>2, Chain
  <2>4. Keeps(Current, e)
    BY <2>3, Chain
  <2>5. Keeps(Current, Revoke(e))
    BY <2>4, Chain
  <2>6. Keeps(Current, Fault(Revoke(e)))
    BY <2>5, Chain
  <2>7. QED BY <1>3, <1>5, <2>6, KeptStep
<1>6. CASE a.pending # {}
  BY <1>1, <1>3, <1>4, <1>6, KeptStep
<1>7. CASE a.pending = {}
  BY <1>1, <1>5, <1>7
<1>8. QED BY <1>6, <1>7

(* TORQUE_LEASE that fails before the enable. *)
LEMMA LeaseModeOrGoalFailsGood ==
  ASSUME IInv, NEW id \in Servos, LeaseModeOrGoalFails(id)
  PROVE  StepGood
<1>1. tracked' \in SUBSET Servos
  BY RememberType DEF LeaseModeOrGoalFails, IInv, RestOK
<1>2. RestOK' /\ ~stopped /\ ~stopped'
  BY <1>1, LeaseRest DEF LeaseModeOrGoalFails, IInv, RestOK
<1>3. PICK d \in AllOffFor(id, tracked') : \E e \in TorqueOffs(d, {id}) :
        Becomes(IF e.pending # {} THEN Fault(Revoke(e)) ELSE e)
  BY DEF LeaseModeOrGoalFails
<1>4. PICK e \in TorqueOffs(d, {id}) :
        Becomes(IF e.pending # {} THEN Fault(Revoke(e)) ELSE e)
  BY <1>3
<1>5. Keeps(Current, d)
  BY <1>1, <1>3, AllOffForKeep
<1>6. Keeps(Current, e)
  BY <1>4, <1>5, Chain
<1>7. Keeps(Current, Revoke(e))
  BY <1>6, Chain
<1>8. Keeps(Current, Fault(Revoke(e)))
  BY <1>7, Chain
<1>9. QED BY <1>2, <1>4, <1>6, <1>8, KeptStep

(* Torque may be switched on for servos whose obligation is queued. *)
LEMMA EnergiseSafe ==
  ASSUME NEW m, Safe(m), Held(m), NEW E \in SUBSET m.pending
  PROVE  /\ Safe([m EXCEPT !.energised = @ \cup E])
         /\ Held([m EXCEPT !.energised = @ \cup E])
BY DEF Safe, Held, Machine

(* With nothing pending there is no held joint. *)
LEMMA NothingPendingHeld ==
  ASSUME NEW m, Safe(m), m.pending = {}, NEW S \in SUBSET Servos
  PROVE  Safe(Owe(m, S)) /\ Held(Owe(m, S)) /\ S \subseteq Owe(m, S).pending
BY OweKeeps DEF Keeps, Safe, Held, Owe, Machine

(* TORQUE_LEASE whose enable fails and is rolled back. *)
LEMMA LeaseEnableFailsGood ==
  ASSUME IInv, NEW id \in Servos, LeaseEnableFails(id)
  PROVE  StepGood
<1>1. tracked' \in SUBSET Servos
  BY RememberType DEF LeaseEnableFails, IInv, RestOK
<1>2. RestOK' /\ ~stopped /\ ~stopped'
  BY <1>1, LeaseRest DEF LeaseEnableFails, IInv, RestOK
<1>3. PICK d \in AllOffFor(id, tracked') : \E landed \in SUBSET {id} :
        \E e \in TorqueOffs([Owe(d, {id}) EXCEPT !.energised = @ \cup landed], {id}) :
          Becomes(IF e.pending # {} THEN Fault(Revoke(e)) ELSE e)
  BY DEF LeaseEnableFails
<1>4. PICK landed \in SUBSET {id} :
        \E e \in TorqueOffs([Owe(d, {id}) EXCEPT !.energised = @ \cup landed], {id}) :
          Becomes(IF e.pending # {} THEN Fault(Revoke(e)) ELSE e)
  BY <1>3
<1> DEFINE x == [Owe(d, {id}) EXCEPT !.energised = @ \cup landed]
<1>5. PICK e \in TorqueOffs(x, {id}) :
          Becomes(IF e.pending # {} THEN Fault(Revoke(e)) ELSE e)
  BY <1>4
<1>6. Safe(d) /\ d.pending = {}
  BY <1>1, <1>3, AllOffForKeep DEF Keeps
<1>7. Safe(Owe(d, {id})) /\ Held(Owe(d, {id})) /\ {id} \subseteq Owe(d, {id}).pending
  BY <1>6, NothingPendingHeld
<1>8. Safe(x) /\ Held(x)
  BY <1>7, EnergiseSafe
<1> HIDE DEF x
<1>9. Keeps(x, e)
  BY <1>5, <1>8, TorqueOffsKeep
<1>10. Keeps(x, Revoke(e))
  BY <1>9, Chain
<1>11. Keeps(x, Fault(Revoke(e)))
  BY <1>10, Chain
<1>12. QED BY <1>2, <1>5, <1>8, <1>9, <1>11, EnergisingStep DEF Keeps

(* TORQUE_LEASE: the obligation precedes the torque it covers. *)
LEMMA TorqueLeaseGood ==
  ASSUME IInv, NEW id \in Servos, TorqueLease(id)
  PROVE  StepGood
<1>1. tracked' \in SUBSET Servos
  BY RememberType DEF TorqueLease, IInv, RestOK
<1>2. RestOK' /\ ~stopped /\ ~stopped'
  <2>1. leaseOver' \in BOOLEAN
    BY DEF TorqueLease
  <2>2. QED BY <1>1, <2>1, LeaseRest DEF TorqueLease
<1>3. PICK d \in AllOffFor(id, tracked') :
        Becomes([Owe(d, {id}) EXCEPT !.energised = @ \cup {id}, !.lease = id])
  BY DEF TorqueLease
<1> DEFINE o == Owe(d, {id})
           x == [o EXCEPT !.energised = @ \cup {id}, !.lease = id]
<1>4. Safe(d) /\ d.pending = {}
  BY <1>1, <1>3, AllOffForKeep DEF Keeps
<1>5. Safe(o) /\ Held(o) /\ {id} \subseteq o.pending
  BY <1>4, NothingPendingHeld
<1> HIDE DEF o
<1>6. Safe(x) /\ Held(x)
  BY <1>5 DEF Safe, Held, Machine
<1>7. Becomes(x)
  BY <1>3 DEF o
<1>8. QED BY <1>2, <1>6, <1>7, EnergisingStep

-----------------------------------------------------------------------------
(* HOLD_SET. *)

(* The members a HOLD_SET adds are servos. *)
LEMMA HoldFacts ==
  ASSUME IInv, NEW S \in SUBSET Servos
  PROVE  Added(S) \in SUBSET Servos
BY DEF Added

(* A hold set is taken only with the STOP latch clear. *)
LEMMA HoldRest ==
  ASSUME IInv, HoldSetFrame, holdOver' \in BOOLEAN, tracked' \in SUBSET Servos
  PROVE  RestOK' /\ ~stopped /\ ~stopped'
<1>1. /\ ~stopped /\ stopped' = stopped /\ leaseOver' = leaseOver
      /\ CommandFrame /\ hostFresh' \in BOOLEAN
  BY DEF HoldSetFrame
<1>2. QED BY <1>1, CommandRest DEF IInv, RestOK

(* HOLD_SET whose capture of a member fails. *)
LEMMA HoldCaptureFailsGood ==
  ASSUME IInv, NEW S \in SUBSET Servos, HoldCaptureFails(S)
  PROVE  StepGood
<1>1. PICK id \in Added(S) : \E done \in SUBSET (Added(S) \ {id}) :
        /\ tracked' = Remember(Remember(tracked, done), {id})
        /\ done \cap energised = {}
        /\ \E m \in Refreshes(Owe(Confirmed(Current, done), done), {id}) : Becomes(m)
  BY DEF HoldCaptureFails
<1>2. PICK done \in SUBSET (Added(S) \ {id}) :
        /\ tracked' = Remember(Remember(tracked, done), {id})
        /\ done \cap energised = {}
        /\ \E m \in Refreshes(Owe(Confirmed(Current, done), done), {id}) : Becomes(m)
  BY <1>1
<1>3. PICK m \in Refreshes(Owe(Confirmed(Current, done), done), {id}) : Becomes(m)
  BY <1>2
<1>4. {id} \in SUBSET Servos /\ done \in SUBSET Servos
  BY HoldFacts
<1>5. RestOK' /\ ~stopped /\ ~stopped'
  <2>1. tracked' \in SUBSET Servos
    BY <1>2, <1>4, RememberType DEF IInv, RestOK
  <2>2. QED BY <2>1, HoldRest DEF HoldCaptureFails, IInv, RestOK
<1>6. Keeps(Current, Confirmed(Current, done))
  BY <1>2, <1>4, CurrentSafe, ConfirmedKeeps DEF Current
<1>7. Keeps(Current, Owe(Confirmed(Current, done), done))
  BY <1>4, <1>6, Chain
<1>8. Keeps(Current, m)
  BY <1>3, <1>4, <1>7, Chain
<1>9. QED BY <1>3, <1>5, <1>8, KeptStep

(* What a successful capture of all additions leaves. *)
LEMMA HoldReadyFacts ==
  ASSUME IInv, NEW S \in SUBSET Servos, HoldReady(S), holdOver' \in BOOLEAN
  PROVE  /\ RestOK' /\ ~stopped /\ ~stopped'
         /\ Safe(Captured(S)) /\ Held(Captured(S))
         /\ Added(S) \subseteq Captured(S).pending
         /\ Safe(Enabled(S)) /\ Held(Enabled(S))
<1>1. Added(S) \in SUBSET Servos
  BY HoldFacts
<1>2. RestOK' /\ ~stopped /\ ~stopped'
  <2>1. tracked' \in SUBSET Servos
    BY <1>1, RememberType DEF HoldReady, IInv, RestOK
  <2>2. QED BY <2>1, HoldRest DEF HoldReady
<1> DEFINE c == Confirmed(Current, Added(S))
<1>3. Keeps(Current, c)
  <2>1. Added(S) \cap Current.energised = {}
    BY DEF HoldReady, Current
  <2>2. QED BY <1>1, <2>1, CurrentSafe, ConfirmedKeeps
<1>4. Keeps(Current, Owe(c, Added(S))) /\ Added(S) \subseteq Owe(c, Added(S)).pending
  BY <1>1, <1>3, OweKeeps, KeepsTransitive DEF Keeps
<1>5. Safe(Captured(S)) /\ Held(Captured(S)) /\ Added(S) \subseteq Captured(S).pending
  BY <1>4 DEF Captured, Keeps, IInv
<1>6. Safe(Enabled(S)) /\ Held(Enabled(S))
  BY <1>5, EnergiseSafe DEF Enabled
<1>7. QED BY <1>2, <1>5, <1>6

(* HOLD_SET whose enable of a member fails. *)
LEMMA HoldEnableFailsGood ==
  ASSUME IInv, NEW S \in SUBSET Servos, HoldEnableFails(S)
  PROVE  StepGood
<1>1. /\ RestOK' /\ ~stopped /\ ~stopped'
      /\ Safe(Captured(S)) /\ Held(Captured(S))
      /\ Added(S) \subseteq Captured(S).pending
  <2>1. HoldReady(S) /\ holdOver' \in BOOLEAN
    BY DEF HoldEnableFails, IInv, RestOK
  <2>2. QED BY <2>1, HoldReadyFacts
<1>2. PICK id \in Added(S) : \E done \in SUBSET (Added(S) \ {id}) :
      \E landed \in SUBSET {id} :
      \E n \in TorqueOffs([Captured(S) EXCEPT !.energised = @ \cup done \cup landed],
                          done \cup {id}) :
        Becomes(n) \/ Becomes(Fault(DropGoals(Revoke(n))))
  BY DEF HoldEnableFails
<1>3. PICK done \in SUBSET (Added(S) \ {id}) : \E landed \in SUBSET {id} :
      \E n \in TorqueOffs([Captured(S) EXCEPT !.energised = @ \cup done \cup landed],
                          done \cup {id}) :
        Becomes(n) \/ Becomes(Fault(DropGoals(Revoke(n))))
  BY <1>2
<1>4. PICK landed \in SUBSET {id} :
      \E n \in TorqueOffs([Captured(S) EXCEPT !.energised = @ \cup done \cup landed],
                          done \cup {id}) :
        Becomes(n) \/ Becomes(Fault(DropGoals(Revoke(n))))
  BY <1>3
<1> DEFINE x == [Captured(S) EXCEPT !.energised = @ \cup done \cup landed]
<1>5. PICK n \in TorqueOffs(x, done \cup {id}) :
        Becomes(n) \/ Becomes(Fault(DropGoals(Revoke(n))))
  BY <1>4
<1>6. Safe(x) /\ Held(x)
  BY <1>1 DEF Safe, Held, Machine
<1>7. done \cup {id} \in SUBSET Servos
  BY HoldFacts
<1> HIDE DEF x
<1>8. Keeps(x, n)
  BY <1>5, <1>6, <1>7, TorqueOffsKeep
<1>9. Keeps(x, DropGoals(Revoke(n)))
  BY <1>8, Chain
<1>10. Keeps(x, Fault(DropGoals(Revoke(n))))
  BY <1>9, Chain
<1>11. QED BY <1>1, <1>5, <1>6, <1>8, <1>10, EnergisingStep DEF Keeps

(* HOLD_SET whose authority is refused after the enables. *)
LEMMA HoldAuthorityFailsGood ==
  ASSUME IInv, NEW S \in SUBSET Servos, HoldAuthorityFails(S)
  PROVE  StepGood
<1>1. RestOK' /\ ~stopped /\ ~stopped' /\ Safe(Enabled(S)) /\ Held(Enabled(S))
  <2>1. HoldReady(S) /\ holdOver' \in BOOLEAN
    BY DEF HoldAuthorityFails, IInv, RestOK
  <2>2. QED BY <2>1, HoldReadyFacts
<1>2. PICK n \in TorqueOffs(Enabled(S), Added(S)) :
        Becomes(n) \/ Becomes(Fault(DropGoals(Revoke(n))))
  BY DEF HoldAuthorityFails
<1>3. Keeps(Enabled(S), n)
  BY <1>1, <1>2, HoldFacts, TorqueOffsKeep
<1>4. Keeps(Enabled(S), DropGoals(Revoke(n)))
  BY <1>3, Chain
<1>5. Keeps(Enabled(S), Fault(DropGoals(Revoke(n))))
  BY <1>4, Chain
<1>6. QED BY <1>1, <1>2, <1>3, <1>5, EnergisingStep DEF Keeps

(* HOLD_SET granted, then verified or dropped. *)
LEMMA HoldSetGood ==
  ASSUME IInv, NEW S \in SUBSET Servos, HoldSet(S)
  PROVE  StepGood
<1>1. RestOK' /\ ~stopped /\ ~stopped' /\ Safe(Enabled(S)) /\ Held(Enabled(S))
  <2>1. HoldReady(S) /\ holdOver' \in BOOLEAN
    BY DEF HoldSet
  <2>2. QED BY <2>1, HoldReadyFacts
<1> DEFINE x == [Enabled(S) EXCEPT !.holdSet = S, !.holdGoals = S]
<1>2. Safe(x) /\ Held(x)
  <2>1. S \subseteq Enabled(S).pending
    BY DEF HoldSet
  <2>2. QED BY <1>1, <2>1 DEF Safe, Held, Machine
<1>3. PICK n \in TorqueOffs(x, holdGoals \ S) :
        \/ Becomes([n EXCEPT !.safetyFault = FALSE])
        \/ \E c \in RolledBack(n, S, tracked') : Becomes(Fault(c))
  BY DEF HoldSet
<1>4. Keeps(x, n)
  <2>1. holdGoals \in SUBSET Servos
    BY CurrentSafe DEF Safe, Machine, Current
  <2>2. QED BY <1>2, <1>3, <2>1, TorqueOffsKeep
<1>5. Keeps(x, [n EXCEPT !.safetyFault = FALSE])
  BY <1>4, Chain
<1>6. ASSUME NEW c \in RolledBack(n, S, tracked')
      PROVE  Keeps(x, Fault(c))
  <2> DEFINE off == UNION {Resolves(Revoke(m)) : m \in Refreshes(n, S)}
             bs == UNION {Broadcasts(a) : a \in off}
  <2>1. PICK b \in bs : c \in ConfirmAlls(b, tracked')
    BY DEF RolledBack
  <2>2. PICK a \in off : b \in Broadcasts(a)
    BY <2>1
  <2>3. PICK m \in Refreshes(n, S) : a \in Resolves(Revoke(m))
    BY <2>2
  <2>4. Keeps(x, m)
    BY <1>4, <2>3, Chain
  <2>5. Keeps(x, Revoke(m))
    BY <2>4, Chain
  <2>6. Keeps(x, a)
    BY <2>3, <2>5, Chain
  <2>7. Keeps(x, b)
    BY <2>2, <2>6, Chain
  <2>8. Keeps(x, c)
    BY <1>1, <2>1, <2>7, Chain DEF RestOK
  <2>9. QED BY <2>8, Chain
<1> HIDE DEF x
<1>7. QED BY <1>1, <1>2, <1>3, <1>5, <1>6, EnergisingStep DEF Keeps

-----------------------------------------------------------------------------
(* The theorems. *)

(* Every tick. *)
LEMMA TickGood == IInv /\ Tick => StepGood
BY TickBootGood, TickQuietGood, TickSupervisionBadGood, TickLeaseExpiredGood,
   TickWatchdogGood, TickRetryGood DEF Tick

(* Every host command. *)
LEMMA CommandGood == IInv /\ Command => StepGood
<1> SUFFICES ASSUME IInv, Command PROVE StepGood
  OBVIOUS
<1>1. CASE LineRejected \/ Query \/ Heartbeat
  BY <1>1, IdleCommandsGood
<1>2. CASE Status \/ StatusEndsRecovery \/ TorqueOffAll \/ Stop \/ Reset
  BY <1>2, StatusGood, StatusEndsRecoveryGood, TorqueOffAllGood, StopGood, ResetGood
<1>3. ASSUME NEW id \in Servos,
             \/ Family(id) \/ TorqueOffOne(id) \/ LeaseStep(id)
             \/ Capture(id) \/ MultiTurn(id)
      PROVE  StepGood
  BY <1>3, FamilyGood, TorqueOffOneGood, CaptureGood, MultiTurnGood,
     LeasePreflightFailsGood, LeaseModeOrGoalFailsGood, LeaseEnableFailsGood,
     TorqueLeaseGood DEF LeaseStep
<1>4. ASSUME NEW S \in SUBSET Servos,
             HoldSetStep(S) \/ MoveSetFails(S) \/ FollowSetFails(S) \/ FollowRead(S)
      PROVE  StepGood
  BY <1>4, GroupMotionGood, HoldCaptureFailsGood, HoldEnableFailsGood,
     HoldAuthorityFailsGood, HoldSetGood DEF HoldSetStep
<1>5. ASSUME NEW range \in SUBSET Servos, NEW found \in SUBSET Servos,
             Scan(range, found) \/ ScanOverCapacity(range, found)
      PROVE  StepGood
  BY <1>5, ScanGood, ScanOverCapacityGood
<1>6. QED BY <1>1, <1>2, <1>3, <1>4, <1>5 DEF Command

(* Every step of the environment. *)
LEMMA EnvironmentGood == IInv /\ Environment => StepGood
BY TimersGood, RetryFallsDueGood, RebootGood, ServoDropsGood DEF Environment

(* A step that changes nothing. *)
LEMMA StutterGood == IInv /\ UNCHANGED vars => StepGood
<1> SUFFICES ASSUME IInv, UNCHANGED vars PROVE StepGood
  OBVIOUS
<1>1. UNCHANGED machine /\ RestOK' /\ (stopped' => stopped)
  BY DEF vars, IInv, RestOK
<1>2. QED BY <1>1, IdleStep

(* Every step. *)
LEMMA NextGood == IInv /\ [Next]_vars => StepGood
BY TickGood, CommandGood, EnvironmentGood, StutterGood DEF Next

(* The strengthening is inductive: every reachable state of every instance  *)
(* satisfies it.                                                            *)
THEOREM Inductive == Spec => []IInv
<1>1. Init => IInv
  BY InitGood
<1>2. IInv /\ [Next]_vars => IInv'
  BY NextGood DEF StepGood
<1>3. QED BY <1>1, <1>2, PTL DEF Spec

(* The state of the runtime always has its type. *)
THEOREM TypeCorrect == Spec => []TypeOK
<1>1. IInv => TypeOK
  BY IInvImplies
<1>2. QED BY <1>1, Inductive, PTL

(* Whatever the bus loses and however commands, ticks and reboots interleave,*)
(* a servo that this boot energised has a retained torque-off obligation.    *)
THEOREM EnergisedServosAreOwed == Spec => []EnergisedIsPending
<1>1. IInv => EnergisedIsPending
  BY IInvImplies
<1>2. QED BY <1>1, Inductive, PTL

(* A lease or a hold membership never outlives the obligation behind it. *)
THEOREM AuthorityIsBacked == Spec => []AuthorityIsPending
<1>1. IInv => AuthorityIsPending
  BY IInvImplies
<1>2. QED BY <1>1, Inductive, PTL

(* Every held joint keeps its captured goal. *)
THEOREM HeldJointsHaveGoals == Spec => []HoldHasGoal
<1>1. IInv => HoldHasGoal
  BY IInvImplies
<1>2. QED BY <1>1, Inductive, PTL

(* While the STOP latch is set no lease and no hold set exists. *)
THEOREM StopLeavesNoAuthority == Spec => []StopHasNoAuthority
<1>1. IInv => StopHasNoAuthority
  BY IInvImplies
<1>2. QED BY <1>1, Inductive, PTL

(* While the STOP latch stays set no step energises a servo. *)
THEOREM StopLatchHolds == Spec => StopNeverEnergises
<1>1. IInv /\ [Next]_vars => [stopped /\ stopped' => energised' \subseteq energised]_vars
  BY NextGood DEF StepGood
<1>2. QED BY <1>1, Inductive, PTL DEF Spec, StopNeverEnergises

-----------------------------------------------------------------------------
(* RESET releases the STOP latch only on a complete off proof, a new lease  *)
(* energises its servo alone, and a held joint keeps its torque.            *)
(*                                                                          *)
(* A handler threads bus helpers, so here too the work is done once per     *)
(* helper: authority only shrinks, and what remains held keeps its torque   *)
(* (Stands).  A helper that may turn servos off blindly is used only where  *)
(* no authority is left (Bare) or outside the hold set.                     *)

Stands(m, n) ==
  /\ n.lease \in {m.lease, NoServo}
  /\ n.holdSet \subseteq m.holdSet
  /\ m.energised \cap n.holdSet \subseteq n.energised

-----------------------------------------------------------------------------
(* The helpers.                                                             *)

(* What leaves no authority disturbs none. *)
LEMMA BareStands ==
  ASSUME NEW m, NEW n, Bare(n)
  PROVE  Stands(m, n)
BY DEF Stands, Bare

(* Outcomes compose. *)
LEMMA StandsTransitive ==
  ASSUME NEW m, NEW n, NEW o, Stands(m, n), Stands(n, o)
  PROVE  Stands(m, o)
BY DEF Stands

(* The fault, the timers and new obligations touch no authority. *)
LEMMA FlagsStand ==
  ASSUME NEW m, Safe(m)
  PROVE  /\ Stands(m, m) /\ Stands(m, Fault(m))
         /\ \A b \in BOOLEAN : Stands(m, [m EXCEPT !.safetyFault = b])
         /\ \A S \in SUBSET Servos : Stands(m, Owe(m, S)) /\ Owe(m, S).holdSet = m.holdSet
BY DEF Safe, Stands, Fault, Owe, Machine

(* Settling an obligation, or releasing a joint, only shrinks authority. *)
LEMMA SettledStands ==
  ASSUME NEW m, Safe(m)
  PROVE  /\ \A S : Stands(m, Confirmed(m, S))
         /\ \A id : Stands(m, Release(m, id)) /\ id \notin Release(m, id).holdSet
BY DEF Safe, Stands, Confirmed, Release, Machine

(* With nothing pending there is no authority either. *)
LEMMA NothingPendingBare ==
  ASSUME NEW m, Safe(m), m.pending = {}
  PROVE  Bare(m)
BY DEF Safe, Bare

(* Turning servos off outside the hold set. *)
LEMMA TorqueOffsStand ==
  ASSUME NEW m, Safe(m), NEW S \in SUBSET Servos, S \cap m.holdSet = {},
         NEW n \in TorqueOffs(m, S)
  PROVE  Stands(m, n)
<1>1. CASE S = {}
  BY <1>1, FlagsStand DEF TorqueOffs
<1>2. CASE S # {}
  <2>1. PICK lost \in SUBSET (S \cap m.energised), heard \in SUBSET S :
          n = Confirmed(Attempted(m, S, lost), heard \ lost)
    BY <1>2 DEF TorqueOffs
  <2>2. Stands(m, Attempted(m, S, lost)) /\ Attempted(m, S, lost) \in Machine
    BY DEF Safe, Stands, Attempted, Owe, Machine
  <2>3. Stands(Attempted(m, S, lost), n)
    BY <2>1, <2>2 DEF Stands, Confirmed, Machine
  <2>. QED BY <2>2, <2>3, StandsTransitive
<1>. QED BY <1>1, <1>2

(* Closing a pass over the obligations leaves no authority: either nothing  *)
(* is pending, or it was revoked.                                           *)
LEMMA ResolvesBare ==
  ASSUME NEW m, Safe(m), NEW n \in Resolves(m)
  PROVE  Bare(n)
<1>1. Safe(DropGoals(m)) /\ DropGoals(m).pending = m.pending /\ m.pending \in SUBSET Servos
  BY DEF Safe, DropGoals, Machine
<1>2. PICK o \in TorqueOffs(DropGoals(m), m.pending) :
        n = IF o.pending = {} THEN o ELSE Fault(Revoke(o))
  BY DEF Resolves
<1>3. Safe(o) BY <1>1, <1>2, TorqueOffsKeep DEF Keeps
<1>4. CASE o.pending = {} BY <1>2, <1>3, <1>4, NothingPendingBare
<1>5. CASE o.pending # {}
  <2>1. n = Fault(Revoke(o)) BY <1>2, <1>5
  <2>2. o \in Machine BY <1>3 DEF Safe
  <2>. QED BY <2>1, <2>2 DEF Bare, Fault, Revoke, Machine
<1>. QED BY <1>4, <1>5

(* A read-back of the inventory turns nothing off. *)
LEMMA ConfirmAllsStand ==
  ASSUME NEW m, Safe(m), NEW T \in SUBSET Servos, NEW n \in ConfirmAlls(m, T)
  PROVE  Stands(m, n)
<1>1. PICK heard \in SUBSET T : n = Confirmed(Owe(m, T), heard \ m.energised)
  BY DEF ConfirmAlls
<1>2. Stands(m, Owe(m, T)) /\ Safe(Owe(m, T)) BY FlagsStand, OweKeeps DEF Keeps
<1>. QED BY <1>1, <1>2, SettledStands, StandsTransitive

(* A telemetry refresh turns a servo off only when it revokes everything.   *)
LEMMA TripsBare ==
  ASSUME NEW m, Safe(m), NEW S \in SUBSET Servos, NEW n \in Trips(m, S)
  PROVE  Bare(n)
<1>1. Keeps(m, m) BY DEF Keeps
<1>2. Keeps(m, Owe(m, S)) BY <1>1, Chain
<1>3. Safe(Revoke(Owe(m, S))) /\ Bare(Revoke(Owe(m, S))) BY <1>2, RevokeKeeps DEF Keeps
<1>4. Keeps(Revoke(Owe(m, S)), Fault(Revoke(Owe(m, S)))) BY <1>3, FaultKeeps
<1>5. Keeps(Revoke(Owe(m, S)), n) BY <1>4, Chain DEF Trips
<1>. QED BY <1>3, <1>5 DEF Keeps

(* A refresh therefore never turns off a joint that stays held. *)
LEMMA RefreshesStand ==
  ASSUME NEW m, Safe(m), NEW S \in SUBSET Servos, NEW n \in Refreshes(m, S)
  PROVE  Stands(m, n)
<1>1. PICK answered \in SUBSET S :
        n \in UNION {Refreshed(m, unclear, answered \ unclear) : unclear \in SUBSET answered}
  BY DEF Refreshes
<1>2. PICK unclear \in SUBSET answered : n \in Refreshed(m, unclear, answered \ unclear)
  BY <1>1
<1>. DEFINE known == answered \ unclear
            c == Confirmed(m, known \ m.energised)
            wrong == unclear \cup (known \cap (m.energised \ Authorised(c)))
<1>3. Safe(c) /\ Stands(m, c) BY ConfirmedKeeps, SettledStands DEF Keeps
<1>4. CASE wrong = {}
  BY <1>2, <1>3, <1>4 DEF Refreshed
<1>5. CASE wrong # {}
  <2>1. PICK later \in SUBSET (known \cap m.energised) : n \in Trips(c, wrong \cup later)
    BY <1>2, <1>5 DEF Refreshed
  <2>2. wrong \cup later \in SUBSET Servos OBVIOUS
  <2>. QED BY <1>3, <2>1, <2>2, TripsBare, BareStands
<1>. QED BY <1>4, <1>5

(* From a state without authority every helper leads to one. *)
LEMMA StaysBare ==
  ASSUME NEW m, NEW n, Keeps(m, n), Bare(m)
  PROVE  Bare(n)
BY DEF Keeps

(* One more helper at the end of a chain that stands. *)
LEMMA Link ==
  ASSUME NEW c, NEW m, Keeps(c, m), Stands(c, m)
  PROVE  /\ Stands(c, Fault(m)) /\ Bare(Revoke(m)) /\ Bare(DropGoals(Revoke(m)))
         /\ \A b \in BOOLEAN : Stands(c, [m EXCEPT !.safetyFault = b])
         /\ \A S \in SUBSET Servos : Stands(c, Owe(m, S))
         /\ \A S \in SUBSET Servos : \A n \in TorqueOffs(m, S) :
              S \cap m.holdSet = {} => Stands(c, n)
         /\ \A S \in SUBSET Servos : \A n \in ConfirmAlls(m, S) : Stands(c, n)
         /\ \A S \in SUBSET Servos : \A n \in Refreshes(m, S) : Stands(c, n)
<1>1. Safe(m) BY DEF Keeps
<1>2. Bare(Revoke(m)) /\ Bare(DropGoals(Revoke(m))) BY <1>1, RevokeKeeps
<1>3. Stands(c, Fault(m)) BY <1>1, FlagsStand, StandsTransitive
<1>4. \A b \in BOOLEAN : Stands(c, [m EXCEPT !.safetyFault = b])
  BY <1>1, FlagsStand, StandsTransitive
<1>5. \A S \in SUBSET Servos : Stands(c, Owe(m, S))
  BY <1>1, FlagsStand, StandsTransitive
<1>6. \A S \in SUBSET Servos : \A n \in TorqueOffs(m, S) : S \cap m.holdSet = {} => Stands(c, n)
  BY <1>1, TorqueOffsStand, StandsTransitive
<1>7. \A S \in SUBSET Servos : \A n \in ConfirmAlls(m, S) : Stands(c, n)
  BY <1>1, ConfirmAllsStand, StandsTransitive
<1>8. \A S \in SUBSET Servos : \A n \in Refreshes(m, S) : Stands(c, n)
  BY <1>1, RefreshesStand, StandsTransitive
<1>. QED BY <1>2, <1>3, <1>4, <1>5, <1>6, <1>7, <1>8

-----------------------------------------------------------------------------
(* The inductive invariant: until its first tick after begin() a boot has   *)
(* taken no line and no authority, so that tick's broadcast interrupts none. *)
Started == booting => line = "none" /\ lease = NoServo /\ holdSet = {}

LInv == IInv /\ Started

(* No step takes a line or authority before the first tick. *)
LEMMA StartedStep == Started /\ [Next]_vars => Started'
<1>. SUFFICES ASSUME Started, [Next]_vars PROVE Started' OBVIOUS
<1>1. CASE UNCHANGED vars BY <1>1 DEF Started, vars, machine
<1>2. CASE Tick
  BY <1>2 DEF Tick, TickBoot, TickQuiet, TickSupervisionBad, TickLeaseExpired, TickWatchdog,
              TickRetry, Started
<1>3. CASE Environment
  BY <1>3 DEF Environment, HeartbeatExpires, LeaseElapses, HoldElapses, RetryFallsDue, Reboot,
              ColdRam, ServoDrops, Becomes, Current, machine, Started
<1>4. CASE Command
  <2>1. CommandFrame
    BY <1>4 DEF Command, LineRejected, Query, Heartbeat, Status, StatusEndsRecovery, TorqueOffAll,
                Stop, Reset, Family, TorqueOffOne, LeaseStep, LeasePreflightFails,
                LeaseModeOrGoalFails, LeaseEnableFails, TorqueLease, LeaseFrame, Capture, MultiTurn,
                HoldSetStep, HoldCaptureFails, HoldEnableFails, HoldAuthorityFails, HoldSet,
                HoldReady, HoldSetFrame, MoveSetFails, FollowSetFails, FollowRead, Scan,
                ScanOverCapacity, Served
  <2>. QED BY <2>1 DEF CommandFrame, Started
<1>. QED BY <1>1, <1>2, <1>3, <1>4 DEF Next

-----------------------------------------------------------------------------
(* Chains.  Firm: nothing a hold or a lease relies on was disturbed.        *)
(* Quiet: no authority is left, so any helper may follow.                   *)

Firm(c, m) == Keeps(c, m) /\ Stands(c, m)

Quiet(c, m) == Keeps(c, m) /\ Bare(m)

(* A quiet state disturbs nothing either. *)
LEMMA QuietFirm ==
  ASSUME NEW c, NEW m, Quiet(c, m)
  PROVE  Firm(c, m)
BY BareStands DEF Quiet, Firm

(* One more helper after a state without authority. *)
LEMMA QuietChain ==
  ASSUME NEW c, NEW m, Quiet(c, m)
  PROVE  /\ Quiet(c, Fault(m)) /\ Quiet(c, Revoke(m)) /\ Quiet(c, DropGoals(Revoke(m)))
         /\ \A b \in BOOLEAN : Quiet(c, [m EXCEPT !.safetyFault = b])
         /\ \A S \in SUBSET Servos : Quiet(c, Owe(m, S))
         /\ \A n \in Broadcasts(m) : Quiet(c, n)
         /\ \A n \in Resolves(m) : Quiet(c, n)
         /\ \A S \in SUBSET Servos : \A n \in TorqueOffs(m, S) : Quiet(c, n)
         /\ \A S \in SUBSET Servos : \A n \in ConfirmAlls(m, S) : Quiet(c, n)
         /\ \A S \in SUBSET Servos : \A n \in Refreshes(m, S) : Quiet(c, n)
<1>1. Keeps(m, m) BY DEF Quiet, Keeps
<1>2. \A n : Keeps(m, n) => Quiet(c, n)
  BY StaysBare, KeepsTransitive DEF Quiet
<1>. QED BY <1>1, <1>2, Chain

(* One more helper after a state that stands. *)
LEMMA FirmChain ==
  ASSUME NEW c, NEW m, Firm(c, m)
  PROVE  /\ Firm(c, Fault(m)) /\ Quiet(c, Revoke(m)) /\ Quiet(c, DropGoals(Revoke(m)))
         /\ \A b \in BOOLEAN : Firm(c, [m EXCEPT !.safetyFault = b])
         /\ \A S \in SUBSET Servos : Firm(c, Owe(m, S))
         /\ \A n \in Resolves(m) : Quiet(c, n)
         /\ \A S \in SUBSET Servos : \A n \in TorqueOffs(m, S) :
              S \cap m.holdSet = {} => Firm(c, n)
         /\ \A S \in SUBSET Servos : \A n \in ConfirmAlls(m, S) : Firm(c, n)
         /\ \A S \in SUBSET Servos : \A n \in Refreshes(m, S) : Firm(c, n)
<1>1. Keeps(c, m) /\ Stands(c, m) /\ Safe(m) BY DEF Firm, Keeps
<1>2. \A n \in Resolves(m) : Bare(n) BY <1>1, ResolvesBare
<1>. QED BY <1>1, <1>2, Chain, Link DEF Firm, Quiet

(* Releasing one joint, then turning it off. *)
LEMMA ReleasedFirm ==
  ASSUME IInv, NEW id \in Servos, NEW n \in TorqueOffs(Release(Current, id), {id})
  PROVE  Firm(Current, n) /\ id \notin n.holdSet
<1>. DEFINE r == Release(Current, id)
<1>1. Safe(r) /\ Stands(Current, r) /\ Keeps(Current, r) /\ id \notin r.holdSet
  BY CurrentSafe, SettledStands, ReleaseKeeps DEF Keeps
<1>2. Stands(r, n) BY <1>1, TorqueOffsStand
<1>3. Keeps(Current, n) BY <1>1, Chain
<1>. QED BY <1>1, <1>2, <1>3, StandsTransitive DEF Firm, Stands

-----------------------------------------------------------------------------
(* What every step does: a new lease is alone, a held joint keeps torque.   *)

Steady == NewLeaseIsAlone /\ HeldStaysEnergised

(* A handler that ends in a state that stands. *)
LEMMA StandStep ==
  ASSUME IInv, NEW m, Stands(Current, m), Becomes(m)
  PROVE  Steady
<1>1. lease' \in {lease, NoServo} /\ holdSet' \subseteq holdSet
      /\ energised \cap holdSet' \subseteq energised'
  BY DEF Stands, Current, Becomes
<1>. QED BY <1>1 DEF Steady, NewLeaseIsAlone, HeldStaysEnergised

(* The same along a chain that also keeps the inductive invariant. *)
LEMMA FirmStep ==
  ASSUME IInv, NEW m, Firm(Current, m) \/ Quiet(Current, m), Becomes(m)
  PROVE  Steady
BY StandStep, QuietFirm DEF Firm

(* A step that leaves the supervision state alone. *)
LEMMA IdleSteady ==
  ASSUME UNCHANGED machine
  PROVE  Steady
BY DEF machine, Steady, NewLeaseIsAlone, HeldStaysEnergised

(* The state a handler starts from. *)
LEMMA CurrentFirm ==
  ASSUME IInv
  PROVE  /\ Firm(Current, Current)
         /\ stopped => Quiet(Current, Current)
         /\ tracked \in SUBSET Servos
BY CurrentSafe, FlagsStand DEF Firm, Quiet, IInv, RestOK

-----------------------------------------------------------------------------
(* The environment and tick().                                              *)

(* Timers, reboots, and a servo that drops its own torque. *)
LEMMA EnvironmentSteady == IInv /\ Environment => Steady
<1>. SUFFICES ASSUME IInv, Environment PROVE Steady OBVIOUS
<1>1. CASE HeartbeatExpires \/ LeaseElapses \/ HoldElapses
  BY <1>1, IdleSteady DEF HeartbeatExpires, LeaseElapses, HoldElapses
<1>2. CASE RetryFallsDue
  BY <1>2 DEF RetryFallsDue, Becomes, Current, Steady, NewLeaseIsAlone, HeldStaysEnergised
<1>3. CASE Reboot
  BY <1>3 DEF Reboot, ColdRam, Steady, NewLeaseIsAlone, HeldStaysEnergised
<1>4. ASSUME NEW s \in Servos, ServoDrops(s) PROVE Steady
  <2>1. lease' = lease /\ energised' = energised \ {s}
    BY <1>4 DEF ServoDrops, Becomes, Current
  <2>. QED BY <1>4, <2>1 DEF Steady, NewLeaseIsAlone, HeldStaysEnergised
<1>. QED BY <1>1, <1>2, <1>3, <1>4 DEF Environment

(* The first tick broadcasts before anything is held. *)
LEMMA TickBootSteady == LInv /\ TickBoot => Steady
<1>. SUFFICES ASSUME LInv, TickBoot PROVE Steady OBVIOUS
<1>1. IInv /\ Bare(Current)
  BY DEF LInv, Started, TickBoot, Bare, Current
<1>2. Quiet(Current, Current) BY <1>1, CurrentFirm DEF Quiet, Firm
<1>3. PICK m \in Broadcasts(Current), sent \in BOOLEAN :
        Becomes([m EXCEPT !.safetyFault = ~sent])
  BY DEF TickBoot
<1>4. Quiet(Current, m) BY <1>2, <1>3, QuietChain
<1>5. Quiet(Current, [m EXCEPT !.safetyFault = ~sent])
  BY <1>4, QuietChain
<1>. QED BY <1>1, <1>3, <1>5, FirmStep

(* A bad sample is tolerated, or everything is revoked before any write.    *)
LEMMA TickSupervisionBadSteady == IInv /\ TickSupervisionBad => Steady
<1>. SUFFICES ASSUME IInv, TickSupervisionBad PROVE Steady OBVIOUS
<1>1. PICK id \in Authorised(Current) : \E m \in Refreshes(Current, {id}) :
        \/ Becomes(m)
        \/ \E a \in Broadcasts(Fault(DropGoals(Revoke(Owe(m, {id}))))) :
           \E b \in Resolves(a) : \E c \in ConfirmAlls(b, tracked) : Becomes(Fault(c))
  BY DEF TickSupervisionBad
<1>2. {id} \in SUBSET Servos
  BY CurrentSafe DEF Authorised, Safe, Machine
<1>3. PICK m \in Refreshes(Current, {id}) :
        \/ Becomes(m)
        \/ \E a \in Broadcasts(Fault(DropGoals(Revoke(Owe(m, {id}))))) :
           \E b \in Resolves(a) : \E c \in ConfirmAlls(b, tracked) : Becomes(Fault(c))
  BY <1>1
<1>4. Firm(Current, m) BY <1>2, <1>3, CurrentFirm, FirmChain
<1>5. CASE Becomes(m) BY <1>4, <1>5, FirmStep
<1>6. ASSUME NEW a \in Broadcasts(Fault(DropGoals(Revoke(Owe(m, {id}))))),
             NEW b \in Resolves(a), NEW c \in ConfirmAlls(b, tracked), Becomes(Fault(c))
      PROVE  Steady
  <2>1. Firm(Current, Owe(m, {id})) BY <1>2, <1>4, FirmChain
  <2>2. Quiet(Current, DropGoals(Revoke(Owe(m, {id})))) BY <2>1, FirmChain
  <2>3. Quiet(Current, Fault(DropGoals(Revoke(Owe(m, {id}))))) BY <2>2, QuietChain
  <2>4. Quiet(Current, a) BY <2>3, QuietChain
  <2>5. Quiet(Current, b) BY <2>4, QuietChain
  <2>6. Quiet(Current, c) BY <2>5, QuietChain, CurrentFirm
  <2>7. Quiet(Current, Fault(c)) BY <2>6, QuietChain
  <2>. QED BY <1>6, <2>7, FirmStep
<1>. QED BY <1>3, <1>5, <1>6

(* A servo whose obligation no live authority covers is not held. *)
LEMMA UnauthorisedNotHeld ==
  ASSUME NEW m, Safe(m), stopped => Bare(m), holdOver => m.holdSet = {}
  PROVE  Unauthorised(m) \in SUBSET Servos /\ Unauthorised(m) \cap m.holdSet = {}
BY DEF Unauthorised, Authorised, Safe, Bare, Machine

(* Lapsed authority is dropped; only unauthorised servos are turned off. *)
LEMMA TickLeaseExpiredSteady == IInv /\ TickLeaseExpired => Steady
<1>. SUFFICES ASSUME IInv, TickLeaseExpired PROVE Steady OBVIOUS
<1>. DEFINE m == [Current EXCEPT !.lease = IF leaseOver THEN NoServo ELSE @,
                                 !.holdSet = IF holdOver THEN {} ELSE @]
            U == Unauthorised(m)
<1>1. Keeps(Current, m) BY CurrentSafe, LapseKeeps
<1>2. Firm(Current, m) /\ (holdOver => m.holdSet = {})
  BY <1>1, CurrentSafe DEF Firm, Stands, Safe, Machine
<1>3. stopped => Bare(m) BY <1>1 DEF Keeps, IInv
<1>4. \/ \E n \in TorqueOffs(m, U) :
           Becomes([n EXCEPT !.safetyFault = FALSE, !.holdGoals =
                      IF n.holdSet = {} THEN {} ELSE @])
      \/ \E id \in U : \E done \in SUBSET (U \ {id}) :
         \E n \in TorqueOffs(m, done \cup {id}) :
         \E r \in Resolves(DropGoals(Revoke(n))) : Becomes(Fault(r))
  BY DEF TickLeaseExpired
<1>. HIDE DEF m
<1>5. U \in SUBSET Servos /\ U \cap m.holdSet = {}
  BY <1>1, <1>2, <1>3, UnauthorisedNotHeld DEF Keeps
<1>. HIDE DEF U
<1>6. ASSUME NEW n \in TorqueOffs(m, U),
             Becomes([n EXCEPT !.safetyFault = FALSE, !.holdGoals =
                        IF n.holdSet = {} THEN {} ELSE @])
      PROVE  Steady
  <2>. DEFINE o == [n EXCEPT !.safetyFault = FALSE, !.holdGoals =
                      IF n.holdSet = {} THEN {} ELSE @]
  <2>1. Firm(Current, n) BY <1>2, <1>5, FirmChain
  <2>2. Stands(Current, o) BY <2>1 DEF Firm, Keeps, Safe, Stands, Machine
  <2>. QED BY <1>6, <2>2, StandStep
<1>7. ASSUME NEW id \in U, NEW done \in SUBSET (U \ {id}), NEW n \in TorqueOffs(m, done \cup {id}),
             NEW r \in Resolves(DropGoals(Revoke(n))), Becomes(Fault(r))
      PROVE  Steady
  <2>1. done \cup {id} \in SUBSET Servos /\ (done \cup {id}) \cap m.holdSet = {}
    BY <1>5
  <2>2. Firm(Current, n) BY <1>2, <2>1, FirmChain
  <2>3. Quiet(Current, DropGoals(Revoke(n))) BY <2>2, FirmChain
  <2>4. Quiet(Current, r) BY <2>3, QuietChain
  <2>5. Quiet(Current, Fault(r)) BY <2>4, QuietChain
  <2>. QED BY <1>7, <2>5, FirmStep
<1>. QED BY <1>4, <1>6, <1>7

(* A silent host: everything is revoked before the broadcast. *)
LEMMA TickWatchdogSteady == IInv /\ TickWatchdog => Steady
<1>. SUFFICES ASSUME IInv, TickWatchdog PROVE Steady OBVIOUS
<1>1. PICK m \in Broadcasts(DropGoals(Revoke(Current))) :
        \E bit \in BOOLEAN :
          \/ Becomes([m EXCEPT !.safetyFault = bit])
          \/ \E id \in pending : \E n \in TorqueOffs(m, {id}) :
             \E c \in ConfirmAlls(n, tracked) : Becomes([c EXCEPT !.safetyFault = bit])
  <2>1. PICK sent \in BOOLEAN, m \in Broadcasts(DropGoals(Revoke(Current))) :
          \/ Becomes([m EXCEPT !.safetyFault = ~sent])
          \/ \E id \in pending : \E n \in TorqueOffs(m, {id}) :
             \E c \in ConfirmAlls(n, tracked) :
               Becomes([c EXCEPT !.safetyFault =
                 ~(sent /\ id \notin n.pending /\ Proven(c, tracked))])
    BY DEF TickWatchdog
  <2>2. CASE Becomes([m EXCEPT !.safetyFault = ~sent])
    <3>1. (~sent) = TRUE \/ (~sent) = FALSE OBVIOUS
    <3>. QED BY <2>2, <3>1
  <2>3. ASSUME NEW id \in pending, NEW n \in TorqueOffs(m, {id}),
               NEW c \in ConfirmAlls(n, tracked),
               Becomes([c EXCEPT !.safetyFault =
                 ~(sent /\ id \notin n.pending /\ Proven(c, tracked))])
        PROVE  \E bit \in BOOLEAN : Becomes([c EXCEPT !.safetyFault = bit])
    <3>. DEFINE bit == ~(sent /\ id \notin n.pending /\ Proven(c, tracked))
    <3>1. bit \in BOOLEAN OBVIOUS
    <3>2. Becomes([c EXCEPT !.safetyFault = bit]) BY <2>3
    <3>. HIDE DEF bit
    <3>. QED BY <3>1, <3>2
  <2>. QED BY <2>1, <2>2, <2>3
<1>2. Quiet(Current, m)
  <2>1. Quiet(Current, DropGoals(Revoke(Current))) BY CurrentFirm, FirmChain
  <2>. QED BY <1>1, <2>1, QuietChain
<1>3. ASSUME NEW bit \in BOOLEAN, Becomes([m EXCEPT !.safetyFault = bit]) PROVE Steady
  <2>1. Quiet(Current, [m EXCEPT !.safetyFault = bit]) BY <1>2, QuietChain
  <2>. QED BY <1>3, <2>1, FirmStep
<1>4. ASSUME NEW bit \in BOOLEAN, NEW id \in pending, NEW n \in TorqueOffs(m, {id}),
             NEW c \in ConfirmAlls(n, tracked), Becomes([c EXCEPT !.safetyFault = bit])
      PROVE  Steady
  <2>1. {id} \in SUBSET Servos BY CurrentSafe DEF Safe, Machine, Current
  <2>2. Quiet(Current, n) BY <1>2, <2>1, QuietChain
  <2>3. Quiet(Current, c) BY <2>2, QuietChain, CurrentFirm
  <2>4. Quiet(Current, [c EXCEPT !.safetyFault = bit]) BY <2>3, QuietChain
  <2>. QED BY <1>4, <2>4, FirmStep
<1>. QED BY <1>1, <1>3, <1>4

(* A retry addresses a servo no live authority covers; nothing has lapsed,  *)
(* so it is not a held one.                                                 *)
LEMMA TickRetrySteady == IInv /\ TickRetry => Steady
<1>. SUFFICES ASSUME IInv, TickRetry PROVE Steady OBVIOUS
<1>1. CASE ~retryDue BY <1>1, IdleSteady DEF TickRetry
<1>2. CASE retryDue
  <2>1. PICK id \in Unauthorised(Current) : \E n \in TorqueOffs(Current, {id}) :
          Becomes([(IF id \in n.pending THEN Revoke(n) ELSE n)
                     EXCEPT !.safetyFault = n.pending # {}])
    BY <1>2 DEF TickRetry
  <2>2. PICK n \in TorqueOffs(Current, {id}) :
          Becomes([(IF id \in n.pending THEN Revoke(n) ELSE n)
                     EXCEPT !.safetyFault = n.pending # {}])
    BY <2>1
  <2>3. holdOver => Current.holdSet = {}
    BY DEF TickRetry, Event, Lapsed, Current
  <2>4. {id} \in SUBSET Servos /\ {id} \cap Current.holdSet = {}
    BY <2>3, UnauthorisedNotHeld DEF IInv
  <2>5. Firm(Current, n) BY <2>4, CurrentFirm, FirmChain
  <2>. DEFINE bit == n.pending # {}
              o == IF id \in n.pending THEN Revoke(n) ELSE n
  <2>6. bit \in BOOLEAN OBVIOUS
  <2>7. Firm(Current, o) BY <2>5, FirmChain, QuietFirm
  <2>8. Becomes([o EXCEPT !.safetyFault = bit]) BY <2>2
  <2>. HIDE DEF bit, o
  <2>9. Firm(Current, [o EXCEPT !.safetyFault = bit]) BY <2>6, <2>7, FirmChain
  <2>. QED BY <2>8, <2>9, FirmStep
<1>. QED BY <1>1, <1>2

(* Every tick. *)
LEMMA TickSteady == LInv /\ Tick => Steady
<1>1. TickQuiet => Steady BY IdleSteady DEF TickQuiet
<1>. QED BY <1>1, TickBootSteady, TickSupervisionBadSteady, TickLeaseExpiredSteady,
            TickWatchdogSteady, TickRetrySteady DEF Tick, LInv

-----------------------------------------------------------------------------
(* Commands.                                                                *)

(* Commands that leave torque and authority alone. *)
LEMMA IdleCommandsSteady ==
  ASSUME LineRejected \/ Query \/ Heartbeat \/ \E id \in Servos : Family(id)
  PROVE  Steady
BY IdleSteady DEF LineRejected, Query, Heartbeat, Family

(* STATUS. *)
LEMMA StatusSteady == IInv /\ (Status \/ StatusEndsRecovery) => Steady
<1>. SUFFICES ASSUME IInv, Status \/ StatusEndsRecovery PROVE Steady OBVIOUS
<1>1. CASE Status
  <2>1. PICK m \in Refreshes(Current, tracked) : Becomes(m) BY <1>1 DEF Status
  <2>2. Firm(Current, m) BY <2>1, CurrentFirm, FirmChain
  <2>. QED BY <2>1, <2>2, FirmStep
<1>2. CASE StatusEndsRecovery
  <2>. DEFINE m == Confirmed(Current, tracked)
  <2>1. Becomes([m EXCEPT !.safetyFault = FALSE]) BY <1>2 DEF StatusEndsRecovery
  <2>2. tracked \cap Current.energised = {} BY <1>2 DEF StatusEndsRecovery, Current
  <2>3. Firm(Current, m)
    BY <2>2, CurrentSafe, CurrentFirm, ConfirmedKeeps, SettledStands DEF Firm
  <2>. HIDE DEF m
  <2>4. Firm(Current, [m EXCEPT !.safetyFault = FALSE]) BY <2>3, FirmChain
  <2>. QED BY <2>1, <2>4, FirmStep
<1>. QED BY <1>1, <1>2

(* STOP, RESET and TORQUE_OFF ALL close every authority first. *)
LEMMA AllOffSteady == IInv /\ (Stop \/ Reset \/ TorqueOffAll) => Steady
<1>. SUFFICES ASSUME IInv, Stop \/ Reset \/ TorqueOffAll PROVE Steady OBVIOUS
<1>. DEFINE r == DropGoals(Revoke(Current))
<1>1. ASSUME NEW b, Quiet(Current, b), NEW c \in ConfirmAlls(b, tracked), NEW bit \in BOOLEAN,
             \/ Becomes(Fault(c)) \/ Becomes([c EXCEPT !.safetyFault = bit])
             \/ Becomes([Revoke(c) EXCEPT !.safetyFault = FALSE]) \/ Becomes(Fault(Revoke(c)))
      PROVE  Steady
  <2>1. Quiet(Current, c) BY <1>1, QuietChain, CurrentFirm
  <2>2. Quiet(Current, Fault(c)) /\ Quiet(Current, Revoke(c))
        /\ Quiet(Current, [c EXCEPT !.safetyFault = bit])
    BY <2>1, QuietChain
  <2>3. Quiet(Current, [Revoke(c) EXCEPT !.safetyFault = FALSE])
        /\ Quiet(Current, Fault(Revoke(c)))
    BY <2>2, QuietChain
  <2>. QED BY <1>1, <2>2, <2>3, FirmStep
<1>2. \A a \in Resolves(Current) : \A b \in Broadcasts(a) : Quiet(Current, b)
  <2>1. \A a \in Resolves(Current) : Quiet(Current, a) BY CurrentFirm, FirmChain
  <2>. QED BY <2>1, QuietChain
<1>3. CASE Reset \/ TorqueOffAll
  <2>1. \E a \in Resolves(Current) : \E b \in Broadcasts(a) : \E c \in ConfirmAlls(b, tracked) :
          \/ Becomes(Fault(c)) \/ Becomes([c EXCEPT !.safetyFault = FALSE])
          \/ Becomes([Revoke(c) EXCEPT !.safetyFault = FALSE]) \/ Becomes(Fault(Revoke(c)))
    BY <1>3 DEF Reset, TorqueOffAll
  <2>. QED BY <1>1, <1>2, <2>1
<1>4. CASE Stop
  <2>1. PICK a \in Broadcasts(r) : \E b \in Resolves(a) : \E c \in ConfirmAlls(b, tracked) :
          Becomes([c EXCEPT !.safetyFault = ~(b.pending = {} /\ Proven(c, tracked))])
    BY <1>4 DEF Stop
  <2>2. PICK b \in Resolves(a) : \E c \in ConfirmAlls(b, tracked) :
          Becomes([c EXCEPT !.safetyFault = ~(b.pending = {} /\ Proven(c, tracked))])
    BY <2>1
  <2>3. PICK c \in ConfirmAlls(b, tracked) :
          Becomes([c EXCEPT !.safetyFault = ~(b.pending = {} /\ Proven(c, tracked))])
    BY <2>2
  <2>4. Quiet(Current, r) BY CurrentFirm, FirmChain
  <2>5. Quiet(Current, a) BY <2>1, <2>4, QuietChain
  <2>6. Quiet(Current, b) BY <2>2, <2>5, QuietChain
  <2>. DEFINE bit == ~(b.pending = {} /\ Proven(c, tracked))
  <2>7. bit \in BOOLEAN /\ Becomes([c EXCEPT !.safetyFault = bit]) BY <2>3
  <2>. HIDE DEF bit
  <2>. QED BY <1>1, <2>6, <2>7
<1>. QED BY <1>3, <1>4

(* SCAN: both passes run after every authority is closed. *)
LEMMA SweptQuiet ==
  ASSUME IInv, NEW found \in SUBSET Servos, NEW clean \in BOOLEAN,
         NEW c \in Swept(found, clean)
  PROVE  Quiet(Current, c)
<1>. DEFINE first == {a \in Resolves(Current) : clean => a.pending = {}}
            sent == UNION {Broadcasts(a) : a \in first}
            pinged == {Owe(b, found) : b \in sent}
<1>1. c \in UNION {Resolves(b) : b \in pinged} BY DEF Swept
<1>2. PICK p \in pinged : c \in Resolves(p) BY <1>1
<1>3. PICK b \in sent : p = Owe(b, found) BY <1>2
<1>4. PICK a \in Resolves(Current) : b \in Broadcasts(a) BY <1>3
<1>5. Quiet(Current, a) BY CurrentFirm, FirmChain
<1>6. Quiet(Current, b) BY <1>4, <1>5, QuietChain
<1>7. Quiet(Current, p) BY <1>3, <1>6, QuietChain
<1>. QED BY <1>2, <1>7, QuietChain

(* SCAN within the capacity of the inventory. *)
LEMMA ScanSteady ==
  ASSUME IInv, NEW range \in SUBSET Servos, NEW found \in SUBSET Servos,
         Scan(range, found)
  PROVE  Steady
<1>1. \/ \E clean \in BOOLEAN : \E c \in Swept(found, clean) : \E bit \in BOOLEAN :
           /\ found \cap c.energised = {}
           /\ Becomes([Confirmed(c, found) EXCEPT !.safetyFault = bit])
      \/ \E c \in Swept(found, FALSE) : \E d \in Refreshes(c, found) : Becomes(Fault(d))
  BY DEF Scan
<1>2. ASSUME NEW clean \in BOOLEAN, NEW c \in Swept(found, clean), NEW bit \in BOOLEAN,
             found \cap c.energised = {},
             Becomes([Confirmed(c, found) EXCEPT !.safetyFault = bit])
      PROVE  Steady
  <2>1. Quiet(Current, c) BY SweptQuiet
  <2>2. Keeps(c, Confirmed(c, found)) BY <1>2, <2>1, ConfirmedKeeps DEF Quiet, Keeps
  <2>3. Quiet(Current, Confirmed(c, found)) BY <2>1, <2>2, KeepsTransitive, StaysBare DEF Quiet
  <2>4. Quiet(Current, [Confirmed(c, found) EXCEPT !.safetyFault = bit]) BY <2>3, QuietChain
  <2>. QED BY <1>2, <2>4, FirmStep
<1>3. ASSUME NEW c \in Swept(found, FALSE), NEW d \in Refreshes(c, found), Becomes(Fault(d))
      PROVE  Steady
  <2>1. Quiet(Current, c) BY SweptQuiet
  <2>2. Quiet(Current, d) BY <2>1, QuietChain
  <2>3. Quiet(Current, Fault(d)) BY <2>2, QuietChain
  <2>. QED BY <1>3, <2>3, FirmStep
<1>. QED BY <1>1, <1>2, <1>3

(* SCAN that finds more servos than can be tracked. *)
LEMMA ScanOverCapacitySteady ==
  ASSUME IInv, NEW range \in SUBSET Servos, NEW found \in SUBSET Servos,
         ScanOverCapacity(range, found)
  PROVE  Steady
<1>1. PICK a \in Resolves(Current) : \E b \in Broadcasts(a) :
        \E c \in {Fault(Revoke(Owe(b, found)))} \cup Resolves(Owe(b, found)) :
          Becomes(c) \/ Becomes(Fault(c))
  BY DEF ScanOverCapacity
<1>2. PICK b \in Broadcasts(a) :
        \E c \in {Fault(Revoke(Owe(b, found)))} \cup Resolves(Owe(b, found)) :
          Becomes(c) \/ Becomes(Fault(c))
  BY <1>1
<1>3. PICK c \in {Fault(Revoke(Owe(b, found)))} \cup Resolves(Owe(b, found)) :
          Becomes(c) \/ Becomes(Fault(c))
  BY <1>2
<1>4. Quiet(Current, a) BY CurrentFirm, FirmChain
<1>5. Quiet(Current, b) BY <1>4, QuietChain
<1>6. Quiet(Current, Owe(b, found)) BY <1>5, QuietChain
<1>7. Quiet(Current, Revoke(Owe(b, found))) BY <1>6, QuietChain
<1>8. Quiet(Current, c) BY <1>3, <1>6, <1>7, QuietChain
<1>9. Quiet(Current, Fault(c)) BY <1>8, QuietChain
<1>. QED BY <1>3, <1>8, <1>9, FirmStep

(* TORQUE_OFF, CAPTURE and MULTITURN of one joint: it leaves the hold first.*)
LEMMA OneJointSteady ==
  ASSUME IInv, NEW id \in Servos, TorqueOffOne(id) \/ Capture(id) \/ MultiTurn(id)
  PROVE  Steady
<1>0. WasRecovering \in BOOLEAN BY DEF WasRecovering
<1>1. PICK n \in TorqueOffs(Release(Current, id), {id}) :
        \/ Becomes(n)
        \/ \E bit \in BOOLEAN : Becomes([n EXCEPT !.safetyFault = bit])
        \/ \E m \in {n} \cup Refreshes(n, {id}) : Becomes(Fault(DropGoals(Revoke(m))))
        \/ \E m \in Refreshes(n, {id}) : \E r \in TorqueOffs(m, {id}) :
             Becomes(r) \/ Becomes(Fault(DropGoals(Revoke(r))))
  <2>1. CASE TorqueOffOne(id)
    <3>1. \E n \in TorqueOffs(Release(Current, id), {id}) :
            \/ Becomes([n EXCEPT !.safetyFault = WasRecovering])
            \/ \E m \in {n} \cup Refreshes(n, {id}) : Becomes(Fault(DropGoals(Revoke(m))))
      BY <2>1 DEF TorqueOffOne
    <3>. QED BY <1>0, <3>1
  <2>2. CASE Capture(id)
    <3>1. \E n \in TorqueOffs(Release(Current, id), {id}) :
            \/ Becomes(Fault(DropGoals(Revoke(n))))
            \/ Becomes([n EXCEPT !.safetyFault = WasRecovering])
            \/ Becomes(n)
            \/ \E m \in Refreshes(n, {id}) : \E r \in TorqueOffs(m, {id}) :
                 Becomes(r) \/ Becomes(Fault(DropGoals(Revoke(r))))
      BY <2>2 DEF Capture
    <3>. QED BY <1>0, <3>1
  <2>3. CASE MultiTurn(id) BY <2>3 DEF MultiTurn
  <2>. QED BY <2>1, <2>2, <2>3
<1>2. Firm(Current, n) /\ id \notin n.holdSet BY ReleasedFirm
<1>3. CASE Becomes(n) BY <1>2, <1>3, FirmStep
<1>4. ASSUME NEW bit \in BOOLEAN, Becomes([n EXCEPT !.safetyFault = bit]) PROVE Steady
  <2>1. Firm(Current, [n EXCEPT !.safetyFault = bit]) BY <1>2, FirmChain
  <2>. QED BY <1>4, <2>1, FirmStep
<1>5. ASSUME NEW m \in {n} \cup Refreshes(n, {id}), Becomes(Fault(DropGoals(Revoke(m))))
      PROVE  Steady
  <2>1. Firm(Current, m) BY <1>2, FirmChain
  <2>2. Quiet(Current, DropGoals(Revoke(m))) BY <2>1, FirmChain
  <2>3. Quiet(Current, Fault(DropGoals(Revoke(m)))) BY <2>2, QuietChain
  <2>. QED BY <1>5, <2>3, FirmStep
<1>6. ASSUME NEW m \in Refreshes(n, {id}), NEW r \in TorqueOffs(m, {id}),
             Becomes(r) \/ Becomes(Fault(DropGoals(Revoke(r))))
      PROVE  Steady
  <2>1. Firm(Current, m) BY <1>2, FirmChain
  <2>2. {id} \cap m.holdSet = {}
    <3>1. Stands(n, m) BY <1>2, RefreshesStand DEF Firm, Keeps
    <3>. QED BY <1>2, <3>1 DEF Stands
  <2>3. Firm(Current, r) BY <2>1, <2>2, FirmChain
  <2>4. Quiet(Current, DropGoals(Revoke(r))) BY <2>3, FirmChain
  <2>5. Quiet(Current, Fault(DropGoals(Revoke(r)))) BY <2>4, QuietChain
  <2>. QED BY <1>6, <2>3, <2>5, FirmStep
<1>. QED BY <1>1, <1>3, <1>4, <1>5, <1>6

(* MOVE_SET and FOLLOW_SET: failing closed revokes before it turns off. *)
LEMMA GroupMotionSteady ==
  ASSUME IInv, NEW S \in SUBSET Servos,
         MoveSetFails(S) \/ FollowSetFails(S) \/ FollowRead(S)
  PROVE  Steady
<1>2. PICK m \in {Current} \cup Refreshes(Current, S) :
        Becomes(m) \/ \E n \in FailClosed(m, S) : Becomes(Fault(n))
  BY DEF MoveSetFails, FollowSetFails, FollowRead
<1>3. Firm(Current, m) BY <1>2, CurrentFirm, FirmChain
<1>4. CASE Becomes(m) BY <1>3, <1>4, FirmStep
<1>5. ASSUME NEW n \in FailClosed(m, S), Becomes(Fault(n)) PROVE Steady
  <2>1. PICK b \in Broadcasts(DropGoals(Revoke(m))) : n \in TorqueOffs(b, S)
    BY DEF FailClosed
  <2>2. Quiet(Current, DropGoals(Revoke(m))) BY <1>3, FirmChain
  <2>3. Quiet(Current, b) BY <2>1, <2>2, QuietChain
  <2>4. Quiet(Current, n) BY <2>1, <2>3, QuietChain
  <2>5. Quiet(Current, Fault(n)) BY <2>4, QuietChain
  <2>. QED BY <1>5, <2>5, FirmStep
<1>. QED BY <1>2, <1>4, <1>5

-----------------------------------------------------------------------------
(* TORQUE_LEASE.                                                            *)

(* An inventory whose read-back left nothing pending is physically off. *)
LEMMA ConfirmedAllOff ==
  ASSUME NEW b, Safe(b), NEW T \in SUBSET Servos, NEW c \in ConfirmAlls(b, T), c.pending = {}
  PROVE  T \cap c.energised = {}
<1>1. PICK heard \in SUBSET T : c = Confirmed(Owe(b, T), heard \ b.energised)
  BY DEF ConfirmAlls
<1>2. /\ c.pending = (b.pending \cup T) \ (heard \ b.energised)
      /\ c.energised = b.energised
  BY <1>1 DEF Confirmed, Owe, Safe, Machine
<1>. QED BY <1>2

(* The proof a lease starts from: no authority, and the inventory off. *)
LEMMA AllOffForQuiet ==
  ASSUME IInv, NEW id \in Servos, NEW T \in SUBSET Servos, NEW d \in AllOffFor(id, T)
  PROVE  Quiet(Current, d) /\ d.pending = {} /\ id \in T /\ T \cap d.energised = {}
<1>. DEFINE as == {r \in Resolves(Current) : r.pending = {}}
            bs == UNION {Broadcasts(a) : a \in as}
            cs == {e \in UNION {ConfirmAlls(b, T) : b \in bs} : e.pending = {}}
<1>1. d \in UNION {TorqueOffs(c, {id}) : c \in cs} /\ d.pending = {} /\ id \in T
  BY DEF AllOffFor
<1>2. PICK c \in cs : d \in TorqueOffs(c, {id}) BY <1>1
<1>3. PICK b \in bs : c \in ConfirmAlls(b, T) /\ c.pending = {} BY <1>2
<1>4. PICK a \in as : b \in Broadcasts(a) BY <1>3
<1>5. Quiet(Current, a) BY <1>4, CurrentFirm, FirmChain
<1>6. Quiet(Current, b) BY <1>4, <1>5, QuietChain
<1>7. Quiet(Current, c) BY <1>3, <1>6, QuietChain
<1>8. T \cap c.energised = {} BY <1>3, <1>6, ConfirmedAllOff DEF Quiet, Keeps
<1>9. Keeps(c, d) BY <1>2, <1>7, TorqueOffsKeep DEF Quiet, Keeps
<1>10. T \cap d.energised = {} BY <1>8, <1>9 DEF Keeps
<1>. QED BY <1>1, <1>2, <1>7, <1>10, QuietChain

(* A lease whose off proof stays incomplete. *)
LEMMA LeasePreflightFailsSteady ==
  ASSUME IInv, NEW id \in Servos, LeasePreflightFails(id), tracked' \in SUBSET Servos
  PROVE  Steady
<1>1. PICK a \in Resolves(Current) :
        \/ Becomes(a)
        \/ \E b \in Broadcasts(a) : \E c \in ConfirmAlls(b, tracked') :
           \E d \in TorqueOffs(c, {id}) : \E e \in {d} \cup Refreshes(d, {id}) :
             Becomes(Fault(Revoke(e)))
  BY DEF LeasePreflightFails
<1>2. Quiet(Current, a) BY CurrentFirm, FirmChain
<1>3. CASE Becomes(a) BY <1>2, <1>3, FirmStep
<1>4. ASSUME NEW b \in Broadcasts(a), NEW c \in ConfirmAlls(b, tracked'),
             NEW d \in TorqueOffs(c, {id}), NEW e \in {d} \cup Refreshes(d, {id}),
             Becomes(Fault(Revoke(e)))
      PROVE  Steady
  <2>1. Quiet(Current, b) BY <1>2, QuietChain
  <2>2. Quiet(Current, c) BY <2>1, QuietChain
  <2>3. Quiet(Current, d) BY <2>2, QuietChain
  <2>4. Quiet(Current, e) BY <2>3, QuietChain
  <2>5. Quiet(Current, Revoke(e)) BY <2>4, QuietChain
  <2>6. Quiet(Current, Fault(Revoke(e))) BY <2>5, QuietChain
  <2>. QED BY <1>4, <2>6, FirmStep
<1>. QED BY <1>1, <1>3, <1>4

(* A lease that fails between the proof and the enable. *)
LEMMA LeaseModeOrGoalFailsSteady ==
  ASSUME IInv, NEW id \in Servos, LeaseModeOrGoalFails(id), tracked' \in SUBSET Servos
  PROVE  Steady
<1>1. PICK d \in AllOffFor(id, tracked') : \E e \in TorqueOffs(d, {id}) :
        Becomes(Fault(Revoke(e))) \/ Becomes(e)
  BY DEF LeaseModeOrGoalFails
<1>2. PICK e \in TorqueOffs(d, {id}) : Becomes(Fault(Revoke(e))) \/ Becomes(e)
  BY <1>1
<1>3. Quiet(Current, d) BY <1>1, AllOffForQuiet
<1>4. Quiet(Current, e) BY <1>3, QuietChain
<1>5. Quiet(Current, Revoke(e)) BY <1>4, QuietChain
<1>6. Quiet(Current, Fault(Revoke(e))) BY <1>5, QuietChain
<1>. QED BY <1>2, <1>4, <1>6, FirmStep

(* A failed enable is rolled back where nothing is held. *)
LEMMA LeaseEnableFailsSteady ==
  ASSUME IInv, NEW id \in Servos, LeaseEnableFails(id), tracked' \in SUBSET Servos
  PROVE  Steady
<1>1. PICK d \in AllOffFor(id, tracked') : \E landed \in SUBSET {id} :
        \E e \in TorqueOffs([Owe(d, {id}) EXCEPT !.energised = @ \cup landed], {id}) :
          Becomes(Fault(Revoke(e))) \/ Becomes(e)
  BY DEF LeaseEnableFails
<1>2. PICK landed \in SUBSET {id} :
        \E e \in TorqueOffs([Owe(d, {id}) EXCEPT !.energised = @ \cup landed], {id}) :
          Becomes(Fault(Revoke(e))) \/ Becomes(e)
  BY <1>1
<1>. DEFINE o == Owe(d, {id})
            x == [o EXCEPT !.energised = @ \cup landed]
<1>3. PICK e \in TorqueOffs(x, {id}) : Becomes(Fault(Revoke(e))) \/ Becomes(e)
  BY <1>2
<1>4. Quiet(Current, d) /\ d.pending = {} BY <1>1, AllOffForQuiet
<1>5. Safe(o) /\ Held(o) /\ {id} \subseteq o.pending
  BY <1>4, NothingPendingHeld DEF Quiet, Keeps
<1>6. Bare(o) BY <1>4, QuietChain DEF Quiet
<1>. HIDE DEF o
<1>7. Safe(x) BY <1>5, EnergiseSafe
<1>8. Bare(x) BY <1>5, <1>6 DEF Bare, Safe, Machine
<1>. HIDE DEF x
<1>9. Quiet(x, x) BY <1>7, <1>8 DEF Quiet, Keeps
<1>10. Quiet(x, e) BY <1>3, <1>9, QuietChain
<1>11. Quiet(x, Revoke(e)) BY <1>10, QuietChain
<1>12. Quiet(x, Fault(Revoke(e))) BY <1>11, QuietChain
<1>. QED BY <1>3, <1>10, <1>12, StandStep, BareStands DEF Quiet

(* The lease itself: the only servo of the inventory with torque. *)
LEMMA TorqueLeaseSteady ==
  ASSUME IInv, NEW id \in Servos, TorqueLease(id), tracked' \in SUBSET Servos
  PROVE  Steady
<1>1. PICK d \in AllOffFor(id, tracked') :
        Becomes([Owe(d, {id}) EXCEPT !.energised = @ \cup {id}, !.lease = id])
  BY DEF TorqueLease
<1>2. Quiet(Current, d) /\ id \in tracked' /\ tracked' \cap d.energised = {}
  BY <1>1, AllOffForQuiet
<1>3. Owe(d, {id}) \in Machine
      /\ Owe(d, {id}).energised = d.energised /\ Owe(d, {id}).holdSet = {}
  BY <1>2 DEF Quiet, Keeps, Safe, Bare, Owe, Machine
<1>4. energised' = d.energised \cup {id} /\ lease' = id /\ holdSet' = {}
  BY <1>1, <1>3 DEF Becomes, Machine
<1>. QED BY <1>2, <1>4 DEF Steady, NewLeaseIsAlone, HeldStaysEnergised

-----------------------------------------------------------------------------
(* HOLD_SET.                                                                *)

(* What the capture of all additions leaves: the additions are in no hold,  *)
(* the joints that stay held were not touched.                              *)
LEMMA CapturedStands ==
  ASSUME IInv, NEW S \in SUBSET Servos, HoldReady(S)
  PROVE  /\ Captured(S) \in Machine
         /\ Stands(Current, Captured(S))
         /\ Added(S) \cap Captured(S).holdSet = {}
<1>. DEFINE c == Confirmed(Current, Added(S))
<1>1. Added(S) \in SUBSET Servos BY HoldFacts
<1>2. Added(S) \cap Current.energised = {} BY DEF HoldReady, Current
<1>3. Safe(c) BY <1>1, <1>2, CurrentSafe, ConfirmedKeeps DEF Keeps
<1>4. Stands(Current, c) BY CurrentSafe, SettledStands
<1>5. Added(S) \cap c.holdSet = {} BY CurrentSafe DEF Confirmed, Safe, Machine
<1>. HIDE DEF c
<1>6. Stands(c, Owe(c, Added(S))) /\ Owe(c, Added(S)).holdSet = c.holdSet
      /\ Owe(c, Added(S)) \in Machine
  BY <1>1, <1>3, FlagsStand, OweKeeps DEF Keeps, Safe
<1>7. Captured(S) = Owe(c, Added(S)) BY DEF Captured, c
<1>. QED BY <1>4, <1>5, <1>6, <1>7, StandsTransitive

(* Torque switched on disturbs nothing. *)
LEMMA EnergisedStands ==
  ASSUME NEW c, NEW m, m \in Machine, Stands(c, m), NEW E
  PROVE  Stands(c, [m EXCEPT !.energised = @ \cup E])
         /\ [m EXCEPT !.energised = @ \cup E].holdSet = m.holdSet
BY DEF Stands, Machine

(* HOLD_SET whose capture of an addition fails. *)
LEMMA HoldCaptureFailsSteady ==
  ASSUME IInv, NEW S \in SUBSET Servos, HoldCaptureFails(S)
  PROVE  Steady
<1>1. PICK id \in Added(S) : \E done \in SUBSET (Added(S) \ {id}) :
        /\ done \cap energised = {}
        /\ \E m \in Refreshes(Owe(Confirmed(Current, done), done), {id}) : Becomes(m)
  BY DEF HoldCaptureFails
<1>2. PICK done \in SUBSET (Added(S) \ {id}) :
        /\ done \cap energised = {}
        /\ \E m \in Refreshes(Owe(Confirmed(Current, done), done), {id}) : Becomes(m)
  BY <1>1
<1>3. PICK m \in Refreshes(Owe(Confirmed(Current, done), done), {id}) : Becomes(m)
  BY <1>2
<1>4. {id} \in SUBSET Servos /\ done \in SUBSET Servos BY HoldFacts
<1>5. Firm(Current, Confirmed(Current, done))
  <2>1. done \cap Current.energised = {} BY <1>2 DEF Current
  <2>. QED BY <1>4, <2>1, CurrentSafe, ConfirmedKeeps, SettledStands DEF Firm
<1>6. Firm(Current, Owe(Confirmed(Current, done), done)) BY <1>4, <1>5, FirmChain
<1>7. Firm(Current, m) BY <1>3, <1>4, <1>6, FirmChain
<1>. QED BY <1>3, <1>7, FirmStep

(* Turning off members that were only just added. *)
LEMMA RollbackSteady ==
  ASSUME IInv, NEW x, Safe(x), Stands(Current, x), NEW E \in SUBSET Servos,
         E \cap x.holdSet = {}, NEW n \in TorqueOffs(x, E),
         Becomes(n) \/ Becomes(Fault(DropGoals(Revoke(n))))
  PROVE  Steady
<1>1. Firm(x, x) BY FlagsStand DEF Firm, Keeps
<1>2. Firm(x, n) BY <1>1, FirmChain
<1>3. Quiet(x, DropGoals(Revoke(n))) BY <1>2, FirmChain
<1>4. Quiet(x, Fault(DropGoals(Revoke(n)))) BY <1>3, QuietChain
<1>5. Stands(Current, n) BY <1>2, StandsTransitive DEF Firm
<1>6. Stands(Current, Fault(DropGoals(Revoke(n)))) BY <1>4, BareStands DEF Quiet
<1>. QED BY <1>5, <1>6, StandStep

(* HOLD_SET whose enable fails: only additions are rolled back. *)
LEMMA HoldEnableFailsSteady ==
  ASSUME IInv, NEW S \in SUBSET Servos, HoldEnableFails(S)
  PROVE  Steady
<1>1. HoldReady(S) /\ holdOver' \in BOOLEAN BY DEF HoldEnableFails, IInv, RestOK
<1>2. Safe(Captured(S)) /\ Held(Captured(S)) /\ Added(S) \subseteq Captured(S).pending
  BY <1>1, HoldReadyFacts
<1>3. \E id \in Added(S) : \E done \in SUBSET (Added(S) \ {id}) : \E landed \in SUBSET {id} :
      \E n \in TorqueOffs([Captured(S) EXCEPT !.energised = @ \cup done \cup landed],
                          done \cup {id}) :
        Becomes(n) \/ Becomes(Fault(DropGoals(Revoke(n))))
  BY DEF HoldEnableFails
<1>4. ASSUME NEW id \in Added(S), NEW done \in SUBSET (Added(S) \ {id}),
             NEW landed \in SUBSET {id},
             NEW n \in TorqueOffs([Captured(S) EXCEPT !.energised = @ \cup done \cup landed],
                                  done \cup {id}),
             Becomes(n) \/ Becomes(Fault(DropGoals(Revoke(n))))
      PROVE  Steady
  <2>. DEFINE x == [Captured(S) EXCEPT !.energised = @ \cup done \cup landed]
              E == done \cup {id}
  <2>1. Safe(x) BY <1>2 DEF Safe, Machine
  <2>2. Stands(Current, x) /\ x.holdSet = Captured(S).holdSet
    BY <1>1, CapturedStands DEF Stands, Machine
  <2>3. E \in SUBSET Servos /\ E \cap x.holdSet = {}
    BY <1>1, <2>2, CapturedStands, HoldFacts
  <2>4. n \in TorqueOffs(x, E) BY <1>4
  <2>. HIDE DEF x, E
  <2>. QED BY <1>4, <2>1, <2>2, <2>3, <2>4, RollbackSteady
<1>. QED BY <1>3, <1>4

(* HOLD_SET whose authority is refused: all additions are rolled back. *)
LEMMA HoldAuthorityFailsSteady ==
  ASSUME IInv, NEW S \in SUBSET Servos, HoldAuthorityFails(S)
  PROVE  Steady
<1>1. HoldReady(S) /\ holdOver' \in BOOLEAN BY DEF HoldAuthorityFails, IInv, RestOK
<1>2. Safe(Enabled(S)) BY <1>1, HoldReadyFacts
<1>3. Stands(Current, Enabled(S)) /\ Enabled(S).holdSet = Captured(S).holdSet
  BY <1>1, CapturedStands, EnergisedStands DEF Enabled
<1>4. Added(S) \in SUBSET Servos /\ Added(S) \cap Enabled(S).holdSet = {}
  BY <1>1, <1>3, CapturedStands, HoldFacts
<1>5. PICK n \in TorqueOffs(Enabled(S), Added(S)) :
        Becomes(n) \/ Becomes(Fault(DropGoals(Revoke(n))))
  BY DEF HoldAuthorityFails
<1>. QED BY <1>2, <1>3, <1>4, <1>5, RollbackSteady

(* The granted hold: every member was read back with torque, or it is gone. *)
LEMMA HoldSetSteady ==
  ASSUME IInv, NEW S \in SUBSET Servos, HoldSet(S), tracked' \in SUBSET Servos
  PROVE  Steady
<1>1. HoldReady(S) /\ holdOver' \in BOOLEAN /\ lease = NoServo /\ S \subseteq Enabled(S).pending
  BY DEF HoldSet
<1>2. Safe(Enabled(S)) BY <1>1, HoldReadyFacts
<1>3. Enabled(S).lease = NoServo
  <2>1. Stands(Current, Enabled(S)) BY <1>1, CapturedStands, EnergisedStands DEF Enabled
  <2>. QED BY <1>1, <2>1 DEF Stands, Current
<1>. DEFINE x == [Enabled(S) EXCEPT !.holdSet = S, !.holdGoals = S]
            U == holdGoals \ S
<1>4. Safe(x) /\ x.lease = NoServo /\ x.holdSet = S
  BY <1>1, <1>2, <1>3 DEF Safe, Machine
<1>5. U \in SUBSET Servos /\ U \cap x.holdSet = {}
  BY <1>4, CurrentSafe DEF Safe, Machine, Current
<1>6. PICK n \in TorqueOffs(x, U) :
        \/ S \subseteq n.energised /\ Becomes([n EXCEPT !.safetyFault = FALSE])
        \/ \E c \in RolledBack(n, S, tracked') : Becomes(Fault(c))
  BY DEF HoldSet
<1>. HIDE DEF x, U
<1>7. Firm(x, x) BY <1>4, FlagsStand DEF Firm, Keeps
<1>8. Firm(x, n) BY <1>5, <1>6, <1>7, FirmChain
<1>9. ASSUME S \subseteq n.energised, Becomes([n EXCEPT !.safetyFault = FALSE])
      PROVE  Steady
  <2>1. n.lease = NoServo /\ n.holdSet \subseteq S /\ n \in Machine
    BY <1>4, <1>8 DEF Firm, Stands, Keeps, Safe
  <2>2. lease' = NoServo /\ holdSet' \subseteq S /\ energised' = n.energised
    BY <1>9, <2>1 DEF Becomes, Machine
  <2>. QED BY <1>9, <2>2 DEF Steady, NewLeaseIsAlone, HeldStaysEnergised
<1>10. ASSUME NEW c \in RolledBack(n, S, tracked'), Becomes(Fault(c)) PROVE Steady
  <2>. DEFINE off == UNION {Resolves(Revoke(m)) : m \in Refreshes(n, S)}
              bs == UNION {Broadcasts(a) : a \in off}
  <2>1. PICK b \in bs : c \in ConfirmAlls(b, tracked') BY DEF RolledBack
  <2>2. PICK a \in off : b \in Broadcasts(a) BY <2>1
  <2>3. PICK m \in Refreshes(n, S) : a \in Resolves(Revoke(m)) BY <2>2
  <2>4. Firm(x, m) BY <1>8, <2>3, FirmChain
  <2>5. Quiet(x, Revoke(m)) BY <2>4, FirmChain
  <2>6. Quiet(x, a) BY <2>3, <2>5, QuietChain
  <2>7. Quiet(x, b) BY <2>2, <2>6, QuietChain
  <2>8. Quiet(x, c) BY <2>1, <2>7, QuietChain
  <2>9. Quiet(x, Fault(c)) BY <2>8, QuietChain
  <2>. QED BY <1>10, <2>9, StandStep, BareStands DEF Quiet
<1>. QED BY <1>6, <1>9, <1>10

-----------------------------------------------------------------------------
(* Every step, and the theorems.                                            *)

(* Every command. *)
LEMMA CommandSteady == IInv /\ Command /\ tracked' \in SUBSET Servos => Steady
<1>. SUFFICES ASSUME IInv, Command, tracked' \in SUBSET Servos PROVE Steady OBVIOUS
<1>1. ASSUME NEW id \in Servos, LeaseStep(id) PROVE Steady
  BY <1>1, LeasePreflightFailsSteady, LeaseModeOrGoalFailsSteady, LeaseEnableFailsSteady,
     TorqueLeaseSteady DEF LeaseStep
<1>2. ASSUME NEW S \in SUBSET Servos, HoldSetStep(S) PROVE Steady
  BY <1>2, HoldCaptureFailsSteady, HoldEnableFailsSteady, HoldAuthorityFailsSteady,
     HoldSetSteady DEF HoldSetStep
<1>. QED BY <1>1, <1>2, IdleCommandsSteady, StatusSteady, AllOffSteady, ScanSteady,
            ScanOverCapacitySteady, OneJointSteady, GroupMotionSteady DEF Command

(* Every step. *)
LEMMA NextSteady == LInv /\ [Next]_vars => Steady
<1>. SUFFICES ASSUME LInv, [Next]_vars PROVE Steady OBVIOUS
<1>1. tracked' \in SUBSET Servos
  BY NextGood DEF LInv, StepGood, IInv, RestOK
<1>2. UNCHANGED vars => Steady BY IdleSteady DEF vars
<1>. QED BY <1>1, <1>2, TickSteady, CommandSteady, EnvironmentSteady DEF LInv, Next

(* Until its first tick a boot has taken no line and no authority; with     *)
(* IInv this is inductive.                                                  *)
THEOREM LInvInductive == Spec => []LInv
<1>1. Init => LInv
  BY InitGood DEF LInv, Started, Init
<1>2. LInv /\ [Next]_vars => LInv'
  BY NextGood, StartedStep DEF LInv, StepGood
<1>. QED BY <1>1, <1>2, PTL DEF Spec

(* Leases are exclusive and holds last: a new lease energises its servo     *)
(* alone, and no tick, command or expiry turns off a joint it leaves in the *)
(* hold set, whatever the bus loses.                                        *)
THEOREM LeasesStand == Spec => LeasesAndHoldsStand
<1>1. LInv /\ [Next]_vars => [NewLeaseIsAlone /\ HeldStaysEnergised]_vars
  BY NextSteady DEF Steady
<1>. QED BY <1>1, LInvInductive, PTL DEF Spec, LeasesAndHoldsStand

(* Only RESET releases the STOP latch of a running boot. *)
LEMMA OnlyResetReleases == IInv /\ [Next]_vars /\ stopped /\ ~stopped' /\ ~booting' => Reset
<1>. SUFFICES ASSUME IInv, [Next]_vars, stopped, ~stopped', ~booting' PROVE Reset OBVIOUS
<1>1. ~UNCHANGED vars BY DEF vars
<1>2. ~Tick
  BY DEF Tick, TickBoot, TickQuiet, TickSupervisionBad, TickLeaseExpired, TickWatchdog,
         TickRetry, TickFrame
<1>3. ~Environment
  BY DEF Environment, HeartbeatExpires, LeaseElapses, HoldElapses, RetryFallsDue, Reboot,
         ColdRam, ServoDrops
<1>4. Command => Reset
  BY DEF Command, LineRejected, Query, Heartbeat, Status, StatusEndsRecovery, TorqueOffAll,
         Stop, Family, TorqueOffOne, LeaseStep, LeasePreflightFails, LeaseModeOrGoalFails,
         LeaseEnableFails, TorqueLease, LeaseFrame, Capture, MultiTurn, HoldSetStep,
         HoldCaptureFails, HoldEnableFails, HoldAuthorityFails, HoldSet, HoldReady,
         HoldSetFrame, MoveSetFails, FollowSetFails, FollowRead, Scan, ScanOverCapacity
<1>. QED BY <1>1, <1>2, <1>3, <1>4 DEF Next

(* Only RESET releases the latch (short of a reboot), and then every        *)
(* tracked servo is physically off and nothing is left to prove.            *)
THEOREM ResetIsProven == Spec => ResetNeedsOffProof
<1>1. ASSUME IInv, [Next]_vars, stopped, ~stopped', ~booting'
      PROVE  pending' = {} /\ tracked' # {} /\ tracked' \cap energised' = {}
  <2>1. Reset BY <1>1, OnlyResetReleases
  <2>2. PICK a \in Resolves(Current) : \E b \in Broadcasts(a) : \E c \in ConfirmAlls(b, tracked) :
          Proven(c, tracked) /\ Becomes([Revoke(c) EXCEPT !.safetyFault = FALSE])
    BY <1>1, <2>1 DEF Reset
  <2>3. PICK b \in Broadcasts(a) : \E c \in ConfirmAlls(b, tracked) :
          Proven(c, tracked) /\ Becomes([Revoke(c) EXCEPT !.safetyFault = FALSE])
    BY <2>2
  <2>4. PICK c \in ConfirmAlls(b, tracked) :
          Proven(c, tracked) /\ Becomes([Revoke(c) EXCEPT !.safetyFault = FALSE])
    BY <2>3
  <2>5. tracked \in SUBSET Servos BY <1>1, CurrentFirm
  <2>6. Keeps(Current, a) BY <1>1, CurrentSafe, Chain
  <2>7. Safe(b) BY <2>3, <2>6, Chain DEF Keeps
  <2>8. Safe(c) BY <2>4, <2>5, <2>7, ConfirmAllsKeep DEF Keeps
  <2>9. tracked # {} /\ c.pending = {} BY <2>4 DEF Proven
  <2>10. tracked \cap c.energised = {} BY <2>4, <2>5, <2>7, <2>9, ConfirmedAllOff
  <2>11. pending' = c.pending /\ energised' = c.energised
    BY <2>4, <2>8 DEF Becomes, Revoke, Safe, Machine
  <2>12. tracked' = tracked BY <2>1 DEF Reset
  <2>. QED BY <2>9, <2>10, <2>11, <2>12
<1>2. IInv /\ [Next]_vars => [stopped /\ ~stopped' /\ ~booting'
         => pending' = {} /\ tracked' # {} /\ tracked' \cap energised' = {}]_vars
  BY <1>1
<1>. QED BY <1>2, Inductive, PTL DEF Spec, ResetNeedsOffProof

=============================================================================
