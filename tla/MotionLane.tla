----------------------------- MODULE MotionLane -----------------------------
(***************************************************************************)
(* The arm service's holds and moves (simple_arm_api.py): a request that   *)
(* moves joints, sets torque or clears STOP, the service thread that       *)
(* renews the hold and chases unfinished moves, and STOP.                  *)
(*                                                                         *)
(* Requests pass the admission lock one at a time, so there is one lane.   *)
(* Lane and service thread exclude each other by the motion lock (moves,   *)
(* chase, recovery, clear) and the authority lock (renewal, torque, abort, *)
(* recovery, clear); STOP takes neither.  A thread is cut at every         *)
(* exchange with the controller and between two sections under the state   *)
(* lock.                                                                   *)
(*                                                                         *)
(* A move asked for over HTTP runs on the gateway's event loop, one that   *)
(* is part of a sequence or an observation runs on a pool thread; the loop *)
(* also has to hand STOP to its thread.                                    *)
(***************************************************************************)
EXTENDS Integers, FiniteSets

CONSTANTS
  Servos,
  Base,        \* the multi-turn servo, which must be prepared before a hold
  MaxHeld,     \* MAX_HELD
  Attempts     \* ARRIVAL_ATTEMPTS

ASSUME MotionAssumption ==
  /\ IsFiniteSet(Servos) /\ Base \in Servos
  /\ MaxHeld \in Nat \ {0} /\ Attempts \in Nat

VARIABLES
  held,        \* _held: what the Pi means to hold
  due,         \* HOLD_RENEW_SECONDS have passed since _last_hold
  goals,       \* _goals: re-sends left per servo, NoGoal without a goal
  stopped,     \* _operator_stopped or _inspection_required
  hat,         \* the controller: held servos, stopped, and moves it took
  motion,      \* owner of _motion_lock
  authority,   \* owner of _authority_lock
  th,          \* the lane and the service thread
  stopPc,      \* the STOP request
  released,    \* history: freed by a torque request that was answered
  resent       \* history: re-sends of the goal since it was accepted

vars == <<held, due, goals, stopped, hat, motion, authority, th, stopPc,
          released, resent>>

NoGoal == -1
NoGoals == [s \in Servos |-> NoGoal]
HasGoal == {s \in Servos : goals[s] # NoGoal}

(* want: the servos the operation is about; send: the set about to be sent; *)
(* prev: the hold to restore, or the hold a chase saw; why: what went       *)
(* wrong; retried: the one retry is spent; raced: _stop_generation moved    *)
(* since it was sampled.  Of a chase, out: the goals it saw, todo: the      *)
(* joints still to look at, over: the goals to forget.                      *)
Idle == [op |-> "idle", pc |-> "idle", onLoop |-> FALSE, retried |-> FALSE,
         raced |-> FALSE,
         why |-> "none", want |-> {}, send |-> {}, prev |-> {},
         out |-> NoGoals, todo |-> {}, over |-> {}]

Threads == {"lane", "svc"}

Init ==
  /\ held = {} /\ due = FALSE /\ goals = NoGoals /\ stopped = FALSE
  /\ hat = [held |-> {}, stopped |-> FALSE]
  /\ motion = "none" /\ authority = "none"
  /\ th = [t \in Threads |-> Idle] /\ stopPc = "idle"
  /\ released = {} /\ resent = [s \in Servos |-> 0]

-----------------------------------------------------------------------------
(* The controller and its surroundings.                                     *)

locks == <<motion, authority>>
intent == <<held, due, goals>>
history == <<released, resent>>

(* HOLD_SET S: refused under STOP; accepted; refused with or without loss   *)
(* of the authority it had; or unanswered, taken or not.                    *)
HoldSets(S) ==
  LET taken == [hat EXCEPT !.held = S] IN
  IF hat.stopped THEN {<<"STOPPED", hat>>}
  ELSE {<<"ok", taken>>, <<"lost", taken>>, <<"lost", hat>>,
        <<"refused", hat>>, <<"refused", [hat EXCEPT !.held = {}]>>}

(* MOVE_SET, or the MOVEs of older firmware, for the servos S. *)
Moves(S) ==
  IF hat.stopped THEN {"STOPPED"}
  ELSE IF ~(S \subseteq hat.held) THEN {"NO_TORQUE_LEASE"}
  ELSE {"ok", "lost", "MOVE_SET_FAILED", "refused"}

(* The hold lease or the host watchdog runs out; firmware 2.4 then stops.   *)
HatLapses ==
  /\ hat.held # {}
  /\ \E stops \in BOOLEAN : hat' = [held |-> {}, stopped |-> stops]
  /\ UNCHANGED <<intent, stopped, locks, th, stopPc, history>>

HoldFallsDue ==
  /\ ~due /\ due' = TRUE
  /\ UNCHANGED <<held, goals, stopped, hat, locks, th, stopPc, history>>

-----------------------------------------------------------------------------
(* Steps of a thread.                                                       *)

At(t, pc) == th[t].pc = pc
Goto(t, pc) == th' = [th EXCEPT ![t].pc = pc]
Because(t, pc, why) == th' = [th EXCEPT ![t].pc = pc, ![t].why = why, ![t].send = {}]
Free(lock, t) == lock \in {"none", t}
Without(lock, t) == IF lock = t THEN "none" ELSE lock

Done(t) ==
  /\ th' = [th EXCEPT ![t] = Idle]
  /\ motion' = Without(motion, t) /\ authority' = Without(authority, t)

(* Where an exception takes an operation: a torque request restores the     *)
(* hold it replaced, a chase gives this goal up and looks at the next.      *)
Fails(t) ==
  \/ th[t].op = "torque" /\ Goto(t, "restore") /\ UNCHANGED locks
  \/ /\ th[t].op = "chase"
     /\ th' = [th EXCEPT ![t].pc = "look", ![t].over = @ \cup th[t].want]
     /\ UNCHANGED motion /\ authority' = Without(authority, t)
  \/ th[t].op \in {"targets", "recover", "renew", "clear"} /\ Done(t)

(* _without_refusal: refused while a stop is latched or reported, otherwise *)
(* the action; after a refusal that was repaired, the action once more.     *)
Action(t) == CASE th[t].op = "targets" -> "ensure"
               [] th[t].op = "torque" -> "prepare"
               [] th[t].op = "chase" -> "move"

Check(t) ==
  /\ At(t, "check")
  /\ \/ ~stopped /\ Goto(t, Action(t)) /\ UNCHANGED locks
     \/ (stopped \/ hat.stopped) /\ Fails(t)
  /\ UNCHANGED <<intent, stopped, hat, stopPc, history>>

(* _ensure_held, under the state lock: the servos asked for, then as much   *)
(* of the previous hold as fits.                                            *)
Widened(W) ==
  {X \in SUBSET (W \cup held) :
     /\ W \subseteq X \/ X \subseteq W
     /\ Cardinality(X) \in {MaxHeld, Cardinality(W \cup held)}
     /\ Cardinality(X) <= MaxHeld}

Ensure(t) ==
  /\ At(t, "ensure")
  /\ \/ /\ th[t].want \subseteq held /\ ~due
        /\ Goto(t, "move") /\ UNCHANGED <<held, due>>
     \/ /\ ~(th[t].want \subseteq held /\ ~due)
        /\ \E X \in Widened(th[t].want) :
             /\ held' = X /\ due' = FALSE
             /\ th' = [th EXCEPT ![t].pc = "prepare", ![t].prev = held, ![t].send = X]
  /\ released' = released \ held'
  /\ UNCHANGED <<goals, stopped, hat, locks, stopPc, resent>>

(* _apply_hold up to HOLD_SET.  A servo left energised is dropped first,    *)
(* which the controller would do by itself.  If the Base cannot be prepared *)
(* the hold fails; only a renewal goes on without it.                       *)
Prepare(t) ==
  /\ At(t, "prepare")
  /\ \/ Goto(t, "hold") /\ UNCHANGED held
     \/ Base \in th[t].send /\ th[t].op # "renew"
        /\ Because(t, "restore", "unprepared") /\ UNCHANGED held
     \/ /\ Base \in th[t].send /\ th[t].op = "renew"
        /\ held' = held \ {Base}
        /\ th' = [th EXCEPT ![t].pc = "hold", ![t].send = @ \ {Base}]
  /\ UNCHANGED <<due, goals, stopped, hat, locks, stopPc, history>>

(* _apply_hold's HOLD_SET. *)
Hold(t) ==
  /\ At(t, "hold")
  /\ \E o \in HoldSets(th[t].send) :
       /\ hat' = o[2]
       /\ \/ th[t].op = "renew" /\ Done(t)
          \/ /\ th[t].op # "renew" /\ UNCHANGED locks
             /\ IF o[1] = "ok" /\ th[t].op = "torque" THEN Goto(t, "off")
                ELSE IF o[1] = "ok" THEN th' = [th EXCEPT ![t].pc = "move", ![t].prev = {},
                                                          ![t].send = {}]
                ELSE IF o[1] = "STOPPED" /\ th[t].op = "torque"
                     THEN Because(t, "recover", o[1])
                     ELSE Because(t, "restore", o[1])
  /\ UNCHANGED <<intent, stopped, stopPc, history>>

(* The except clauses of _ensure_held and torque put the old hold back; a   *)
(* move then repairs, aborts or just fails.                                 *)
Restore(t) ==
  LET me == th[t] IN
  /\ At(t, "restore")
  /\ held' = me.prev
  /\ \/ /\ me.op = "targets" /\ me.why = "STOPPED" /\ UNCHANGED locks
        /\ th' = [th EXCEPT ![t] = [Idle EXCEPT !.op = "targets", !.pc = "recover",
                    !.want = me.want, !.onLoop = me.onLoop, !.retried = me.retried]]
     \/ /\ me.op = "targets" /\ (me.why = "lost" \/ (me.why = "unprepared" /\ hat.stopped))
        /\ th' = [th EXCEPT ![t] = [Idle EXCEPT !.op = "targets", !.pc = "abort",
                    !.onLoop = me.onLoop]]
        /\ UNCHANGED locks
     \/ (me.op = "torque" \/ me.why \in {"refused", "unprepared"}) /\ Done(t)
  /\ UNCHANGED <<due, goals, stopped, hat, stopPc, history>>

(* _drive_prepared_goals_locked's dispatch, and _move.  A chase does not    *)
(* tell the failures apart, except the two that _without_refusal repairs.   *)
Move(t) ==
  /\ At(t, "move")
  /\ \E o \in Moves(th[t].want) :
       /\ resent' = [s \in Servos |->
            IF th[t].op = "chase" /\ s \in th[t].want /\ o \in {"ok", "lost"}
            THEN resent[s] + 1 ELSE resent[s]]
       /\ CASE o = "ok" -> /\ Goto(t, IF th[t].op = "chase" THEN "look" ELSE "record")
                            /\ UNCHANGED locks
            [] o = "STOPPED" -> Goto(t, "recover") /\ UNCHANGED locks
            [] o = "NO_TORQUE_LEASE" ->
                 IF th[t].retried THEN Fails(t) ELSE Goto(t, "retake") /\ UNCHANGED locks
            [] o \in {"lost", "MOVE_SET_FAILED"} /\ th[t].op = "targets" ->
                 Goto(t, "abort") /\ UNCHANGED locks
            [] OTHER -> Fails(t)
  /\ UNCHANGED <<intent, stopped, hat, stopPc, released>>

(* The goals of an accepted move. *)
Record(t) ==
  /\ At(t, "record")
  /\ goals' = [s \in Servos |-> IF s \in th[t].want THEN Attempts ELSE goals[s]]
  /\ resent' = [s \in Servos |-> IF s \in th[t].want THEN 0 ELSE resent[s]]
  /\ Done(t)
  /\ UNCHANGED <<held, due, stopped, hat, stopPc, released>>

(* _retake_hold: read the hold, then send it, without the authority lock.   *)
Retake(t) ==
  /\ At(t, "retake")
  /\ \/ held = {} /\ Fails(t)
     \/ /\ held # {} /\ UNCHANGED locks
        /\ th' = [th EXCEPT ![t].pc = "retakeHold", ![t].send = held]
  /\ UNCHANGED <<intent, stopped, hat, stopPc, history>>

RetakeHold(t) ==
  /\ At(t, "retakeHold")
  /\ \/ /\ \E o \in HoldSets(th[t].send) :
             /\ hat' = o[2]
             /\ \/ /\ o[1] = "ok" /\ UNCHANGED locks
                   /\ th' = [th EXCEPT ![t].pc = Action(t), ![t].retried = TRUE, ![t].send = {}]
                \/ o[1] # "ok" /\ Fails(t)
     \/ Base \in th[t].send /\ Fails(t) /\ UNCHANGED hat
  /\ UNCHANGED <<intent, stopped, stopPc, history>>

(* _abort_motion_recoverably *)
Abort(t) ==
  /\ At(t, "abort") /\ Free(authority, t)
  /\ authority' = t /\ held' = {} /\ goals' = NoGoals /\ due' = FALSE
  /\ Goto(t, "abortSend")
  /\ UNCHANGED <<stopped, hat, motion, stopPc, history>>

AbortSend(t) ==
  /\ At(t, "abortSend")
  /\ \E o \in HoldSets({}) : hat' = o[2]
  /\ Done(t)
  /\ UNCHANGED <<intent, stopped, stopPc, history>>

-----------------------------------------------------------------------------
(* _recover_stop, from a refused action or from the service thread.  The    *)
(* proof that every servo is off is an answer of the controller's cache.    *)

Recover(t) ==
  /\ At(t, "recover") /\ Free(authority, t)
  /\ \/ Fails(t) /\ UNCHANGED intent
     \/ /\ ~th[t].retried /\ ~stopped /\ hat.stopped
        /\ held' = {} /\ goals' = NoGoals /\ due' = FALSE
        /\ th' = [th EXCEPT ![t].pc = "reset", ![t].raced = FALSE]
        /\ authority' = t /\ UNCHANGED motion
  /\ UNCHANGED <<stopped, hat, stopPc, history>>

Reset(t) ==
  /\ At(t, "reset")
  /\ \/ /\ hat' = [hat EXCEPT !.stopped = FALSE]
        /\ Goto(t, "verdict") /\ UNCHANGED locks
     \/ hat' \in {hat, [hat EXCEPT !.stopped = FALSE]} /\ Fails(t)
  /\ UNCHANGED <<intent, stopped, stopPc, history>>

(* A STOP since the sample wins; otherwise the action is tried once more.   *)
Verdict(t) ==
  /\ At(t, "verdict")
  /\ \/ th[t].raced /\ Goto(t, "restop") /\ UNCHANGED locks
     \/ ~th[t].raced /\ th[t].op = "recover" /\ Done(t)
     \/ /\ ~th[t].raced /\ th[t].op # "recover"
        /\ th' = [th EXCEPT ![t].pc = Action(t), ![t].retried = TRUE, ![t].why = "none",
                           ![t].send = IF th[t].op = "torque" THEN th[t].want ELSE {}]
        /\ authority' = (IF th[t].op = "torque" THEN t ELSE "none")
        /\ UNCHANGED motion
  /\ UNCHANGED <<intent, stopped, hat, stopPc, history>>

StopTaken == hat' = [held |-> {}, stopped |-> TRUE]

(* STOP once more; if it is not answered, the latch says so. *)
Restop(t) ==
  /\ At(t, "restop")
  /\ \/ StopTaken /\ UNCHANGED <<held, goals, stopped>>
     \/ /\ StopTaken \/ UNCHANGED hat
        /\ held' = {} /\ goals' = NoGoals /\ stopped' = TRUE
  /\ Fails(t)
  /\ UNCHANGED <<due, stopPc, history>>

-----------------------------------------------------------------------------
(* Requests on the lane.                                                    *)

(* Mutant of Request: the service thread is not kept out. *)
RequestUnlocked(o, W, loop) ==
  /\ At("lane", "idle") /\ motion' = "lane"
  /\ th' = [th EXCEPT !["lane"] =
       [Idle EXCEPT !.op = o, !.want = W, !.onLoop = loop,
                    !.pc = IF o = "targets" THEN "check" ELSE "authority"]]
  /\ UNCHANGED <<intent, stopped, hat, authority, stopPc, history>>

(* targets takes the motion lock; torque and clear_stop the authority lock  *)
(* after it.                                                                *)
Request(o, W, loop) ==
  /\ At("lane", "idle") /\ motion = "none" /\ motion' = "lane"
  /\ th' = [th EXCEPT !["lane"] =
       [Idle EXCEPT !.op = o, !.want = W, !.onLoop = loop,
                    !.pc = IF o = "targets" THEN "check" ELSE "authority"]]
  /\ UNCHANGED <<intent, stopped, hat, authority, stopPc, history>>

Targets == \E W \in SUBSET Servos \ {{}}, loop \in BOOLEAN : Request("targets", W, loop)
Torque == \E W \in SUBSET Servos : Cardinality(W) <= MaxHeld /\ Request("torque", W, TRUE)
ClearStop == Request("clear", {}, FALSE)

(* Mutant of LaneTakesAuthority: a renewal under way is not waited for. *)
LaneSkipsAuthority ==
  /\ At("lane", "authority") /\ authority' = "lane"
  /\ Goto("lane", IF th["lane"].op = "torque" THEN "set" ELSE "clear")
  /\ UNCHANGED <<intent, stopped, hat, motion, stopPc, history>>

LaneTakesAuthority ==
  /\ At("lane", "authority") /\ authority = "none" /\ authority' = "lane"
  /\ Goto("lane", IF th["lane"].op = "torque" THEN "set" ELSE "clear")
  /\ UNCHANGED <<intent, stopped, hat, motion, stopPc, history>>

(* torque: the new hold is in place before it is sent. *)
TorqueSet ==
  /\ At("lane", "set")
  /\ held' = th["lane"].want /\ due' = FALSE
  /\ th' = [th EXCEPT !["lane"].pc = "check", !["lane"].prev = held,
                      !["lane"].send = th["lane"].want]
  /\ released' = released \ th["lane"].want
  /\ UNCHANGED <<goals, stopped, hat, locks, stopPc, resent>>

(* The explicit torque_off of each servo let go. *)
TorqueOff ==
  /\ At("lane", "off")
  /\ \/ Goto("lane", "forget")
     \/ ~(th["lane"].prev \subseteq th["lane"].want) /\ Because("lane", "restore", "refused")
  /\ UNCHANGED <<intent, stopped, hat, locks, stopPc, history>>

TorqueForget ==
  /\ At("lane", "forget")
  /\ goals' = [s \in Servos |->
       IF s \in th["lane"].prev \ th["lane"].want THEN NoGoal ELSE goals[s]]
  /\ released' = Servos \ th["lane"].want
  /\ Done("lane")
  /\ UNCHANGED <<held, due, stopped, hat, stopPc, resent>>

(* clear_stop: drop all intent and sample the generation; RESET; release    *)
(* unless a STOP came in between.  StopLatch has its marker and its exits.  *)
ClearBegin ==
  /\ At("lane", "clear")
  /\ held' = {} /\ goals' = NoGoals
  /\ stopped' = (stopped \/ hat.stopped)
  /\ th' = [th EXCEPT !["lane"].pc = "clearReset", !["lane"].raced = FALSE]
  /\ resent' = [s \in Servos |-> 0]
  /\ UNCHANGED <<due, hat, locks, stopPc, released>>

ClearReset ==
  /\ At("lane", "clearReset")
  /\ \/ /\ hat' = [hat EXCEPT !.stopped = FALSE]
        /\ Goto("lane", "clearCommit") /\ UNCHANGED locks
     \/ hat' \in {hat, [hat EXCEPT !.stopped = FALSE]} /\ Done("lane")
  /\ UNCHANGED <<intent, stopped, stopPc, history>>

ClearCommit ==
  /\ At("lane", "clearCommit")
  /\ \/ th["lane"].raced /\ Goto("lane", "restop") /\ UNCHANGED <<locks, stopped>>
     \/ ~th["lane"].raced /\ stopped' = FALSE /\ Done("lane")
  /\ UNCHANGED <<intent, hat, stopPc, history>>

-----------------------------------------------------------------------------
(* The service thread: recovery, renewal, chase.                            *)

ServiceRecovers ==
  /\ At("svc", "idle") /\ motion = "none" /\ motion' = "svc"
  /\ ~stopped /\ hat.stopped
  /\ th' = [th EXCEPT !["svc"] = [Idle EXCEPT !.op = "recover", !.pc = "recover"]]
  /\ UNCHANGED <<intent, stopped, hat, authority, stopPc, history>>

(* Mutant of Renew: the age of the hold is compared the wrong way round. *)
RenewTooEarly ==
  /\ At("svc", "idle") /\ ~due /\ held # {}
  /\ th' = [th EXCEPT !["svc"] = [Idle EXCEPT !.op = "renew", !.pc = "renew"]]
  /\ UNCHANGED <<intent, stopped, hat, locks, stopPc, history>>

Renew ==
  /\ At("svc", "idle") /\ due /\ held # {}
  /\ th' = [th EXCEPT !["svc"] = [Idle EXCEPT !.op = "renew", !.pc = "renew"]]
  /\ UNCHANGED <<intent, stopped, hat, locks, stopPc, history>>

(* Under the authority lock the hold is read and revalidated; it is sent    *)
(* after that.                                                              *)
RenewCheck ==
  /\ At("svc", "renew") /\ authority = "none"
  /\ \/ /\ held # {} /\ due /\ ~stopped
        /\ due' = FALSE /\ authority' = "svc"
        /\ th' = [th EXCEPT !["svc"].pc = "prepare", !["svc"].send = held]
        /\ UNCHANGED motion
     \/ (held = {} \/ ~due \/ stopped \/ hat.stopped) /\ Done("svc") /\ UNCHANGED due
  /\ UNCHANGED <<held, goals, stopped, hat, stopPc, history>>

(* _chase_goals, with the goals and the hold as they are now; a renewal     *)
(* that is due comes first.                                                 *)
Chase ==
  /\ At("svc", "idle") /\ ~(due /\ held # {})
  /\ motion = "none" /\ HasGoal # {}
  /\ motion' = "svc"
  /\ th' = [th EXCEPT !["svc"] = [Idle EXCEPT !.op = "chase", !.pc = "look",
               !.out = goals, !.prev = held, !.todo = HasGoal]]
  /\ UNCHANGED <<intent, stopped, hat, authority, stopPc, history>>

Looked(s) == th' = [th EXCEPT !["svc"].todo = @ \ {s}]

(* Arrived, expired, offline or let go: forget.  Moving or unknown: leave.  *)
ChaseSkips(s) ==
  /\ At("svc", "look") /\ s \in th["svc"].todo
  /\ \/ th' = [th EXCEPT !["svc"].todo = @ \ {s}, !["svc"].over = @ \cup {s}]
     \/ s \in th["svc"].prev /\ Looked(s)
  /\ UNCHANGED <<intent, stopped, hat, locks, stopPc, history>>

ChaseResends(s) ==
  LET me == th["svc"] IN
  /\ At("svc", "look") /\ s \in me.todo /\ s \in me.prev /\ me.out[s] > 0
  /\ goals' = [goals EXCEPT ![s] = me.out[s] - 1]
  /\ th' = [th EXCEPT !["svc"].todo = @ \ {s}, !["svc"].want = {s},
                      !["svc"].pc = "check", !["svc"].retried = FALSE]
  /\ UNCHANGED <<held, due, stopped, hat, locks, stopPc, history>>

(* The end of the pass; or the Base lost its reference: everything goes.    *)
ChaseEnds ==
  LET me == th["svc"] IN
  /\ At("svc", "look")
  /\ \E gone \in {me.over, {s \in Servos : me.out[s] # NoGoal}} :
       /\ me.todo = {} \/ gone # me.over
       /\ goals' = [s \in Servos |-> IF s \in gone THEN NoGoal ELSE goals[s]]
       /\ resent' = [s \in Servos |-> IF s \in gone THEN 0 ELSE resent[s]]
  /\ Done("svc")
  /\ UNCHANGED <<held, due, stopped, hat, stopPc, released>>

-----------------------------------------------------------------------------
(* STOP: the event loop hands the request to a thread, which latches, then  *)
(* sends.                                                                   *)

LoopFree == ~th["lane"].onLoop

(* Where a thread will compare the generation with its sample. *)
Sampled == {"reset", "verdict", "clearReset", "clearCommit"}

StopAsked ==
  /\ stopPc = "idle" /\ stopPc' = "asked"
  /\ UNCHANGED <<intent, stopped, hat, locks, th, history>>

StopLatches ==
  /\ stopPc = "asked" /\ LoopFree /\ stopPc' = "send"
  /\ held' = {} /\ goals' = NoGoals /\ stopped' = TRUE
  /\ th' = [t \in Threads |-> [th[t] EXCEPT !.raced = th[t].pc \in Sampled]]
  /\ UNCHANGED <<due, hat, locks, history>>

StopSent ==
  /\ stopPc = "send"
  /\ \/ StopTaken /\ stopPc' = "idle"
     \/ (StopTaken \/ UNCHANGED hat) /\ stopPc' = "unknown"
  /\ UNCHANGED <<intent, stopped, locks, th, history>>

StopUnknown ==
  /\ stopPc = "unknown" /\ stopPc' = "idle"
  /\ held' = {} /\ goals' = NoGoals /\ stopped' = TRUE
  /\ UNCHANGED <<due, hat, locks, th, history>>

-----------------------------------------------------------------------------
Step(t) ==
  \/ Check(t) \/ Ensure(t) \/ Prepare(t) \/ Hold(t) \/ Restore(t)
  \/ Move(t) \/ Record(t) \/ Retake(t) \/ RetakeHold(t)
  \/ Abort(t) \/ AbortSend(t)
  \/ Recover(t) \/ Reset(t) \/ Verdict(t) \/ Restop(t)

LaneStep ==
  \/ Step("lane") \/ LaneTakesAuthority
  \/ TorqueSet \/ TorqueOff \/ TorqueForget
  \/ ClearBegin \/ ClearReset \/ ClearCommit

ChaseStep ==
  \/ \E s \in Servos : ChaseSkips(s) \/ ChaseResends(s)
  \/ ChaseEnds

ServiceStep == Step("svc") \/ RenewCheck \/ ChaseStep

StopStep == StopLatches \/ StopSent \/ StopUnknown

Next ==
  \/ Targets \/ Torque \/ ClearStop \/ LaneStep
  \/ ServiceRecovers \/ Renew \/ Chase \/ ServiceStep
  \/ StopAsked \/ StopStep
  \/ HatLapses \/ HoldFallsDue

Spec == Init /\ [][Next]_vars

(* Threads run, and the event loop serves requests in turn.  A lock that is *)
(* free again and again is taken in the end: the service thread sleeps      *)
(* between two ticks.  A HOLD_SET that is sent again and again gets         *)
(* through, and a lease that nobody renews runs out.                        *)
RenewLands == Hold("svc") /\ th["svc"].op = "renew" /\ hat'.held = th["svc"].send

LeaseRunsOut == held = {} /\ HatLapses

Fairness ==
  /\ WF_vars(LeaseRunsOut)
  /\ WF_vars(LaneStep) /\ WF_vars(ServiceStep) /\ WF_vars(StopStep)
  /\ SF_vars(StopLatches)
  /\ SF_vars(LaneTakesAuthority \/ Abort("lane") \/ Recover("lane"))
  /\ WF_vars(HoldFallsDue) /\ SF_vars(Renew \/ RenewCheck) /\ SF_vars(RenewLands)

FairSpec == Spec /\ Fairness

-----------------------------------------------------------------------------
(* The type of the state. *)
ThreadType ==
  [op : {"idle", "targets", "torque", "clear", "recover", "renew", "chase"},
   pc : {"idle", "authority", "check", "ensure", "prepare", "hold", "restore", "move",
         "record", "retake", "retakeHold", "abort", "abortSend", "recover", "reset",
         "verdict", "restop", "set", "off", "forget", "clear", "clearReset",
         "clearCommit", "renew", "look"},
   onLoop : BOOLEAN, retried : BOOLEAN, raced : BOOLEAN,
   why : {"none", "STOPPED", "lost", "refused", "unprepared"},
   want : SUBSET Servos, send : SUBSET Servos, prev : SUBSET Servos,
   out : [Servos -> NoGoal..Attempts], todo : SUBSET Servos, over : SUBSET Servos]

(* Every variable stays in its range: the lane and the service thread       *)
(* never own one lock together, and no more servos are held than fit.       *)
TypeOK ==
  /\ held \in SUBSET Servos /\ Cardinality(held) <= MaxHeld
  /\ due \in BOOLEAN /\ stopped \in BOOLEAN
  /\ goals \in [Servos -> NoGoal..Attempts]
  /\ hat \in [held : SUBSET Servos, stopped : BOOLEAN]
  /\ motion \in Threads \cup {"none"} /\ authority \in Threads \cup {"none"}
  /\ th \in [Threads -> ThreadType]
  /\ stopPc \in {"idle", "asked", "send", "unknown"}
  /\ released \in SUBSET Servos /\ resent \in [Servos -> Nat]

(* A servo that an answered torque request let go is not energised again    *)
(* by a renewal, a retaken hold or a restored one: only by a new request.   *)
ReleasedStaysFree == released \cap hat.held = {}

(* When a clear releases the latch, nothing the Pi meant to do before the   *)
(* STOP is left: no hold, no goal, no move or chase half way.               *)
ClearStartsFresh ==
  [][stopped /\ ~stopped' => /\ held' = {} /\ goals' = NoGoals
                              /\ th'["svc"].op \notin {"chase", "recover"}]_vars

(* However often threads overwrite the goals, an accepted move is sent      *)
(* again at most Attempts times.                                            *)
ChaseIsBounded == \A s \in Servos : resent[s] <= Attempts

(* What an answered torque request released stays released, against a       *)
(* renewal or a chase in flight, and no chase outlives its goal's re-sends. *)
ReleasedJointsStayFree == TypeOK /\ ReleasedStaysFree /\ ChaseIsBounded

(* However long the lane or the service thread is at it, a STOP request is  *)
(* handed to a thread and latched.                                          *)
StopIsServed == stopPc = "asked" ~> stopPc = "send"

(* If nobody asks for anything any more, the hold that the controller lost  *)
(* to a lapse, a refusal or a late renewal comes back.                      *)
Quiet == At("lane", "idle") /\ stopPc = "idle" /\ ~stopped /\ ~hat.stopped

HoldIsRestored == <>[]Quiet => []<>(hat.held = held)

(* "Only torque() and STOP ever give it up" (_ensure_held): a renewal never *)
(* takes the hold away from a joint the Pi still means to hold.             *)
RenewalKeepsJoints ==
  [][th["svc"].op = "renew" /\ At("svc", "hold") /\ hat'.held = th["svc"].send
       => hat.held \cap held \subseteq hat'.held]_vars

(* STOP "remains preemptive" (commissioning_mutation): a STOP request is    *)
(* never kept waiting by a request on the event loop.                       *)
StopNeverQueues == stopPc = "asked" => LoopFree

(* "The Pi renews it while torque is meant to be on" (HOLD_RENEW_SECONDS):  *)
(* the set a torque request was answered for is the set that is renewed,    *)
(* unless a STOP came in between.                                           *)
AnsweredTorqueIsRenewed ==
  [][At("lane", "forget") /\ th'["lane"] = Idle /\ ~stopped
       => held' = th["lane"].want]_vars
=============================================================================
