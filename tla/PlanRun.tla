------------------------------- MODULE PlanRun -------------------------------
(***************************************************************************)
(* Reviewed routes of the arm service (simple_arm_api.py): a sequence of   *)
(* waypoints is previewed without motion, then executed once.  Each        *)
(* waypoint is revalidated, dispatched as one MOVE_SET and proved to have  *)
(* arrived by fresh telemetry before the next; the result is kept for      *)
(* retries.  A plan is a sequence of one waypoint whose arrival the caller *)
(* reads.                                                                  *)
(*                                                                         *)
(* Previews, executions and clear_stop hold the operation lock: the lane.  *)
(* Beside it run the service thread, which reads STATUS, chases goals      *)
(* under the motion lock and then publishes the telemetry generation, and  *)
(* STOP, which takes no lock.  The inside of a dispatch is MotionLane's,   *)
(* the markers and retries of STOP and clear are StopLatch's.              *)
(***************************************************************************)
EXTENDS Integers, Sequences

CONSTANTS
  Ids,          \* sequences previewed, under ids of their own
  Legs,         \* waypoints of a sequence
  Samples,      \* ARRIVAL_SAMPLE_COUNT
  Limit,        \* SEQUENCE_RESULT_CACHE_LIMIT
  Boots         \* boots of the controller

(* One sample would not do: telemetry read before the dispatch may still be *)
(* published after it.                                                      *)
ASSUME PlanAssumption ==
  /\ "none" \notin Ids
  /\ Legs \in Nat \ {0} /\ Samples \in Nat \ {0, 1} /\ Limit \in Nat \ {0} /\ Boots \in Nat \ {0}

VARIABLES
  plans,        \* _sequences
  results,      \* _sequence_results, oldest first
  stopped,      \* _operator_stopped or _inspection_required
  raced,        \* _stop_generation moved since the lane sampled it
  news,         \* _telemetry_generation moved since the lane looked
  goal,         \* _goals: the waypoint the arm still owes, 0 for none
  link,         \* boot of the link's identity, 0 while it is not online
  seen,         \* the controller's last STATUS as the gateway keeps it
  hat,          \* the controller and the arm
  motion,       \* owner of _motion_lock
  lane, svc, stopPc,
  sent,         \* history: MOVE_SETs taken, per waypoint
  trip          \* history of the waypoint under way

vars == <<plans, results, stopped, raced, news, goal, link, seen, hat, motion,
          lane, svc, stopPc, sent, trip>>
store == <<plans, results>>
flags == <<stopped, raced, news>>
arm == <<goal, link, seen, hat>>
threads == <<lane, svc, stopPc>>
history == <<sent, trip>>

(* The arm is at rest at a waypoint, at 0 where the previews start, or      *)
(* Elsewhere; all waypoints differ by more than the tolerances.             *)
Elsewhere == -1
Poses == {Elsewhere} \cup 0..Legs

NoPlan == [st |-> "new", boot |-> 0, from |-> 0]
NotYet == [reached |-> FALSE, late |-> FALSE, boot |-> 0]
Idle == [pc |-> "idle", id |-> "none", leg |-> 0, stable |-> 0, out |-> "none", moved |-> FALSE]

Init ==
  /\ plans = [i \in Ids |-> NoPlan] /\ results = <<>>
  /\ stopped = FALSE /\ raced = FALSE /\ news = FALSE
  /\ goal = 0 /\ link = 1
  /\ hat = [boot |-> 1, at |-> 0, moving |-> FALSE, to |-> 0, stopped |-> FALSE]
  /\ seen = [boot |-> 1, at |-> 0, moving |-> FALSE, stopped |-> FALSE]
  /\ motion = "none" /\ lane = Idle /\ svc = "idle" /\ stopPc = "idle"
  /\ sent = [i \in Ids |-> [k \in 1..Legs |-> 0]] /\ trip = NotYet

At(pc) == lane.pc = pc
Goto(pc) == lane' = [lane EXCEPT !.pc = pc]
Cached(i) == \E r \in 1..Len(results) : results[r].id = i

-----------------------------------------------------------------------------
(* STATUS: the link serves it in the boot of its identity, or faults.       *)
Told == [boot |-> hat.boot, at |-> hat.at, moving |-> hat.moving, stopped |-> hat.stopped]

StatusServed == link # 0 /\ link = hat.boot /\ seen' = Told /\ UNCHANGED link
StatusFails == link' \in {0, link} /\ UNCHANGED seen

(* _require_plan_health of a STATUS just read: a stopped or moving arm is   *)
(* refused.                                                                 *)
Healthy(s) == ~s.stopped /\ ~s.moving

-----------------------------------------------------------------------------
(* preview_sequence: the pose it starts from is measured, the plan bound to *)
(* the boot that measured it.  A refusal changes nothing but the cache.     *)
Preview(i) ==
  /\ At("idle") /\ motion = "none" /\ plans[i].st = "new" /\ goal = 0
  /\ \/ /\ StatusServed /\ Healthy(seen')
        /\ plans' = [plans EXCEPT ![i] = [st |-> "stored", boot |-> hat.boot, from |-> hat.at]]
     \/ StatusServed /\ ~Healthy(seen') /\ UNCHANGED plans
     \/ StatusFails /\ UNCHANGED plans
  /\ UNCHANGED <<results, flags, goal, hat, motion, threads, history>>

(* execute_sequence: a kept result is replayed; else the plan is consumed,  *)
(* though it be expired or its digest wrong, and its first leg begins.      *)
Execute(i) ==
  /\ At("idle") /\ plans[i].st = "stored" /\ ~Cached(i)
  /\ plans' = [plans EXCEPT ![i].st = "gone"]
  /\ \/ UNCHANGED lane
     \/ lane' = [Idle EXCEPT !.pc = "lock", !.id = i, !.leg = 1]
  /\ trip' = NotYet
  /\ UNCHANGED <<results, flags, arm, motion, svc, stopPc, sent>>

-----------------------------------------------------------------------------
(* _execute_sequence_waypoint.                                              *)

TakesMotion ==
  /\ At("lock") /\ motion = "none" /\ motion' = "lane" /\ Goto("revalidate")
  /\ UNCHANGED <<store, flags, arm, svc, stopPc, history>>

(* A leg starts where the leg before it ends. *)
Start(i, k) == IF k = 1 THEN plans[i].from ELSE k - 1

Ends(out, moved) == lane' = [lane EXCEPT !.pc = "finish", !.out = out, !.moved = @ \/ moved]

(* _revalidate_sequence_waypoint, and _sequence_revalidation_failure. *)
Revalidate ==
  /\ At("revalidate")
  /\ \/ /\ goal = 0 /\ StatusServed /\ Healthy(seen')
        /\ seen'.boot = plans[lane.id].boot /\ seen'.at = Start(lane.id, lane.leg)
        /\ Goto("check") /\ UNCHANGED motion
     \/ /\ \/ goal # 0 /\ UNCHANGED <<seen, link>>
           \/ StatusServed
           \/ StatusFails
        /\ Ends(IF stopped \/ seen'.stopped THEN "stopped" ELSE "refused", FALSE)
        /\ motion' = "none"
  /\ UNCHANGED <<store, flags, goal, hat, svc, stopPc, history>>

(* A dispatch that raised is ambiguous: the row says dispatched, and STOP   *)
(* is latched once the motion lock is free.                                 *)
Ambiguous ==
  /\ lane' = [lane EXCEPT !.pc = "stop", !.moved = TRUE,
                          !.out = IF stopped \/ seen.stopped THEN "stopped" ELSE "fault"]
  /\ motion' = "none"

(* Mutant of Check: only the controller's stop is looked at. *)
CheckRemote ==
  /\ At("check")
  /\ \/ ~seen.stopped /\ Goto("send") /\ UNCHANGED motion
     \/ seen.stopped /\ Ambiguous
  /\ UNCHANGED <<store, flags, arm, svc, stopPc, history>>

(* _without_refusal's check, at the head of the dispatch. *)
Check ==
  /\ At("check")
  /\ \/ ~stopped /\ ~seen.stopped /\ Goto("send") /\ UNCHANGED motion
     \/ (stopped \/ seen.stopped) /\ Ambiguous
  /\ UNCHANGED <<store, flags, arm, svc, stopPc, history>>

(* The arm sets out. *)
Moving(k) ==
  [hat EXCEPT !.at = IF hat.at = k THEN k ELSE Elsewhere, !.moving = TRUE, !.to = k]

(* HOLD_SET and MOVE_SET, in the boot of the link's identity: taken and     *)
(* answered, taken or not with an answer that is lost, or refused.          *)
Send ==
  /\ At("send")
  /\ \/ /\ link # 0 /\ link = hat.boot /\ ~hat.stopped /\ hat' = Moving(lane.leg)
        /\ sent' = [sent EXCEPT ![lane.id][lane.leg] = @ + 1]
        /\ trip' = [reached |-> hat.at = lane.leg, late |-> stopped, boot |-> hat.boot]
        /\ \/ goal' = lane.leg /\ Goto("sample") /\ UNCHANGED <<motion, link>>
           \/ goal' = 0 /\ link' = 0 /\ Ambiguous
     \/ /\ goal' \in {0, goal} /\ link' \in {0, link} /\ Ambiguous
        /\ UNCHANGED <<hat, history>>
  /\ UNCHANGED <<store, flags, seen, svc, stopPc>>

(* The generations are read once the move is on its way. *)
Sample ==
  /\ At("sample") /\ raced' = FALSE /\ news' = FALSE /\ motion' = "none"
  /\ lane' = [lane EXCEPT !.pc = "wait", !.stable = 0, !.moved = TRUE]
  /\ UNCHANGED <<store, stopped, arm, svc, stopPc, history>>

-----------------------------------------------------------------------------
(* _wait_for_arrival: a STOP since the sample, the deadline, or telemetry   *)
(* published since the last look.                                           *)

Overtaken == At("wait") /\ raced /\ Ends("stopped", TRUE)
             /\ UNCHANGED <<store, flags, arm, motion, svc, stopPc, history>>

(* Mutant of TimesOut: the deadline is looked at only when telemetry waits. *)
TimesOutOnNews ==
  /\ At("wait") /\ ~raced /\ news /\ lane.stable > 0 /\ Ends("timeout", TRUE)
  /\ UNCHANGED <<store, flags, arm, motion, svc, stopPc, history>>

TimesOut ==
  /\ At("wait") /\ ~raced /\ ~news /\ Ends("timeout", TRUE)
  /\ UNCHANGED <<store, flags, arm, motion, svc, stopPc, history>>

Look ==
  /\ At("wait") /\ ~raced /\ news /\ news' = FALSE /\ Goto("look")
  /\ UNCHANGED <<store, stopped, raced, arm, motion, svc, stopPc, history>>

(* _arrival_sample: the cache, unless a newer generation was published over *)
(* it.  Telemetry that is late does not qualify.                            *)
Qualifies ==
  /\ link = plans[lane.id].boot /\ seen.boot = link /\ ~seen.stopped
  /\ ~seen.moving /\ seen.at = lane.leg

Judge ==
  /\ At("look")
  /\ \/ news /\ Goto("wait")
     \/ (link = 0 \/ seen.boot # plans[lane.id].boot) /\ Ends("fault", TRUE)
     \/ seen.stopped /\ Ends("stopped", TRUE)
     \/ lane' = [lane EXCEPT !.pc = "wait", !.stable = 0]
     \/ /\ Qualifies
        /\ lane' = [lane EXCEPT !.pc = IF lane.stable + 1 >= Samples THEN "arrived" ELSE "wait",
                                !.stable = @ + 1]
  /\ UNCHANGED <<store, flags, arm, motion, svc, stopPc, history>>

(* The goal is forgotten, the next waypoint begins. *)
Arrived ==
  /\ At("arrived") /\ goal' = 0
  /\ IF lane.leg < Legs
     THEN lane' = [lane EXCEPT !.pc = "lock", !.leg = @ + 1, !.stable = 0]
     ELSE Ends("completed", TRUE)
  /\ UNCHANGED <<store, flags, link, seen, hat, motion, svc, stopPc, history>>

(* An exception after the dispatch is ambiguous too. *)
CheckRaises ==
  /\ lane.pc \in {"wait", "look"}
  /\ lane' = [lane EXCEPT !.pc = "stop", !.out = "fault"]
  /\ UNCHANGED <<store, flags, arm, motion, svc, stopPc, history>>

(* _stop_ambiguous_sequence_failure: the latch, then STOP on the link.      *)
LaneStops ==
  /\ At("stop") /\ Goto("finish")
  /\ stopped' = TRUE /\ raced' = TRUE /\ goal' = 0
  /\ hat' \in {hat, [hat EXCEPT !.stopped = TRUE, !.moving = FALSE]}
  /\ UNCHANGED <<store, news, link, seen, motion, svc, stopPc, history>>

(* Mutant of Finish: only a completed run is kept. *)
FinishCompleted ==
  /\ At("finish") /\ lane' = Idle
  /\ results' = IF lane.out = "completed"
                THEN Append(results, [id |-> lane.id, out |-> lane.out, moved |-> lane.moved])
                ELSE results
  /\ UNCHANGED <<plans, flags, arm, motion, svc, stopPc, history>>

(* finish: the result is kept, the oldest beyond the limit is dropped.      *)
Finish ==
  /\ At("finish") /\ lane' = Idle
  /\ LET kept == Append(results, [id |-> lane.id, out |-> lane.out, moved |-> lane.moved])
     IN results' = IF Len(kept) > Limit THEN Tail(kept) ELSE kept
  /\ UNCHANGED <<plans, flags, arm, motion, svc, stopPc, history>>

-----------------------------------------------------------------------------
(* The service thread.                                                      *)

Recovers ==
  /\ svc = "idle" /\ link = 0 /\ link' \in {0, hat.boot}
  /\ UNCHANGED <<store, flags, goal, seen, hat, motion, threads, history>>

Reads ==
  /\ svc = "idle" /\ link # 0
  /\ \/ StatusServed /\ svc' = "chase"
     \/ StatusFails /\ UNCHANGED svc
  /\ UNCHANGED <<store, flags, goal, hat, motion, lane, stopPc, history>>

(* _chase_goals: done, given up, or sent again to an arm at rest short of   *)
(* the goal.                                                                *)
Chases ==
  /\ svc = "chase" /\ motion = "none" /\ svc' = "publish"
  /\ \/ UNCHANGED <<goal, hat>>
     \/ goal # 0 /\ goal' = 0 /\ UNCHANGED hat
     \/ /\ goal # 0 /\ seen.at # goal /\ ~seen.moving
        /\ link # 0 /\ link = hat.boot /\ ~hat.stopped /\ hat' = Moving(goal) /\ UNCHANGED goal
  /\ UNCHANGED <<store, flags, link, seen, motion, lane, stopPc, history>>

Publishes ==
  /\ svc = "publish" /\ svc' = "idle" /\ news' = TRUE
  /\ UNCHANGED <<store, stopped, raced, arm, motion, lane, stopPc, history>>

-----------------------------------------------------------------------------
(* STOP and clear_stop.                                                     *)

(* late: a STOP of this run was latched, and not by the last check only. *)
StopLatches ==
  /\ stopPc = "idle" /\ stopPc' = "send"
  /\ stopped' = TRUE /\ raced' = TRUE /\ goal' = 0
  /\ trip' = [trip EXCEPT !.late = @ \/ lane.pc # "send"]
  /\ UNCHANGED <<store, news, link, seen, hat, motion, lane, svc, sent>>

StopSent ==
  /\ stopPc = "send" /\ stopPc' = "idle"
  /\ hat' \in {hat, [hat EXCEPT !.stopped = TRUE, !.moving = FALSE]}
  /\ UNCHANGED <<store, flags, goal, link, seen, motion, lane, svc, history>>

ClearStop ==
  /\ At("idle") /\ motion = "none" /\ stopPc = "idle" /\ stopped
  /\ stopped' = FALSE /\ hat' = [hat EXCEPT !.stopped = FALSE, !.moving = FALSE]
  /\ goal' = 0 /\ seen' = [seen EXCEPT !.stopped = FALSE]
  /\ UNCHANGED <<store, raced, news, link, motion, threads, history>>

-----------------------------------------------------------------------------
(* The arm and the controller.                                              *)

Reaches ==
  /\ hat.moving /\ hat' = [hat EXCEPT !.at = hat.to, !.moving = FALSE]
  /\ trip' = [trip EXCEPT !.reached = @ \/ hat.to = lane.leg]
  /\ UNCHANGED <<store, flags, goal, link, seen, motion, threads, sent>>

(* Authority lapses or the controller stops by itself: the arm rests where  *)
(* it happens to be, or sags.                                               *)
Lapses ==
  /\ \E s \in {hat.stopped, TRUE} :
       hat' = [hat EXCEPT !.moving = FALSE, !.at = Elsewhere, !.stopped = s]
  /\ UNCHANGED <<store, flags, goal, link, seen, motion, threads, history>>

Reboots ==
  /\ hat.boot < Boots
  /\ hat' = [hat EXCEPT !.boot = @ + 1, !.moving = FALSE, !.stopped = FALSE]
  /\ UNCHANGED <<store, flags, goal, link, seen, motion, threads, history>>

LaneStep ==
  \/ TakesMotion \/ Revalidate \/ Check \/ Send \/ Sample \/ Overtaken \/ Look
  \/ Judge \/ Arrived \/ LaneStops \/ Finish

Service == Recovers \/ Reads \/ Chases \/ Publishes

Next ==
  \/ \E i \in Ids : Preview(i) \/ Execute(i)
  \/ LaneStep \/ TimesOut \/ CheckRaises
  \/ Service \/ StopLatches \/ StopSent \/ ClearStop
  \/ Reaches \/ Lapses \/ Reboots

Spec == Init /\ [][Next]_vars

(* The threads run.  The deadline is looked at only while no telemetry      *)
(* waits: a look that always took longer than the service's period would    *)
(* never end, so some are assumed to be done before the next.               *)
Fairness ==
  /\ SF_vars(LaneStep) /\ SF_vars(Judge /\ ~news) /\ SF_vars(TimesOut)
  /\ WF_vars(Chases) /\ WF_vars(Publishes)

FairSpec == Spec /\ Fairness

-----------------------------------------------------------------------------
(* The type of the state. *)
TypeOK ==
  /\ plans \in [Ids -> [st : {"new", "stored", "gone"}, boot : 0..Boots, from : Poses]]
  /\ Len(results) <= Limit
  /\ stopped \in BOOLEAN /\ raced \in BOOLEAN /\ news \in BOOLEAN
  /\ goal \in 0..Legs /\ link \in 0..Boots
  /\ hat \in [boot : 1..Boots, at : Poses, moving : BOOLEAN, to : 0..Legs, stopped : BOOLEAN]
  /\ seen \in [boot : 1..Boots, at : Poses, moving : BOOLEAN, stopped : BOOLEAN]
  /\ motion \in {"none", "lane"} /\ svc \in {"idle", "chase", "publish"}
  /\ stopPc \in {"idle", "send"}
  /\ lane.id \in Ids \cup {"none"} /\ lane.leg \in 0..Legs /\ lane.stable \in 0..Samples
  /\ lane.out \in {"none", "stopped", "refused", "fault", "timeout", "completed"}
  /\ (motion = "lane") = (lane.pc \in {"revalidate", "check", "send", "sample"})

(* "Consume exactly one prepared pose": whatever clients retry, however a   *)
(* run ended and whichever results were dropped, no waypoint is dispatched  *)
(* a second time.                                                           *)
DispatchedOnce == \A i \in Ids, k \in 1..Legs : sent[i][k] <= 1

(* "proves each measured arrival before dispatching the next waypoint": a   *)
(* waypoint sets out only after the arm really came to rest at the one      *)
(* before it.                                                               *)
ProvedBeforeNext ==
  \A i \in Ids, k \in 2..Legs : sent'[i][k] # sent[i][k] => trip.reached

(* Once a STOP is latched no waypoint of the route sets out any more: only  *)
(* the one already past its check may still reach the controller.           *)
NothingAfterStop == sent' # sent => ~trip.late

(* Every waypoint sets out in its turn, and none after a STOP. *)
WaypointsInTurn == [][ProvedBeforeNext /\ NothingAfterStop]_vars

(* A proved arrival is that of the move the reviewed boot took. *)
ArrivedOnReviewedBoot ==
  At("arrived") => trip.reached /\ trip.boot = plans[lane.id].boot

(* A route that moved the arm answers a retry with its result, as long as   *)
(* the cache is not full.                                                   *)
RetryReplays ==
  \A i \in Ids : (\E k \in 1..Legs : sent[i][k] > 0) /\ lane.id # i
                   => Cached(i) \/ Len(results) = Limit

(* A result that says nothing was dispatched is right. *)
NoDispatchIsTrue ==
  \A r \in 1..Len(results) : ~results[r].moved => \A k \in 1..Legs : sent[results[r].id][k] = 0

(* A route runs once, on the boot it was reviewed for, and every result     *)
(* says what happened.                                                      *)
RouteRunsOnce ==
  /\ TypeOK
  /\ DispatchedOnce /\ ArrivedOnReviewedBoot
  /\ RetryReplays /\ NoDispatchIsTrue

(* A request is answered: no telemetry, and no wait for it, keeps the       *)
(* operation lock for good.                                                 *)
RequestEnds == lane.pc # "idle" ~> lane.pc = "idle"
=============================================================================
