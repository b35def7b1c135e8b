---------------------------- MODULE PlanRunProofs ----------------------------
(***************************************************************************)
(* Proofs about PlanRun: a reviewed route runs once, every waypoint in its *)
(* turn, for any number of routes, waypoints, samples, kept results and    *)
(* boots.                                                                  *)
(***************************************************************************)
EXTENDS PlanRun, TLAPS

Locked == {"revalidate", "check", "send", "sample"}       \* under the motion lock
Before == {"lock", "revalidate", "check", "send"}         \* the leg is not dispatched
After  == {"sample", "wait", "look", "arrived"}           \* the arm owes the leg
Pcs == {"idle", "stop", "finish"} \cup Before \cup After
Outs == {"none", "stopped", "refused", "fault", "timeout", "completed"}

(* The lane between two requests, and in one. *)
Busy ==
  [pc : Pcs \ {"idle"}, id : Ids, leg : 1..Legs, stable : 0..Samples, out : Outs, moved : BOOLEAN]

LaneShape(l) ==
  \/ l = Idle
  \/ /\ l \in Busy
     /\ l.pc \in {"wait", "look"} => l.stable < Samples
     /\ l.leg > 1 \/ l.pc \in {"wait", "look", "arrived"} => l.moved

(* The state, and the histories the properties are about. *)
PlanSet == [st : {"new", "stored", "gone"}, boot : 0..Boots, from : Poses]
ResultSet == [id : Ids, out : Outs, moved : BOOLEAN]
HatSet == [boot : 1..Boots, at : Poses, moving : BOOLEAN, to : 0..Legs, stopped : BOOLEAN]
SeenSet == [boot : 1..Boots, at : Poses, moving : BOOLEAN, stopped : BOOLEAN]
TripSet == [reached : BOOLEAN, late : BOOLEAN, boot : 0..Boots]

PlansTyped == plans \in [Ids -> PlanSet]
ResultsTyped == results \in Seq(ResultSet) /\ Len(results) <= Limit
FlagsTyped == stopped \in BOOLEAN /\ raced \in BOOLEAN /\ news \in BOOLEAN
ArmTyped == goal \in 0..Legs /\ link \in 0..Boots /\ seen \in SeenSet /\ hat \in HatSet
LaneTyped == LaneShape(lane) /\ motion \in {"none", "lane"} /\ (motion = "lane") = (lane.pc \in Locked)
ThreadsTyped == svc \in {"idle", "chase", "publish"} /\ stopPc \in {"idle", "send"}
SentTyped == sent \in [Ids -> [1..Legs -> {0, 1}]]
TripTyped == trip \in TripSet

Typed ==
  /\ PlansTyped /\ ResultsTyped /\ FlagsTyped /\ ArmTyped /\ LaneTyped /\ ThreadsTyped
  /\ SentTyped /\ TripTyped

(* A plan is consumed before its route sets out, and only its own run       *)
(* dispatches its waypoints, in order.                                      *)
Unsent(i) == \A k \in 1..Legs : sent[i][k] = 0

Consumed ==
  /\ \A i \in Ids : plans[i].st # "gone" => Unsent(i)
  /\ lane.pc # "idle" => plans[lane.id].st = "gone"
  /\ \A r \in 1..Len(results) : plans[results[r].id].st = "gone" /\ results[r].id # lane.id

InOrder ==
  /\ lane.pc \in Before => \A k \in 1..Legs : k >= lane.leg => sent[lane.id][k] = 0
  /\ lane.pc \in After => \A k \in 1..Legs : k > lane.leg => sent[lane.id][k] = 0

(* What the lane and the kept results say of the dispatches. *)
Honest ==
  /\ lane.pc \notin {"idle", "sample"} /\ ~lane.moved => Unsent(lane.id)
  /\ NoDispatchIsTrue /\ RetryReplays

(* Boots only grow, and the move under way is of the reviewed one or later. *)
Grows ==
  /\ link <= hat.boot /\ trip.boot <= hat.boot
  /\ \A i \in Ids : plans[i].boot <= hat.boot
  /\ lane.pc \in After => plans[lane.id].boot <= trip.boot /\ (link = 0 \/ trip.boot <= link)

(* Telemetry of the waypoint that is older than the dispatch counts once:   *)
(* it waits in the service, in the notice or in the look, or has been       *)
(* counted.                                                                 *)
One(b) == IF b THEN 1 ELSE 0

StaleCountsOnce ==
  lane.pc \in {"wait", "look"} /\ seen.at = lane.leg /\ ~trip.reached
    => lane.stable + One(lane.pc = "look") + One(news) + One(svc # "idle") <= 1

Proved ==
  /\ lane.pc \in After /\ hat.at = lane.leg => trip.reached
  /\ StaleCountsOnce
  /\ lane.pc = "arrived" => trip.reached /\ trip.boot = plans[lane.id].boot
  /\ lane.pc \in Before /\ lane.leg > 1 => trip.reached

(* A STOP stays latched while the route runs. *)
StopHolds ==
  /\ lane.pc # "idle" /\ trip.late => stopped
  /\ lane.pc = "send" => ~trip.late

IInv == Typed /\ Consumed /\ InOrder /\ Honest /\ Grows /\ Proved /\ StopHolds
-----------------------------------------------------------------------------
(* The lane in a request. *)
LEMMA LaneActive ==
  ASSUME LaneTyped, lane.pc # "idle"
  PROVE  /\ lane \in Busy
         /\ lane.pc \in {"wait", "look"} => lane.stable < Samples
         /\ lane.leg > 1 \/ lane.pc \in {"wait", "look", "arrived"} => lane.moved
<1>1. lane # Idle BY DEF Idle
<1>. QED BY <1>1 DEF LaneTyped, LaneShape

LEMMA LaneIdle ==
  ASSUME LaneTyped, lane.pc = "idle"
  PROVE  lane = Idle
<1>1. lane \notin Busy BY DEF Busy
<1>. QED BY <1>1 DEF LaneTyped, LaneShape

(* Which steps touch which part of the state. *)
LEMMA StoreFrame ==
  ASSUME Next
  PROVE  \/ UNCHANGED plans /\ UNCHANGED results
         \/ \E i \in Ids : Preview(i) \/ Execute(i)
         \/ Finish
BY DEF Next, LaneStep, Service, TakesMotion, Revalidate, Check, Send, Sample, Overtaken, Look,
       Judge, Arrived, LaneStops, TimesOut, CheckRaises, Recovers, Reads, Chases, Publishes,
       StopLatches, StopSent, ClearStop, Reaches, Lapses, Reboots, store

LEMMA ThreadsTypedStep ==
  ASSUME ThreadsTyped, Next
  PROVE  ThreadsTyped'
BY DEF Next, LaneStep, Service, TakesMotion, Revalidate, Check, Send, Sample, Overtaken, Look,
       Judge, Arrived, LaneStops, TimesOut, CheckRaises, Recovers, Reads, Chases, Publishes,
       StopLatches, StopSent, ClearStop, Reaches, Lapses, Reboots, Preview, Execute, Finish,
       threads, ThreadsTyped

LEMMA FlagsTypedStep ==
  ASSUME FlagsTyped, Next
  PROVE  FlagsTyped'
BY DEF Next, LaneStep, Service, TakesMotion, Revalidate, Check, Send, Sample, Overtaken, Look,
       Judge, Arrived, LaneStops, TimesOut, CheckRaises, Recovers, Reads, Chases, Publishes,
       StopLatches, StopSent, ClearStop, Reaches, Lapses, Reboots, Preview, Execute, Finish,
       flags, FlagsTyped

LEMMA PlansTypedStep ==
  ASSUME PlansTyped, ArmTyped, Next
  PROVE  PlansTyped'
<1>1. ASSUME NEW i \in Ids, Preview(i) PROVE PlansTyped'
  <2>1. [st |-> "stored", boot |-> hat.boot, from |-> hat.at] \in PlanSet
    BY DEF ArmTyped, HatSet, PlanSet
  <2>. QED BY <1>1, <2>1 DEF Preview, PlansTyped
<1>2. ASSUME NEW i \in Ids, Execute(i) PROVE PlansTyped'
  BY <1>2 DEF Execute, PlansTyped, PlanSet
<1>3. CASE Finish
  BY <1>3 DEF Finish, PlansTyped
<1>. QED BY <1>1, <1>2, <1>3, StoreFrame DEF PlansTyped

(* finish: the kept results are the older ones, without the oldest at the   *)
(* limit, and that of this run.                                             *)
LEMMA Kept ==
  ASSUME ResultsTyped, LaneTyped, PlanAssumption, Finish
  PROVE  LET r == [id |-> lane.id, out |-> lane.out, moved |-> lane.moved]
             d == IF Len(results) + 1 > Limit THEN 1 ELSE 0
         IN /\ r \in ResultSet
            /\ results' \in Seq(ResultSet)
            /\ Len(results') = Len(results) + 1 - d
            /\ results'[Len(results')] = r
            /\ \A n \in 1..Len(results') - 1 : results'[n] = results[n + d]
<1>. DEFINE r == [id |-> lane.id, out |-> lane.out, moved |-> lane.moved]
            kept == Append(results, r)
<1>1. r \in ResultSet BY LaneActive DEF Finish, At, ResultSet, Busy
<1>2. /\ kept \in Seq(ResultSet) /\ Len(kept) = Len(results) + 1
      /\ kept[Len(kept)] = r /\ \A n \in 1..Len(results) : kept[n] = results[n]
  BY <1>1 DEF ResultsTyped
<1>3. results' = IF Len(kept) > Limit THEN Tail(kept) ELSE kept
  BY DEF Finish
<1>. HIDE DEF kept, r
<1>4. CASE Len(kept) > Limit
  <2>1. /\ Tail(kept) \in Seq(ResultSet) /\ Len(Tail(kept)) = Len(results)
        /\ \A n \in 1..Len(Tail(kept)) : Tail(kept)[n] = kept[n + 1]
    BY <1>2
  <2>2. Len(results) >= 1 BY <1>2, <1>4 DEF PlanAssumption, ResultsTyped
  <2>. QED BY <1>1, <1>2, <1>3, <1>4, <2>1, <2>2 DEF ResultsTyped, r
<1>5. CASE ~(Len(kept) > Limit)
  BY <1>1, <1>2, <1>3, <1>5 DEF ResultsTyped, PlanAssumption, r
<1>. QED BY <1>4, <1>5

LEMMA ResultsTypedStep ==
  ASSUME ResultsTyped, LaneTyped, PlanAssumption, Next
  PROVE  ResultsTyped'
<1>1. ASSUME NEW i \in Ids, Preview(i) \/ Execute(i) PROVE ResultsTyped'
  BY <1>1 DEF Preview, Execute, ResultsTyped
<1>2. CASE Finish
  BY <1>2, Kept DEF ResultsTyped, PlanAssumption
<1>. QED BY <1>1, <1>2, StoreFrame DEF ResultsTyped

(* The arm sets out for a waypoint. *)
LEMMA MovingTyped ==
  ASSUME ArmTyped, NEW k \in 0..Legs
  PROVE  Moving(k) \in HatSet
BY DEF ArmTyped, Moving, HatSet, Poses, Elsewhere

LEMMA ArmTypedStep ==
  ASSUME ArmTyped, LaneTyped, PlanAssumption, Next
  PROVE  ArmTyped'
<1>. USE DEF ArmTyped
<1>0. 0 \in 0..Boots /\ 0 \in 0..Legs /\ hat.boot \in 0..Boots
  BY DEF PlanAssumption, HatSet
<1>1. StatusServed => seen' \in SeenSet /\ link' \in 0..Boots
  BY DEF StatusServed, Told, HatSet, SeenSet
<1>2. StatusFails => seen' \in SeenSet /\ link' \in 0..Boots
  BY <1>0 DEF StatusFails
<1>3. ASSUME NEW i \in Ids, Preview(i) \/ Execute(i) PROVE ArmTyped'
  BY <1>1, <1>2, <1>3 DEF Preview, Execute, arm
<1>4. CASE TakesMotion \/ Check \/ Sample \/ Overtaken \/ Look \/ Judge \/ Finish \/ TimesOut
           \/ CheckRaises \/ Publishes
  BY <1>4 DEF TakesMotion, Check, Sample, Overtaken, Look, Judge, Finish, TimesOut, CheckRaises,
              Publishes, arm
<1>5. CASE Revalidate
  BY <1>1, <1>2, <1>5 DEF Revalidate
<1>6. CASE Send
  <2>1. lane.leg \in 0..Legs BY <1>6, LaneActive DEF Send, At, Busy
  <2>2. Moving(lane.leg) \in HatSet BY <2>1, MovingTyped
  <2>. QED BY <1>6, <1>0, <2>1, <2>2 DEF Send
<1>7. CASE Arrived \/ Recovers
  BY <1>0, <1>7 DEF Arrived, Recovers
<1>8. CASE LaneStops \/ StopLatches \/ StopSent \/ ClearStop
  BY <1>0, <1>8 DEF LaneStops, StopLatches, StopSent, ClearStop, HatSet, SeenSet
<1>9. CASE Reads
  BY <1>1, <1>2, <1>9 DEF Reads
<1>10. CASE Chases
  BY <1>0, <1>10, MovingTyped DEF Chases
<1>11. CASE Reaches
  <2>1. hat.to \in Poses BY DEF HatSet, Poses
  <2>. QED BY <1>11, <2>1 DEF Reaches, HatSet
<1>12. CASE Lapses
  <2>1. Elsewhere \in Poses BY DEF Poses
  <2>. QED BY <1>12, <2>1 DEF Lapses, HatSet
<1>13. CASE Reboots
  <2>1. hat.boot < Boots => hat.boot + 1 \in 1..Boots BY DEF HatSet, PlanAssumption
  <2>. QED BY <1>13, <2>1 DEF Reboots, HatSet
<1>. QED BY <1>3, <1>4, <1>5, <1>6, <1>7, <1>8, <1>9, <1>10, <1>11, <1>12, <1>13
     DEF Next, LaneStep, Service

(* Only the request's own steps move the lane. *)
Beside ==
  \/ (\E i \in Ids : Preview(i) \/ Execute(i)) \/ Service \/ StopLatches \/ StopSent \/ ClearStop
  \/ Reaches \/ Lapses \/ Reboots

LEMMA LaneFrame ==
  ASSUME Next
  PROVE  \/ Beside /\ UNCHANGED lane /\ UNCHANGED motion
         \/ \E i \in Ids : Execute(i)
         \/ LaneStep \/ TimesOut \/ CheckRaises
BY DEF Next, Beside, Service, Recovers, Reads, Chases, Publishes, StopLatches, StopSent, ClearStop,
       Reaches, Lapses, Reboots, Preview, threads

LEMMA LaneStays ==
  ASSUME lane' \in Busy, motion' \in {"none", "lane"}, (motion' = "lane") = (lane'.pc \in Locked),
         lane'.pc \in {"wait", "look"} => lane'.stable < Samples,
         lane'.leg > 1 \/ lane'.pc \in {"wait", "look", "arrived"} => lane'.moved
  PROVE  LaneTyped'
BY DEF LaneTyped, LaneShape

LEMMA LaneTypedStep ==
  ASSUME LaneTyped, PlanAssumption, Next
  PROVE  LaneTyped'
<1>. USE DEF Pcs, Before, After, Outs, Locked
<1>0. motion \in {"none", "lane"} /\ (motion = "lane") = (lane.pc \in Locked)
  BY DEF LaneTyped
<1>1. ASSUME NEW i \in Ids, Execute(i) PROVE LaneTyped'
  <2>1. lane = Idle BY <1>1, LaneIdle DEF Execute, At
  <2>2. CASE UNCHANGED lane
    BY <1>1, <2>2 DEF Execute, LaneTyped
  <2>3. CASE lane' = [Idle EXCEPT !.pc = "lock", !.id = i, !.leg = 1]
    <3>1. 1 \in 1..Legs /\ 0 \in 0..Samples BY DEF PlanAssumption
    <3>2. lane' \in Busy /\ lane'.pc = "lock" /\ lane'.leg = 1
      BY <2>3, <3>1 DEF Idle, Busy
    <3>3. motion' = "none" BY <1>0, <1>1, <2>1 DEF Execute, Idle
    <3>. QED BY <3>2, <3>3, LaneStays
  <2>. QED BY <1>1, <2>2, <2>3 DEF Execute
<1>2. CASE Finish
  BY <1>2 DEF Finish, LaneTyped, LaneShape, At, Idle
<1>. SUFFICES ASSUME lane.pc # "idle", lane \in Busy,
                     lane.pc \in {"wait", "look"} => lane.stable < Samples,
                     lane.leg > 1 \/ lane.pc \in {"wait", "look", "arrived"} => lane.moved
              PROVE  (LaneStep /\ ~Finish) \/ TimesOut \/ CheckRaises => LaneTyped'
  <2>1. CASE lane.pc = "idle"
    <3>1. ~(LaneStep \/ TimesOut \/ CheckRaises)
      BY <2>1 DEF LaneStep, TakesMotion, Revalidate, Check, Send, Sample, Overtaken, Look, Judge,
                  Arrived, LaneStops, Finish, TimesOut, CheckRaises, At
    <3>. QED BY <1>1, <3>1, LaneFrame DEF LaneTyped
  <2>2. CASE lane.pc # "idle"
    BY <1>1, <1>2, <2>2, LaneActive, LaneFrame DEF LaneTyped, LaneStep
  <2>. QED BY <2>1, <2>2
<1>3. CASE TakesMotion
  <2>1. lane' \in Busy /\ lane'.pc = "revalidate" /\ lane'.leg = lane.leg /\ lane'.moved = lane.moved
    BY <1>3 DEF TakesMotion, Goto, Busy
  <2>. QED BY <1>3, <2>1, LaneStays DEF TakesMotion
<1>4. CASE Revalidate
  <2>1. /\ lane' \in Busy /\ lane'.leg = lane.leg /\ (lane.moved => lane'.moved)
        /\ \/ lane'.pc = "check" /\ motion' = motion
           \/ lane'.pc = "finish" /\ motion' = "none"
    BY <1>4 DEF Revalidate, Goto, Ends, Busy
  <2>. QED BY <1>0, <1>4, <2>1, LaneStays DEF Revalidate, At
<1>5. ASSUME Ambiguous PROVE LaneTyped'
  <2>1. lane' \in Busy /\ lane'.pc = "stop" /\ lane'.moved
    BY <1>5 DEF Ambiguous, Busy
  <2>. QED BY <1>5, <2>1, LaneStays DEF Ambiguous
<1>6. CASE Check
  <2>1. CASE Goto("send") /\ UNCHANGED motion
    <3>1. lane' \in Busy /\ lane'.pc = "send" /\ lane'.leg = lane.leg /\ lane'.moved = lane.moved
      BY <2>1 DEF Goto, Busy
    <3>. QED BY <1>0, <1>6, <2>1, <3>1, LaneStays DEF Check, At
  <2>. QED BY <1>5, <1>6, <2>1 DEF Check
<1>7. CASE Send
  <2>1. CASE Goto("sample") /\ UNCHANGED motion
    <3>1. lane' \in Busy /\ lane'.pc = "sample" /\ lane'.leg = lane.leg /\ lane'.moved = lane.moved
      BY <2>1 DEF Goto, Busy
    <3>. QED BY <1>0, <1>7, <2>1, <3>1, LaneStays DEF Send, At
  <2>. QED BY <1>5, <1>7, <2>1 DEF Send
<1>8. CASE Sample
  <2>1. 0 \in 0..Samples /\ 0 < Samples BY DEF PlanAssumption
  <2>2. lane' \in Busy /\ lane'.pc = "wait" /\ lane'.stable = 0 /\ lane'.moved
    BY <1>8, <2>1 DEF Sample, Busy
  <2>. QED BY <1>8, <2>1, <2>2, LaneStays DEF Sample
<1>9. ASSUME UNCHANGED motion, lane.pc \notin Locked, NEW o \in Outs, Ends(o, TRUE) PROVE LaneTyped'
  <2>1. lane' \in Busy /\ lane'.pc = "finish" /\ lane'.moved
    BY <1>9 DEF Ends, Busy
  <2>. QED BY <1>0, <1>9, <2>1, LaneStays
<1>10. CASE Overtaken \/ TimesOut
  BY <1>9, <1>10 DEF Overtaken, TimesOut, At
<1>11. CASE Look
  <2>1. /\ lane' \in Busy /\ lane'.pc = "look" /\ lane'.stable = lane.stable
        /\ lane'.moved = lane.moved
    BY <1>11 DEF Look, Goto, Busy
  <2>. QED BY <1>0, <1>11, <2>1, LaneStays DEF Look, At
<1>12. CASE Judge
  <2>1. lane.pc = "look" /\ motion' = motion BY <1>12 DEF Judge, At
  <2>2. CASE Ends("fault", TRUE) \/ Ends("stopped", TRUE)
    BY <1>9, <2>1, <2>2
  <2>3. CASE Goto("wait")
    <3>1. /\ lane' \in Busy /\ lane'.pc = "wait" /\ lane'.stable = lane.stable
          /\ lane'.moved = lane.moved
      BY <2>3 DEF Goto, Busy
    <3>. QED BY <1>0, <2>1, <3>1, LaneStays
  <2>4. CASE lane' = [lane EXCEPT !.pc = "wait", !.stable = 0]
    <3>1. 0 \in 0..Samples /\ 0 < Samples BY DEF PlanAssumption
    <3>2. lane' \in Busy /\ lane'.pc = "wait" /\ lane'.stable = 0 /\ lane'.moved = lane.moved
      BY <2>4, <3>1 DEF Busy
    <3>. QED BY <1>0, <2>1, <3>1, <3>2, LaneStays
  <2>5. CASE lane' = [lane EXCEPT !.pc = IF lane.stable + 1 >= Samples THEN "arrived" ELSE "wait",
                                  !.stable = @ + 1]
    <3>1. lane.stable + 1 \in 0..Samples /\ (lane.stable + 1 >= Samples \/ lane.stable + 1 < Samples)
      BY <2>1 DEF PlanAssumption, Busy
    <3>2. /\ lane' \in Busy /\ lane'.stable = lane.stable + 1 /\ lane'.moved = lane.moved
          /\ lane'.pc = "arrived" \/ (lane'.pc = "wait" /\ lane.stable + 1 < Samples)
      BY <2>5, <3>1 DEF Busy
    <3>. QED BY <1>0, <2>1, <3>2, LaneStays
  <2>. QED BY <1>12, <2>2, <2>3, <2>4, <2>5 DEF Judge
<1>13. CASE Arrived
  <2>1. lane.pc = "arrived" /\ lane.moved /\ motion' = motion BY <1>13 DEF Arrived, At
  <2>2. CASE lane.leg < Legs /\ lane' = [lane EXCEPT !.pc = "lock", !.leg = @ + 1, !.stable = 0]
    <3>1. 0 \in 0..Samples /\ lane.leg + 1 \in 1..Legs
      BY <2>2 DEF PlanAssumption, Busy
    <3>2. lane' \in Busy /\ lane'.pc = "lock" /\ lane'.moved
      BY <2>1, <2>2, <3>1 DEF Busy
    <3>. QED BY <1>0, <2>1, <3>2, LaneStays
  <2>. QED BY <1>9, <1>13, <2>1, <2>2 DEF Arrived
<1>14. CASE CheckRaises
  <2>1. lane' \in Busy /\ lane'.pc = "stop" /\ lane'.moved
    BY <1>14 DEF CheckRaises, Busy
  <2>. QED BY <1>0, <1>14, <2>1, LaneStays DEF CheckRaises
<1>15. CASE LaneStops
  <2>1. lane' \in Busy /\ lane'.pc = "finish" /\ lane'.leg = lane.leg /\ lane'.moved = lane.moved
    BY <1>15 DEF LaneStops, Goto, Busy
  <2>. QED BY <1>0, <1>15, <2>1, LaneStays DEF LaneStops, At
<1>. QED
  BY <1>3, <1>4, <1>6, <1>7, <1>8, <1>10, <1>11, <1>12, <1>13, <1>14, <1>15 DEF LaneStep

(* Only a request's start, a dispatch, a STOP and the arm's arrival write   *)
(* the history.                                                             *)
LEMMA HistoryFrame ==
  ASSUME Next
  PROVE  \/ UNCHANGED sent /\ UNCHANGED trip
         \/ UNCHANGED sent /\ ((\E i \in Ids : Execute(i)) \/ StopLatches \/ Reaches)
         \/ Send
BY DEF Next, LaneStep, Service, TakesMotion, Revalidate, Check, Sample, Overtaken, Look,
       Judge, Arrived, LaneStops, TimesOut, CheckRaises, Recovers, Reads, Chases, Publishes,
       StopLatches, StopSent, ClearStop, Reaches, Lapses, Reboots, Preview, Execute, Finish, history

LEMMA TripTypedStep ==
  ASSUME TripTyped, FlagsTyped, ArmTyped, PlanAssumption, Next
  PROVE  TripTyped'
<1>1. 0 \in 0..Boots /\ hat.boot \in 0..Boots BY DEF ArmTyped, HatSet, PlanAssumption
<1>2. CASE Send
  <2>1. [reached |-> hat.at = lane.leg, late |-> stopped, boot |-> hat.boot] \in TripSet
    BY <1>1 DEF TripSet, FlagsTyped
  <2>2. trip' = [reached |-> hat.at = lane.leg, late |-> stopped, boot |-> hat.boot] \/ trip' = trip
    BY <1>2 DEF Send, history
  <2>. QED BY <2>1, <2>2 DEF TripTyped
<1>3. CASE StopLatches \/ Reaches
  BY <1>3 DEF StopLatches, Reaches, TripTyped, TripSet
<1>4. ASSUME NEW i \in Ids, Execute(i) PROVE TripTyped'
  BY <1>1, <1>4 DEF Execute, TripTyped, TripSet, NotYet
<1>. QED BY <1>2, <1>3, <1>4, HistoryFrame DEF TripTyped

(* A waypoint the lane may send was never sent. *)
LEMMA SentTypedStep ==
  ASSUME SentTyped, LaneTyped, InOrder, Next
  PROVE  SentTyped'
<1>1. CASE Send
  <2>1. lane.id \in Ids /\ lane.leg \in 1..Legs /\ sent[lane.id][lane.leg] = 0
    BY <1>1, LaneActive DEF Send, At, InOrder, Before, Busy
  <2>2. sent' = [sent EXCEPT ![lane.id][lane.leg] = @ + 1] \/ sent' = sent
    BY <1>1 DEF Send, history
  <2>3. [sent EXCEPT ![lane.id][lane.leg] = 1] \in [Ids -> [1..Legs -> {0, 1}]]
    BY <2>1 DEF SentTyped
  <2>4. sent[lane.id][lane.leg] + 1 = 1 BY <2>1
  <2>. QED BY <2>2, <2>3, <2>4 DEF SentTyped
<1>. QED BY <1>1, HistoryFrame DEF SentTyped

LEMMA TypedStep ==
  ASSUME IInv, PlanAssumption, [Next]_vars
  PROVE  Typed'
<1>1. CASE Next
  BY <1>1, PlansTypedStep, ResultsTypedStep, FlagsTypedStep, ArmTypedStep, LaneTypedStep,
     ThreadsTypedStep, SentTypedStep, TripTypedStep DEF IInv, Typed
<1>2. CASE UNCHANGED vars
  BY <1>2 DEF vars, IInv, Typed, PlansTyped, ResultsTyped, FlagsTyped, ArmTyped, LaneTyped,
              ThreadsTyped, SentTyped, TripTyped
<1>. QED BY <1>1, <1>2

-----------------------------------------------------------------------------
(* What a step does to the lane: nothing, the start or the end of a run, or *)
(* a move within it.                                                        *)
Prepares ==
  /\ TakesMotion \/ Revalidate \/ Check
  /\ lane.pc \in Before /\ lane'.pc \in Before /\ lane'.leg = lane.leg /\ lane'.moved = lane.moved

Dispatches ==
  /\ Send /\ lane.pc = "send" /\ lane'.pc = "sample" /\ lane'.leg = lane.leg
  /\ link = hat.boot /\ hat' = Moving(lane.leg) /\ UNCHANGED link
  /\ sent' = [sent EXCEPT ![lane.id][lane.leg] = @ + 1]
  /\ trip' = [reached |-> hat.at = lane.leg, late |-> stopped, boot |-> hat.boot]

Watches ==
  /\ Sample \/ Look \/ Judge
  /\ lane.pc \in After /\ lane'.pc \in After \ {"sample"} /\ lane'.leg = lane.leg /\ lane'.moved

Advances ==
  /\ Arrived /\ lane.pc = "arrived" /\ lane.leg < Legs
  /\ lane'.pc = "lock" /\ lane'.leg = lane.leg + 1 /\ lane'.moved

GivesUp ==
  /\ lane'.pc \in {"stop", "finish"} /\ lane.pc # "sample"
  /\ \/ lane'.moved = lane.moved /\ ~Send
     \/ lane'.moved

Runs ==
  /\ lane.pc # "idle" /\ lane'.id = lane.id /\ lane.id \in Ids
  /\ LaneStep \/ TimesOut \/ CheckRaises
  /\ Prepares \/ Dispatches \/ Watches \/ Advances \/ GivesUp

Begins(i) ==
  /\ Execute(i) /\ lane.pc = "idle"
  /\ lane'.pc = "lock" /\ lane'.id = i /\ lane'.leg = 1 /\ ~lane'.moved

LEMMA LaneMoves ==
  ASSUME LaneTyped, Next
  PROVE  \/ Beside /\ UNCHANGED lane
         \/ \E i \in Ids : Begins(i)
         \/ Finish /\ lane.pc = "finish" /\ lane' = Idle
         \/ Runs
<1>1. ASSUME NEW i \in Ids, Execute(i), lane' # lane PROVE Begins(i)
  BY <1>1, LaneIdle DEF Execute, At, Begins, Idle
<1>5. ASSUME NEW i \in Ids, Execute(i) PROVE Begins(i) \/ (Beside /\ UNCHANGED lane)
  BY <1>1, <1>5 DEF Beside
<1>2. CASE lane.pc = "idle"
  <2>1. ~(LaneStep \/ TimesOut \/ CheckRaises)
    BY <1>2 DEF LaneStep, TakesMotion, Revalidate, Check, Send, Sample, Overtaken, Look, Judge,
                Arrived, LaneStops, Finish, TimesOut, CheckRaises, At
  <2>. QED BY <1>5, <2>1, LaneFrame
<1>3. CASE lane.pc # "idle"
  <2>. SUFFICES ASSUME LaneStep \/ TimesOut \/ CheckRaises
                PROVE  (Finish /\ lane.pc = "finish" /\ lane' = Idle) \/ Runs
    BY <1>5, LaneFrame
  <2>1. /\ lane \in Busy /\ lane.id \in Ids
        /\ lane.pc \in {"wait", "look", "arrived"} => lane.moved
    BY <1>3, LaneActive DEF Busy
  <2>. USE DEF Busy, Before, After, Goto, At
  <2>2. CASE Finish BY <2>2 DEF Finish
  <2>3. CASE TakesMotion
    <3>1. Prepares /\ lane'.id = lane.id BY <2>1, <2>3 DEF TakesMotion, Prepares
    <3>. QED BY <1>3, <2>1, <3>1 DEF Runs
  <2>4. CASE Revalidate
    <3>1. lane'.id = lane.id /\ (Prepares \/ GivesUp)
      <4>1. CASE Goto("check") BY <2>1, <2>4, <4>1 DEF Revalidate, Prepares
      <4>2. ASSUME NEW o \in {"stopped", "refused"}, Ends(o, FALSE)
            PROVE lane'.id = lane.id /\ GivesUp
        BY <2>1, <2>4, <4>2 DEF Ends, GivesUp, Revalidate, Send
      <4>. QED BY <2>4, <4>1, <4>2 DEF Revalidate
    <3>. QED BY <1>3, <2>1, <3>1 DEF Runs
  <2>5. ASSUME Ambiguous, lane.pc # "sample" PROVE lane'.id = lane.id /\ GivesUp
    BY <2>1, <2>5 DEF Ambiguous, GivesUp
  <2>6. CASE Check
    <3>1. lane'.id = lane.id /\ (Prepares \/ GivesUp)
      <4>1. CASE Goto("send") BY <2>1, <2>6, <4>1 DEF Check, Prepares
      <4>. QED BY <2>5, <2>6, <4>1 DEF Check
    <3>. QED BY <1>3, <2>1, <3>1 DEF Runs
  <2>7. CASE Send
    <3>1. lane'.id = lane.id /\ (Dispatches \/ GivesUp)
      <4>1. CASE Goto("sample") /\ ~Ambiguous
        <5>1. lane'.id = lane.id /\ lane'.pc = "sample" /\ lane'.leg = lane.leg
          BY <2>1, <4>1
        <5>2. /\ link = hat.boot /\ hat' = Moving(lane.leg) /\ UNCHANGED link
              /\ sent' = [sent EXCEPT ![lane.id][lane.leg] = @ + 1]
              /\ trip' = [reached |-> hat.at = lane.leg, late |-> stopped, boot |-> hat.boot]
          BY <2>7, <4>1 DEF Send
        <5>. QED BY <2>7, <4>1, <5>1, <5>2 DEF Send, Dispatches
      <4>. QED BY <2>5, <2>7, <4>1 DEF Send
    <3>. QED BY <1>3, <2>1, <3>1 DEF Runs
  <2>8. CASE Sample
    <3>1. lane'.id = lane.id /\ Watches BY <2>1, <2>8 DEF Sample, Watches
    <3>. QED BY <1>3, <2>1, <3>1 DEF Runs
  <2>9. ASSUME lane.pc # "sample", NEW o \in Outs, Ends(o, TRUE) PROVE lane'.id = lane.id /\ GivesUp
    BY <2>1, <2>9 DEF Ends, GivesUp
  <2>10. CASE Overtaken \/ TimesOut
    <3>1. lane'.id = lane.id /\ GivesUp BY <2>9, <2>10 DEF Overtaken, TimesOut, Outs
    <3>. QED BY <1>3, <2>1, <3>1 DEF Runs
  <2>11. CASE Look
    <3>1. lane'.id = lane.id /\ Watches BY <2>1, <2>11 DEF Look, Watches
    <3>. QED BY <1>3, <2>1, <3>1 DEF Runs
  <2>12. CASE Judge
    <3>1. CASE Ends("fault", TRUE) \/ Ends("stopped", TRUE)
      <4>1. lane'.id = lane.id /\ GivesUp BY <2>9, <2>12, <3>1 DEF Judge, Outs
      <4>. QED BY <1>3, <2>1, <4>1 DEF Runs
    <3>2. CASE ~(Ends("fault", TRUE) \/ Ends("stopped", TRUE))
      <4>1. lane'.id = lane.id /\ Watches BY <2>1, <2>12, <3>2 DEF Judge, Watches
      <4>. QED BY <1>3, <2>1, <4>1 DEF Runs
    <3>. QED BY <3>1, <3>2
  <2>13. CASE Arrived
    <3>1. CASE lane.leg < Legs /\ lane' = [lane EXCEPT !.pc = "lock", !.leg = @ + 1, !.stable = 0]
      <4>1. lane'.id = lane.id /\ Advances BY <2>1, <2>13, <3>1 DEF Arrived, Advances
      <4>. QED BY <1>3, <2>1, <4>1 DEF Runs
    <3>2. CASE Ends("completed", TRUE)
      <4>1. lane'.id = lane.id /\ GivesUp BY <2>9, <2>13, <3>2 DEF Arrived, Outs
      <4>. QED BY <1>3, <2>1, <4>1 DEF Runs
    <3>. QED BY <2>13, <3>1, <3>2 DEF Arrived
  <2>14. CASE CheckRaises
    <3>1. lane'.id = lane.id /\ GivesUp BY <2>1, <2>14 DEF CheckRaises, GivesUp
    <3>. QED BY <1>3, <2>1, <3>1 DEF Runs
  <2>15. CASE LaneStops
    <3>1. lane'.id = lane.id /\ GivesUp BY <2>1, <2>15 DEF LaneStops, GivesUp, Send
    <3>. QED BY <1>3, <2>1, <3>1 DEF Runs
  <2>. QED
    BY <2>2, <2>3, <2>4, <2>6, <2>7, <2>8, <2>10, <2>11, <2>12, <2>13, <2>14, <2>15 DEF LaneStep
<1>. QED BY <1>2, <1>3

LEMMA SentMoves ==
  ASSUME LaneTyped, Next
  PROVE  \/ UNCHANGED sent
         \/ /\ Send /\ lane.pc = "send" /\ lane.id \in Ids /\ lane.leg \in 1..Legs
            /\ sent' = [sent EXCEPT ![lane.id][lane.leg] = @ + 1]
            /\ lane'.id = lane.id /\ lane'.pc # "idle" /\ (lane'.pc = "sample" \/ lane'.moved)
<1>1. CASE Send /\ sent' # sent
  <2>1. lane \in Busy /\ lane.pc = "send" BY <1>1, LaneActive DEF Send, At
  <2>2. sent' = [sent EXCEPT ![lane.id][lane.leg] = @ + 1] BY <1>1 DEF Send, history
  <2>3. Goto("sample") \/ Ambiguous BY <1>1 DEF Send
  <2>4. lane'.id = lane.id /\ lane'.pc # "idle" /\ (lane'.pc = "sample" \/ lane'.moved)
    BY <2>1, <2>3 DEF Goto, Ambiguous, Busy
  <2>. QED BY <1>1, <2>1, <2>2, <2>4 DEF Busy
<1>. QED BY <1>1, HistoryFrame

(* A consumed plan stays consumed, and keeps its boot. *)
LEMMA PlansMove ==
  ASSUME PlansTyped, Next, NEW i \in Ids, plans[i].st = "gone"
  PROVE  plans'[i].st = "gone" /\ plans'[i].boot = plans[i].boot
<1>1. ASSUME NEW j \in Ids, Preview(j) PROVE plans'[i] = plans[i]
  BY <1>1 DEF Preview, PlansTyped
<1>2. ASSUME NEW j \in Ids, Execute(j) PROVE plans'[i] = plans[i]
  BY <1>2 DEF Execute, PlansTyped, PlanSet
<1>. QED BY <1>1, <1>2, StoreFrame DEF Finish

(* A dispatch moves the lane. *)
LEMMA LaneFixed ==
  ASSUME LaneTyped, Next, UNCHANGED lane
  PROVE  UNCHANGED sent
<1>. SUFFICES ASSUME sent' # sent PROVE FALSE OBVIOUS
<1>1. Send /\ lane.pc = "send" /\ (Goto("sample") \/ Ambiguous)
  BY SentMoves DEF Send
<1>2. lane \in Busy BY <1>1, LaneActive
<1>3. lane'.pc \in {"sample", "stop"} BY <1>1, <1>2 DEF Goto, Ambiguous, Busy
<1>. QED BY <1>1, <1>3

(* A kept result is an older one or that of the run that ends. *)
LEMMA ResultsMove ==
  ASSUME ResultsTyped, LaneTyped, PlanAssumption, Next, NEW r \in 1..Len(results')
  PROVE  \/ \E n \in 1..Len(results) : results'[r] = results[n]
         \/ Finish /\ results'[r] = [id |-> lane.id, out |-> lane.out, moved |-> lane.moved]
<1>1. CASE UNCHANGED results BY <1>1
<1>2. CASE Finish
  <2>1. CASE r = Len(results')
    BY <1>2, <2>1, Kept
  <2>2. CASE r # Len(results')
    <3>1. Len(results) \in Nat /\ Len(results') \in Nat BY <1>2, Kept DEF ResultsTyped
    <3>2. PICK d \in {0, 1} : /\ Len(results') = Len(results) + 1 - d
                              /\ \A n \in 1..Len(results') - 1 : results'[n] = results[n + d]
      BY <1>2, Kept
    <3>3. r \in 1..Len(results') - 1 /\ r + d \in 1..Len(results)
      BY <2>2, <3>1, <3>2
    <3>. QED BY <3>2, <3>3
  <2>. QED BY <2>1, <2>2
<1>3. ASSUME NEW i \in Ids, Preview(i) \/ Execute(i) PROVE UNCHANGED results
  BY <1>3 DEF Preview, Execute
<1>. QED BY <1>1, <1>2, <1>3, StoreFrame

LEMMA ConsumedStep ==
  ASSUME IInv, PlanAssumption, Next
  PROVE  Consumed'
<1>. USE DEF IInv, Typed
<1>1. ASSUME NEW i \in Ids, plans'[i].st # "gone" PROVE Unsent(i)'
  <2>1. plans[i].st # "gone" BY <1>1, PlansMove
  <2>2. Unsent(i) BY <2>1 DEF Consumed
  <2>3. ASSUME sent' # sent PROVE i # lane.id
    BY <2>1, <2>3, SentMoves DEF Consumed
  <2>4. CASE Send /\ lane.id # i /\ lane.id \in Ids
             /\ sent' = [sent EXCEPT ![lane.id][lane.leg] = @ + 1]
    BY <2>2, <2>4 DEF Unsent, SentTyped
  <2>5. CASE UNCHANGED sent BY <2>2, <2>5 DEF Unsent
  <2>. QED BY <2>3, <2>4, <2>5, SentMoves
<1>2. lane'.pc # "idle" => lane'.id \in Ids /\ plans'[lane'.id].st = "gone"
  <2>1. ASSUME lane.pc # "idle", lane'.id = lane.id PROVE lane'.id \in Ids /\ plans'[lane'.id].st = "gone"
    BY <2>1, LaneActive, PlansMove DEF Consumed, Busy
  <2>2. ASSUME NEW i \in Ids, Begins(i) PROVE lane'.id \in Ids /\ plans'[lane'.id].st = "gone"
    BY <2>2 DEF Begins, Execute, PlansTyped, PlanSet
  <2>3. Idle.pc = "idle" BY DEF Idle
  <2>. QED BY <2>1, <2>2, <2>3, LaneMoves DEF Runs
<1>3. ASSUME NEW r \in 1..Len(results')
      PROVE plans'[results'[r].id].st = "gone" /\ results'[r].id # lane'.id
  <2>1. CASE UNCHANGED results
    <3>1. r \in 1..Len(results) /\ results[r] \in ResultSet BY <2>1, <1>3 DEF ResultsTyped
    <3>2. results[r].id \in Ids BY <3>1 DEF ResultSet
    <3>3. /\ plans[results[r].id].st = "gone" /\ results[r].id # lane.id
          /\ plans'[results[r].id].st = "gone"
      BY <3>1, <3>2, PlansMove DEF Consumed
    <3>4. ASSUME NEW i \in Ids, Begins(i) PROVE results[r].id # i
      <4>1. plans[i].st # "gone" BY <3>4 DEF Begins, Execute
      <4>. QED BY <3>3, <4>1
    <3>5. Idle.id = "none" /\ "none" \notin Ids BY DEF Idle, PlanAssumption
    <3>6. results[r].id # lane'.id
      BY <3>2, <3>3, <3>4, <3>5, LaneMoves DEF Runs, Begins
    <3>. QED BY <2>1, <3>3, <3>6
  <2>2. CASE Finish
    <3>1. lane' = Idle /\ UNCHANGED plans /\ lane.pc # "idle" BY <2>2 DEF Finish, At
    <3>2. lane.id \in Ids /\ plans[lane.id].st = "gone" BY <3>1, LaneActive DEF Consumed, Busy
    <3>3. results'[r].id \in Ids
      <4>1. results' \in Seq(ResultSet) BY <2>2, Kept
      <4>2. results'[r] \in ResultSet BY <1>3, <4>1
      <4>. QED BY <4>2 DEF ResultSet
    <3>4. results'[r].id = lane.id \/ \E n \in 1..Len(results) : results'[r] = results[n]
      BY <1>3, ResultsMove
    <3>5. plans[results'[r].id].st = "gone" BY <3>2, <3>4 DEF Consumed
    <3>. QED BY <3>1, <3>3, <3>5 DEF Idle, PlanAssumption
  <2>3. ASSUME NEW i \in Ids, Preview(i) \/ Execute(i) PROVE UNCHANGED results
    BY <2>3 DEF Preview, Execute
  <2>. QED BY <2>1, <2>2, <2>3, StoreFrame
<1>. QED BY <1>1, <1>2, <1>3 DEF Consumed

LEMMA InOrderStep ==
  ASSUME IInv, PlanAssumption, Next
  PROVE  InOrder'
<1>. USE DEF IInv, Typed
<1>1. CASE UNCHANGED lane
  <2>1. UNCHANGED sent BY <1>1, LaneFixed
  <2>. QED BY <1>1, <2>1 DEF InOrder
<1>2. ASSUME NEW i \in Ids, Begins(i) PROVE InOrder'
  <2>1. UNCHANGED sent /\ Unsent(i) BY <1>2 DEF Begins, Execute, Consumed
  <2>. QED BY <1>2, <2>1 DEF InOrder, Begins, Before, After, Unsent
<1>3. CASE Finish /\ lane' = Idle
  BY <1>3 DEF InOrder, Idle, Before, After
<1>4. CASE Runs
  <2>1. lane \in Busy BY <1>4, LaneActive DEF Runs
  <2>. USE DEF Busy
  <2>2. CASE Prepares
    <3>1. UNCHANGED sent BY <2>2 DEF Prepares, TakesMotion, Revalidate, Check, history
    <3>. QED BY <1>4, <2>2, <3>1 DEF InOrder, Prepares, Runs, Before, After
  <2>3. CASE Dispatches
    <3>1. \A k \in 1..Legs : k > lane.leg => sent[lane.id][k] = 0
      BY <2>1, <2>3 DEF InOrder, Dispatches, Before
    <3>2. \A k \in 1..Legs : k > lane.leg => sent'[lane.id][k] = 0
      BY <1>4, <2>1, <2>3, <3>1 DEF Dispatches, SentTyped, Runs
    <3>. QED BY <1>4, <2>3, <3>2 DEF InOrder, Dispatches, Runs, Before
  <2>4. CASE Watches
    <3>1. UNCHANGED sent BY <2>4 DEF Watches, Sample, Look, Judge, history
    <3>. QED BY <1>4, <2>4, <3>1 DEF InOrder, Watches, Runs, Before, After
  <2>5. CASE Advances
    <3>1. UNCHANGED sent BY <2>5 DEF Advances, Arrived, history
    <3>2. \A k \in 1..Legs : k > lane.leg => sent[lane.id][k] = 0
      BY <2>5 DEF InOrder, Advances, After
    <3>3. \A k \in 1..Legs : k >= lane.leg + 1 => sent[lane.id][k] = 0
      BY <2>1, <3>2
    <3>. QED BY <1>4, <2>5, <3>1, <3>3 DEF InOrder, Advances, Runs, Before, After
  <2>6. CASE GivesUp
    BY <2>6 DEF InOrder, GivesUp, Before, After
  <2>. QED BY <1>4, <2>2, <2>3, <2>4, <2>5, <2>6 DEF Runs
<1>. QED BY <1>1, <1>2, <1>3, <1>4, LaneMoves

LEMMA HonestStep ==
  ASSUME IInv, PlanAssumption, Next
  PROVE  Honest'
<1>. USE DEF IInv, Typed
<1>1. lane'.pc \notin {"idle", "sample"} /\ ~lane'.moved => Unsent(lane.id)'
  <2>1. CASE UNCHANGED lane
    <3>1. UNCHANGED sent BY <2>1, LaneFixed
    <3>. QED BY <2>1, <3>1 DEF Honest, Unsent
  <2>2. ASSUME NEW i \in Ids, Begins(i) PROVE Unsent(lane.id)'
    BY <2>2 DEF Begins, Execute, Consumed, Unsent
  <2>3. CASE lane' = Idle BY <2>3 DEF Idle
  <2>4. CASE Runs
    <3>1. CASE Prepares
      <4>1. UNCHANGED sent BY <3>1 DEF Prepares, TakesMotion, Revalidate, Check, history
      <4>2. lane.pc \notin {"idle", "sample"} BY <3>1 DEF Prepares, Before
      <4>. QED BY <2>4, <3>1, <4>1, <4>2 DEF Honest, Prepares, Runs, Unsent
    <3>2. CASE Dispatches \/ Watches \/ Advances
      BY <3>2 DEF Dispatches, Watches, Advances
    <3>3. CASE GivesUp
      <4>1. CASE lane'.moved = lane.moved /\ ~Send
        <5>1. UNCHANGED sent BY <4>1, SentMoves
        <5>. QED BY <2>4, <3>3, <4>1, <5>1 DEF Honest, GivesUp, Runs, Unsent
      <4>. QED BY <3>3, <4>1 DEF GivesUp
    <3>. QED BY <2>4, <3>1, <3>2, <3>3 DEF Runs
  <2>. QED BY <2>1, <2>2, <2>3, <2>4, LaneMoves
<1>2. NoDispatchIsTrue'
  <2>. SUFFICES ASSUME NEW r \in 1..Len(results'), ~results'[r].moved
                PROVE  \A k \in 1..Legs : sent'[results'[r].id][k] = 0
    BY DEF NoDispatchIsTrue
  <2>1. ASSUME NEW n \in 1..Len(results), results'[r] = results[n]
        PROVE \A k \in 1..Legs : sent'[results'[r].id][k] = 0
    <3>1. results[n] \in ResultSet BY DEF ResultsTyped
    <3>2. results[n].id \in Ids BY <3>1 DEF ResultSet
    <3>3. \A k \in 1..Legs : sent[results[n].id][k] = 0 BY <2>1 DEF Honest, NoDispatchIsTrue
    <3>4. results[n].id # lane.id BY DEF Consumed
    <3>5. sent'[results[n].id] = sent[results[n].id]
      BY <3>2, <3>4, SentMoves DEF SentTyped
    <3>. QED BY <2>1, <3>3, <3>5
  <2>2. ASSUME Finish, results'[r] = [id |-> lane.id, out |-> lane.out, moved |-> lane.moved]
        PROVE \A k \in 1..Legs : sent'[results'[r].id][k] = 0
    <3>1. lane.pc = "finish" /\ UNCHANGED sent BY <2>2 DEF Finish, At, history
    <3>2. ~lane.moved BY <2>2
    <3>. QED BY <2>2, <3>1, <3>2 DEF Honest, Unsent
  <2>. QED BY <2>1, <2>2, ResultsMove
<1>3. RetryReplays'
  <2>. SUFFICES ASSUME NEW i \in Ids, NEW k \in 1..Legs, sent'[i][k] > 0, lane'.id # i
                PROVE  Cached(i)' \/ Len(results') = Limit
    BY DEF RetryReplays
  <2>1. sent[i][k] > 0
    <3>1. sent'[i] = sent[i] BY SentMoves DEF SentTyped
    <3>. QED BY <3>1
  <2>2. CASE ~Finish
    <3>1. UNCHANGED results
      <4>1. ASSUME NEW j \in Ids, Preview(j) \/ Execute(j) PROVE UNCHANGED results
        BY <4>1 DEF Preview, Execute
      <4>. QED BY <2>2, <4>1, StoreFrame
    <3>2. lane.id # i
      <4>1. lane.pc = "idle" => lane.id = "none" BY LaneIdle DEF Idle
      <4>. QED BY <2>2, <4>1, LaneMoves DEF Begins, Runs, PlanAssumption
    <3>. QED BY <2>1, <3>1, <3>2 DEF Honest, RetryReplays, Cached
  <2>3. CASE Finish
    <3>. DEFINE d == IF Len(results) + 1 > Limit THEN 1 ELSE 0
    <3>1. /\ Len(results') = Len(results) + 1 - d /\ results'[Len(results')].id = lane.id
          /\ \A n \in 1..Len(results') - 1 : results'[n] = results[n + d]
      BY <2>3, Kept
    <3>2. Len(results) \in Nat /\ Len(results) <= Limit /\ Limit \in Nat \ {0}
      BY DEF ResultsTyped, PlanAssumption
    <3>3. CASE d = 1
      BY <3>1, <3>2, <3>3
    <3>4. CASE d = 0
      <4>1. Len(results') = Len(results) + 1 /\ Len(results) < Limit BY <3>1, <3>2, <3>4
      <4>2. CASE lane.id = i
        <5>1. Len(results') \in 1..Len(results') BY <3>2, <4>1
        <5>. QED BY <3>1, <4>2, <5>1 DEF Cached
      <4>3. CASE lane.id # i
        <5>1. PICK n \in 1..Len(results) : results[n].id = i
          BY <2>1, <3>2, <4>1, <4>3 DEF Honest, RetryReplays, Cached
        <5>2. n \in 1..Len(results') - 1 /\ n \in 1..Len(results') /\ n + d = n BY <3>2, <3>4, <4>1
        <5>3. results'[n].id = i BY <3>1, <5>1, <5>2
        <5>. QED BY <5>2, <5>3 DEF Cached
      <4>. QED BY <4>2, <4>3
    <3>. QED BY <3>3, <3>4
  <2>. QED BY <2>2, <2>3
<1>. QED BY <1>1, <1>2, <1>3 DEF Honest

-----------------------------------------------------------------------------
(* What a step does to the boots and to the arm.                            *)
LEMMA BootsMove ==
  ASSUME ArmTyped, PlansTyped, Next
  PROVE  /\ hat.boot <= hat'.boot
         /\ link' \in {0, link, hat.boot}
         /\ \A i \in Ids : plans'[i].boot \in {plans[i].boot, hat.boot}
<1>1. hat.boot \in Nat BY DEF ArmTyped, HatSet
<1>2. hat.boot <= hat'.boot
  <2>1. \A k : Moving(k).boot = hat.boot BY DEF Moving, ArmTyped, HatSet
  <2>2. ASSUME UNCHANGED hat PROVE hat.boot <= hat'.boot
    BY <1>1, <2>2
  <2>3. CASE Send
    <3>1. hat' = Moving(lane.leg) \/ hat' = hat BY <2>3 DEF Send
    <3>. QED BY <1>1, <2>1, <3>1
  <2>4. CASE Chases
    <3>1. hat' = Moving(goal) \/ hat' = hat BY <2>4 DEF Chases
    <3>. QED BY <1>1, <2>1, <3>1
  <2>5. CASE LaneStops \/ StopSent \/ ClearStop \/ Reaches \/ Lapses
    <3>1. hat'.boot = hat.boot
      BY <2>5 DEF LaneStops, StopSent, ClearStop, Reaches, Lapses, ArmTyped, HatSet
    <3>. QED BY <1>1, <3>1
  <2>6. CASE Reboots
    <3>1. hat'.boot = hat.boot + 1 BY <2>6 DEF Reboots, ArmTyped, HatSet
    <3>. QED BY <1>1, <3>1
  <2>7. \/ UNCHANGED hat
        \/ Send \/ Chases \/ LaneStops \/ StopSent \/ ClearStop \/ Reaches \/ Lapses \/ Reboots
    BY DEF Next, LaneStep, Service, TakesMotion, Revalidate, Check, Sample, Overtaken, Look,
           Judge, Arrived, TimesOut, CheckRaises, Recovers, Reads, Publishes, StopLatches,
           Preview, Execute, Finish, arm
  <2>. QED BY <2>2, <2>3, <2>4, <2>5, <2>6, <2>7
<1>3. link' \in {0, link, hat.boot}
  BY DEF Next, LaneStep, Service, TakesMotion, Revalidate, Check, Send, Sample, Overtaken, Look,
         Judge, Arrived, LaneStops, TimesOut, CheckRaises, Recovers, Reads, Chases, Publishes,
         StopLatches, StopSent, ClearStop, Reaches, Lapses, Reboots, Preview, Execute, Finish, arm,
         StatusServed, StatusFails
<1>4. ASSUME NEW i \in Ids PROVE plans'[i].boot \in {plans[i].boot, hat.boot}
  <2>1. ASSUME NEW j \in Ids, Preview(j) PROVE plans'[i].boot \in {plans[i].boot, hat.boot}
    BY <2>1 DEF Preview, PlansTyped
  <2>2. ASSUME NEW j \in Ids, Execute(j) PROVE plans'[i].boot = plans[i].boot
    <3>1. plans' = [plans EXCEPT ![j].st = "gone"] BY <2>2 DEF Execute
    <3>. QED BY <3>1 DEF PlansTyped, PlanSet
  <2>. QED BY <2>1, <2>2, StoreFrame DEF Finish
<1>. QED BY <1>2, <1>3, <1>4

(* The arm comes to a waypoint only by reaching it.                         *)
LEMMA ArmMoves ==
  ASSUME ArmTyped, LaneTyped, Next, hat'.at # hat.at
  PROVE  hat'.at = Elsewhere \/ Reaches
<1>1. \A k : Moving(k).at \in {hat.at, Elsewhere} BY DEF Moving, ArmTyped, HatSet
<1>2. CASE Send
  <2>1. hat' = Moving(lane.leg) \/ hat' = hat BY <1>2 DEF Send
  <2>. QED BY <1>1, <2>1
<1>3. CASE Chases
  <2>1. hat' = Moving(goal) \/ hat' = hat BY <1>3 DEF Chases
  <2>. QED BY <1>1, <2>1
<1>4. CASE LaneStops \/ StopSent \/ ClearStop \/ Reboots
  BY <1>4 DEF LaneStops, StopSent, ClearStop, Reboots, ArmTyped, HatSet
<1>5. CASE Lapses BY <1>5 DEF Lapses, ArmTyped, HatSet
<1>6. \/ UNCHANGED hat
      \/ Send \/ Chases \/ LaneStops \/ StopSent \/ ClearStop \/ Reaches \/ Lapses \/ Reboots
  BY DEF Next, LaneStep, Service, TakesMotion, Revalidate, Check, Sample, Overtaken, Look,
         Judge, Arrived, TimesOut, CheckRaises, Recovers, Reads, Publishes, StopLatches,
         Preview, Execute, Finish, arm
<1>. QED BY <1>2, <1>3, <1>4, <1>5, <1>6

(* The history of the waypoint, within a run.                               *)
LEMMA TripMoves ==
  ASSUME TripTyped, LaneTyped, Next, lane.pc # "idle"
  PROVE  \/ /\ trip'.boot = trip.boot /\ (trip.reached => trip'.reached)
            /\ \/ trip'.late = trip.late
               \/ StopLatches /\ lane.pc # "send"
         \/ Send /\ trip' = [reached |-> hat.at = lane.leg, late |-> stopped, boot |-> hat.boot]
<1>1. CASE Send BY <1>1 DEF Send, history
<1>2. CASE StopLatches BY <1>2 DEF StopLatches, TripTyped, TripSet
<1>3. CASE Reaches BY <1>3 DEF Reaches, TripTyped, TripSet
<1>4. CASE UNCHANGED trip BY <1>4
<1>5. ASSUME NEW i \in Ids, Execute(i) PROVE FALSE BY <1>5 DEF Execute, At
<1>. QED BY <1>1, <1>2, <1>3, <1>4, <1>5, HistoryFrame

LEMMA GrowsStep ==
  ASSUME IInv, PlanAssumption, Next
  PROVE  Grows'
<1>. USE DEF IInv, Typed
<1>1. /\ hat.boot \in Nat /\ hat'.boot \in Nat /\ link \in Nat /\ link' \in Nat
      /\ trip.boot \in Nat /\ trip'.boot \in Nat /\ \A i \in Ids : plans[i].boot \in Nat
  <2>1. ArmTyped' /\ TripTyped' BY TypedStep
  <2>. QED BY <2>1 DEF ArmTyped, TripTyped, PlansTyped, HatSet, TripSet, PlanSet, PlanAssumption
<1>2. link' <= hat'.boot
  BY <1>1, BootsMove DEF Grows
<1>3. ASSUME NEW i \in Ids PROVE plans'[i].boot <= hat'.boot
  BY <1>1, BootsMove DEF Grows
<1>4. trip'.boot <= hat'.boot
  <2>1. CASE lane.pc = "idle"
    <3>1. ~Send BY <2>1 DEF Send, At
    <3>2. ASSUME NEW i \in Ids, Execute(i) PROVE trip'.boot = 0 BY <3>2 DEF Execute, NotYet
    <3>3. StopLatches \/ Reaches => trip'.boot = trip.boot
      BY DEF StopLatches, Reaches, TripTyped, TripSet
    <3>4. trip'.boot \in {0, trip.boot} BY <3>1, <3>2, <3>3, HistoryFrame
    <3>. QED BY <1>1, <3>4, BootsMove DEF Grows
  <2>2. CASE lane.pc # "idle"
    <3>1. trip'.boot \in {hat.boot, trip.boot} BY <2>2, TripMoves
    <3>. QED BY <1>1, <3>1, BootsMove DEF Grows
  <2>. QED BY <2>1, <2>2
<1>5. ASSUME lane'.pc \in After
      PROVE  plans'[lane'.id].boot <= trip'.boot /\ (link' = 0 \/ trip'.boot <= link')
  <2>1. CASE Runs /\ Dispatches
    <3>1. lane'.id = lane.id /\ lane.id \in Ids /\ plans[lane.id].st = "gone"
      BY <2>1 DEF Runs, Consumed
    <3>2. plans'[lane.id].boot = plans[lane.id].boot BY <3>1, PlansMove
    <3>3. trip'.boot = hat.boot /\ link' = hat.boot BY <2>1 DEF Dispatches
    <3>. QED BY <1>1, <3>1, <3>2, <3>3 DEF Grows
  <2>2. CASE lane.pc \in After /\ lane'.id = lane.id
    <3>1. lane.id \in Ids /\ plans[lane.id].st = "gone"
      BY <2>2, LaneActive DEF Consumed, After, Busy
    <3>2. plans'[lane.id].boot = plans[lane.id].boot BY <3>1, PlansMove
    <3>3. ~Send BY <2>2 DEF Send, At, After
    <3>4. trip'.boot = trip.boot BY <2>2, <3>3, TripMoves DEF After
    <3>. QED BY <1>1, <2>2, <3>1, <3>2, <3>4, BootsMove DEF Grows
  <2>3. CASE lane' = Idle BY <1>5, <2>3 DEF Idle, After
  <2>. QED
    BY <1>5, <2>1, <2>2, <2>3, LaneMoves
       DEF Begins, Runs, Prepares, Watches, Advances, GivesUp, After, Before
<1>. QED BY <1>2, <1>3, <1>4, <1>5 DEF Grows

LEMMA StopHoldsStep ==
  ASSUME IInv, PlanAssumption, Next
  PROVE  StopHolds'
<1>. USE DEF IInv, Typed
<1>1. stopped => stopped' \/ ClearStop
  BY DEF Next, LaneStep, Service, TakesMotion, Revalidate, Check, Send, Sample, Overtaken, Look,
         Judge, Arrived, LaneStops, TimesOut, CheckRaises, Recovers, Reads, Chases, Publishes,
         StopLatches, StopSent, Reaches, Lapses, Reboots, Preview, Execute, Finish, flags
<1>2. StopLatches => stopped' BY DEF StopLatches
<1>3. ASSUME lane'.pc # "idle", trip'.late PROVE stopped'
  <2>1. ASSUME NEW i \in Ids, Begins(i) PROVE FALSE
    BY <1>3, <2>1 DEF Begins, Execute, NotYet
  <2>2. CASE lane.pc # "idle"
    <3>1. ~ClearStop BY <2>2 DEF ClearStop, At
    <3>2. trip.late => stopped BY <2>2 DEF StopHolds
    <3>3. ASSUME Send, trip' = [reached |-> hat.at = lane.leg, late |-> stopped, boot |-> hat.boot]
          PROVE  stopped
      <4>1. trip'.late = stopped BY <3>3
      <4>. QED BY <1>3, <4>1
    <3>4. trip.late \/ StopLatches \/ stopped
      BY <1>3, <2>2, <3>3, TripMoves
    <3>. QED BY <1>1, <1>2, <3>1, <3>2, <3>4
  <2>. QED BY <1>3, <2>1, <2>2, LaneMoves DEF Idle, Runs
<1>4. ASSUME lane'.pc = "send" PROVE ~trip'.late
  <2>1. CASE lane.pc = "send" /\ UNCHANGED lane
    <3>1. ~Send
      <4>1. lane \in Busy BY <2>1, LaneActive
      <4>2. ASSUME Goto("sample") \/ Ambiguous PROVE lane'.pc # "send"
        BY <4>1, <4>2 DEF Goto, Ambiguous, Busy
      <4>. QED BY <2>1, <4>2 DEF Send
    <3>. QED BY <2>1, <3>1, TripMoves DEF StopHolds
  <2>2. CASE Check
    <3>1. lane \in Busy /\ lane.pc = "check" BY <2>2, LaneActive DEF Check, At
    <3>2. ~stopped
      <4>1. Ambiguous => lane'.pc = "stop" BY <3>1 DEF Ambiguous, Busy
      <4>. QED BY <1>4, <2>2, <4>1 DEF Check
    <3>3. ~trip.late BY <3>1, <3>2 DEF StopHolds
    <3>. QED BY <2>2, <3>3 DEF Check, history
  <2>3. CASE Runs /\ Prepares /\ ~Check
    <3>1. lane \in Busy BY <2>3, LaneActive DEF Runs
    <3>2. TakesMotion => lane'.pc = "revalidate" BY <3>1 DEF TakesMotion, Goto, Busy
    <3>3. Revalidate => lane'.pc \in {"check", "finish"} BY <3>1 DEF Revalidate, Goto, Ends, Busy
    <3>. QED BY <1>4, <2>3, <3>2, <3>3 DEF Prepares
  <2>. QED
    BY <1>4, <2>1, <2>2, <2>3, LaneMoves
       DEF Begins, Runs, Dispatches, Watches, Advances, GivesUp, After, Idle
<1>. QED BY <1>3, <1>4 DEF StopHolds

(* The arm is at the waypoint it owes only once it was reached.             *)
LEMMA ReachedStep ==
  ASSUME IInv, PlanAssumption, Next, lane'.pc \in After, hat'.at = lane'.leg
  PROVE  trip'.reached
<1>. USE DEF IInv, Typed
<1>1. CASE Runs /\ Dispatches
  <2>1. lane.leg \in 1..Legs BY <1>1, LaneActive DEF Runs, Busy
  <2>2. Moving(lane.leg).at = IF hat.at = lane.leg THEN lane.leg ELSE Elsewhere
    BY DEF Moving, ArmTyped, HatSet
  <2>3. hat.at = lane.leg
    BY <1>1, <2>1, <2>2 DEF Dispatches, Elsewhere
  <2>. QED BY <1>1, <2>3 DEF Dispatches
<1>2. CASE lane.pc \in After /\ lane'.id = lane.id /\ lane'.leg = lane.leg
  <2>1. lane.leg \in 1..Legs BY <1>2, LaneActive DEF After, Busy
  <2>2. ~Send BY <1>2 DEF Send, At, After
  <2>3. trip.reached => trip'.reached BY <1>2, <2>2, TripMoves DEF After
  <2>4. CASE hat.at = lane.leg BY <1>2, <2>3, <2>4 DEF Proved
  <2>5. CASE hat.at # lane.leg
    <3>1. Elsewhere # lane.leg BY <2>1 DEF Elsewhere
    <3>2. Reaches BY <1>2, <2>5, <3>1, ArmMoves
    <3>3. hat'.at = hat.to BY <3>2 DEF Reaches, ArmTyped, HatSet
    <3>. QED BY <1>2, <3>2, <3>3 DEF Reaches, TripTyped, TripSet
  <2>. QED BY <2>4, <2>5
<1>. QED
  BY <1>1, <1>2, LaneMoves
     DEF Begins, Runs, Prepares, Watches, Advances, GivesUp, After, Before, Idle

(* The count of telemetry older than the dispatch, through every step that  *)
(* carries it on.                                                           *)
LEMMA StaleStep ==
  ASSUME IInv, PlanAssumption, Next
  PROVE  StaleCountsOnce'
<1>. USE DEF IInv, Typed, One
<1>. SUFFICES ASSUME lane'.pc \in {"wait", "look"}, seen'.at = lane'.leg, ~trip'.reached
              PROVE  lane'.stable + One(lane'.pc = "look") + One(news') + One(svc' # "idle") <= 1
  BY DEF StaleCountsOnce
<1>1. LaneTyped' /\ FlagsTyped' BY TypedStep
<1>2. hat'.at # lane'.leg BY ReachedStep DEF After
<1>3. CASE Beside /\ UNCHANGED lane
  <2>1. lane.pc \in {"wait", "look"} /\ lane.stable \in Nat
    BY <1>3, LaneActive DEF Busy, PlanAssumption
  <2>2. ~Send /\ ~ClearStop /\ \A i \in Ids : ~Preview(i) /\ ~Execute(i)
    BY <2>1 DEF Send, ClearStop, Preview, Execute, At
  <2>3. ~trip.reached BY <2>1, <2>2, TripMoves
  <2>4. lane'.stable = lane.stable /\ lane'.pc = lane.pc /\ lane'.leg = lane.leg BY <1>3
  <2>5. CASE Reads
    <3>1. CASE StatusServed
      <4>1. seen'.at = hat.at /\ hat' = hat BY <2>5, <3>1 DEF Reads, StatusServed, Told
      <4>. QED BY <1>2, <4>1
    <3>2. CASE StatusFails /\ UNCHANGED svc
      <4>1. UNCHANGED <<seen, news>> BY <2>5, <3>2 DEF Reads, StatusFails, flags
      <4>. QED BY <2>1, <2>3, <2>4, <3>2, <4>1 DEF Proved, StaleCountsOnce
    <3>. QED BY <2>5, <3>1, <3>2 DEF Reads
  <2>6. CASE Chases
    <3>1. UNCHANGED <<seen, news>> /\ svc # "idle" /\ svc' # "idle" BY <2>6 DEF Chases, flags
    <3>. QED BY <2>1, <2>3, <2>4, <3>1 DEF Proved, StaleCountsOnce
  <2>7. CASE Publishes
    <3>1. UNCHANGED seen /\ news' = TRUE /\ svc # "idle" /\ svc' = "idle"
      BY <2>7 DEF Publishes, arm
    <3>2. lane.stable + One(lane.pc = "look") + One(news) + 1 <= 1
      BY <2>1, <2>3, <2>4, <3>1 DEF Proved, StaleCountsOnce
    <3>3. ~news BY <2>1, <3>2
    <3>. QED BY <2>1, <2>4, <3>1, <3>2, <3>3
  <2>8. CASE Recovers \/ StopLatches \/ StopSent \/ Reaches \/ Lapses \/ Reboots
    <3>1. UNCHANGED <<seen, news, svc>>
      BY <2>8 DEF Recovers, StopLatches, StopSent, Reaches, Lapses, Reboots, flags, threads
    <3>. QED BY <2>1, <2>3, <2>4, <3>1 DEF Proved, StaleCountsOnce
  <2>. QED BY <1>3, <2>2, <2>5, <2>6, <2>7, <2>8 DEF Beside, Service
<1>4. CASE Runs /\ Watches
  <2>1. lane \in Busy BY <1>4, LaneActive DEF Runs
  <2>2. lane.stable \in Nat BY <2>1 DEF Busy, PlanAssumption
  <2>3. UNCHANGED <<seen, trip, svc>>
    BY <1>4 DEF Watches, Sample, Look, Judge, arm, history
  <2>4. CASE Sample
    <3>1. lane'.stable = 0 /\ lane'.pc = "wait" /\ news' = FALSE
      BY <2>1, <2>4 DEF Sample, Busy
    <3>. QED BY <3>1
  <2>5. CASE Look
    <3>1. /\ lane.pc = "wait" /\ lane'.pc = "look" /\ lane'.leg = lane.leg
          /\ lane'.stable = lane.stable /\ news /\ ~news'
      BY <2>1, <2>5 DEF Look, At, Goto, Busy
    <3>. QED BY <2>2, <2>3, <3>1 DEF Proved, StaleCountsOnce
  <2>6. CASE Judge
    <3>1. /\ lane.pc = "look" /\ lane'.leg = lane.leg /\ UNCHANGED news
          /\ lane'.stable \in {0, lane.stable} \/ (lane'.stable = lane.stable + 1)
      BY <2>1, <2>6 DEF Judge, At, Goto, Ends, flags, Busy
    <3>2. lane'.pc = "wait"
      <4>1. lane'.pc \in {"wait", "finish", "arrived"}
        BY <2>1, <2>6 DEF Judge, Goto, Ends, Busy
      <4>. QED BY <4>1
    <3>3. lane.stable + 1 + One(news) + One(svc # "idle") <= 1
      BY <2>3, <3>1 DEF Proved, StaleCountsOnce
    <3>. QED BY <2>2, <2>3, <3>1, <3>2, <3>3
  <2>. QED BY <1>4, <2>4, <2>5, <2>6 DEF Watches
<1>. QED
  BY <1>3, <1>4, LaneMoves
     DEF Begins, Runs, Prepares, Dispatches, Advances, GivesUp, Before, Idle

LEMMA ProvedStep ==
  ASSUME IInv, PlanAssumption, Next
  PROVE  Proved'
<1>. USE DEF IInv, Typed
<1>1. ASSUME lane'.pc = "arrived" PROVE trip'.reached /\ trip'.boot = plans'[lane'.id].boot
  <2>1. CASE lane.pc = "arrived" /\ UNCHANGED lane
    <3>1. ~Send BY <2>1 DEF Send, At
    <3>2. lane.id \in Ids /\ plans[lane.id].st = "gone" BY <2>1, LaneActive DEF Consumed, Busy
    <3>3. plans'[lane.id].boot = plans[lane.id].boot BY <3>2, PlansMove
    <3>. QED BY <2>1, <3>1, <3>3, TripMoves DEF Proved
  <2>2. CASE Judge
    <3>1. lane \in Busy /\ lane.pc = "look" BY <2>2, LaneActive DEF Judge, At
    <3>2. /\ Qualifies /\ lane.stable + 1 >= Samples /\ lane'.id = lane.id
          /\ UNCHANGED <<plans, trip>>
      <4>1. Goto("wait") => lane'.pc = "wait" BY <3>1 DEF Goto, Busy
      <4>2. \A o, m : Ends(o, m) => lane'.pc = "finish" BY <3>1 DEF Ends, Busy
      <4>3. lane' = [lane EXCEPT !.pc = "wait", !.stable = 0] => lane'.pc = "wait"
        BY <3>1 DEF Busy
      <4>4. /\ Qualifies
            /\ lane' = [lane EXCEPT !.pc = IF lane.stable + 1 >= Samples THEN "arrived" ELSE "wait",
                                    !.stable = @ + 1]
        BY <1>1, <2>2, <4>1, <4>2, <4>3 DEF Judge
      <4>5. lane'.id = lane.id /\ lane.stable + 1 >= Samples BY <1>1, <3>1, <4>4 DEF Busy
      <4>. QED BY <2>2, <4>4, <4>5 DEF Judge, store, history
    <3>3. lane.stable \in Nat /\ Samples \in Nat /\ Samples > 1 BY <3>1 DEF Busy, PlanAssumption
    <3>4. trip.reached
      <4>1. lane.stable + 1 > 1 BY <3>2, <3>3
      <4>2. seen.at = lane.leg BY <3>2 DEF Qualifies
      <4>. SUFFICES ASSUME ~trip.reached PROVE FALSE OBVIOUS
      <4>3. lane.stable + 1 + One(news) + One(svc # "idle") <= 1
        BY <3>1, <4>2 DEF Proved, StaleCountsOnce, One
      <4>. QED BY <3>3, <4>1, <4>3 DEF One
    <3>5. trip.boot = plans[lane.id].boot
      <4>1. lane.id \in Ids BY <3>1 DEF Busy
      <4>2. /\ link \in Nat /\ seen.boot \in Nat \ {0} /\ trip.boot \in Nat
            /\ plans[lane.id].boot \in Nat
        BY <4>1 DEF ArmTyped, SeenSet, TripTyped, TripSet, PlansTyped, PlanSet, PlanAssumption
      <4>3. plans[lane.id].boot <= trip.boot /\ (link = 0 \/ trip.boot <= link)
        BY <3>1 DEF Grows, After
      <4>. QED BY <3>2, <4>2, <4>3 DEF Qualifies
    <3>. QED BY <3>2, <3>4, <3>5
  <2>3. CASE Runs /\ Watches /\ ~Judge
    <3>1. lane \in Busy BY <2>3, LaneActive DEF Runs
    <3>2. Look => lane'.pc = "look" BY <3>1 DEF Look, Goto, Busy
    <3>3. Sample => lane'.pc = "wait" BY <3>1 DEF Sample, Busy
    <3>. QED BY <1>1, <2>3, <3>2, <3>3 DEF Watches
  <2>. QED
    BY <1>1, <2>1, <2>2, <2>3, LaneMoves
       DEF Begins, Runs, Prepares, Dispatches, Advances, GivesUp, Before, Idle
<1>2. ASSUME lane'.pc \in Before, lane'.leg > 1 PROVE trip'.reached
  <2>1. CASE lane.pc \in Before /\ UNCHANGED lane
    <3>1. ~Send
      <4>1. lane \in Busy BY <2>1, LaneActive DEF Before
      <4>2. ASSUME Goto("sample") \/ Ambiguous PROVE lane'.pc \notin Before
        BY <4>1, <4>2 DEF Goto, Ambiguous, Busy, Before
      <4>. QED BY <2>1, <4>2 DEF Send
    <3>. QED BY <1>2, <2>1, <3>1, TripMoves DEF Proved, Before
  <2>2. CASE Runs /\ Prepares
    <3>1. UNCHANGED trip BY <2>2 DEF Prepares, TakesMotion, Revalidate, Check, history
    <3>. QED BY <1>2, <2>2, <3>1 DEF Proved, Prepares
  <2>3. CASE Runs /\ Advances
    <3>1. UNCHANGED trip BY <2>3 DEF Advances, Arrived, history
    <3>. QED BY <2>3, <3>1 DEF Proved, Advances
  <2>. QED
    BY <1>2, <2>1, <2>2, <2>3, LaneMoves
       DEF Begins, Runs, Dispatches, Watches, GivesUp, Before, After, Idle
<1>. QED BY <1>1, <1>2, ReachedStep, StaleStep DEF Proved

-----------------------------------------------------------------------------
(* Nothing happened yet. *)
LEMMA InitIInv == PlanAssumption /\ Init => IInv
<1>. SUFFICES ASSUME PlanAssumption, Init PROVE IInv OBVIOUS
<1>. USE DEF Init
<1>1. 0 \in 0..Boots /\ 1 \in 0..Boots /\ 1 \in 1..Boots /\ 0 \in 0..Legs /\ 0 \in Poses
  BY DEF PlanAssumption, Poses
<1>2. PlansTyped BY <1>1 DEF PlansTyped, PlanSet, NoPlan
<1>3. ResultsTyped BY DEF ResultsTyped, PlanAssumption
<1>4. ArmTyped BY <1>1 DEF ArmTyped, SeenSet, HatSet
<1>5. LaneTyped BY DEF LaneTyped, LaneShape, Idle, Locked
<1>6. SentTyped /\ TripTyped BY <1>1 DEF SentTyped, TripTyped, TripSet, NotYet
<1>7. FlagsTyped /\ ThreadsTyped BY DEF FlagsTyped, ThreadsTyped
<1>8. \A i \in Ids : Unsent(i) BY DEF Unsent
<1>9. Consumed /\ InOrder BY <1>8 DEF Consumed, InOrder, Idle, Before, After
<1>10. Honest BY <1>8 DEF Honest, NoDispatchIsTrue, RetryReplays, Idle, Unsent
<1>11. Grows BY DEF Grows, NotYet, NoPlan, Idle, After
<1>12. Proved /\ StopHolds BY DEF Proved, StaleCountsOnce, StopHolds, Idle, Before, After
<1>. QED
  BY <1>2, <1>3, <1>4, <1>5, <1>6, <1>7, <1>9, <1>10, <1>11, <1>12 DEF IInv, Typed

LEMMA StepIInv == PlanAssumption /\ IInv /\ [Next]_vars => IInv'
<1>1. ASSUME PlanAssumption, IInv, Next PROVE IInv'
  BY <1>1, TypedStep, ConsumedStep, InOrderStep, HonestStep, GrowsStep, ProvedStep, StopHoldsStep
     DEF IInv
<1>2. ASSUME PlanAssumption, IInv, UNCHANGED vars PROVE IInv'
  <2>1. Typed' BY <1>2, TypedStep
  <2>2. (Consumed /\ InOrder /\ Honest)'
    BY <1>2 DEF vars, IInv, Consumed, InOrder, Honest, Unsent, NoDispatchIsTrue, RetryReplays, Cached
  <2>3. (Grows /\ Proved /\ StopHolds)'
    BY <1>2 DEF vars, IInv, Grows, Proved, StaleCountsOnce, StopHolds
  <2>. QED BY <2>1, <2>2, <2>3 DEF IInv
<1>. QED BY <1>1, <1>2

(* The invariant of a run of a reviewed route: what was consumed and        *)
(* dispatched, what old telemetry is still on its way, and what boots grew. *)
THEOREM Inductive == Spec => []IInv
<1>1. PlanAssumption BY PlanAssumption
<1>. QED BY <1>1, InitIInv, StepIInv, PTL DEF Spec

(* A route runs once, on the boot it was reviewed for, and every kept       *)
(* result says what happened, whatever clients retry and however a run of   *)
(* execute_sequence ended.                                                  *)
THEOREM RunsOnce == Spec => []RouteRunsOnce
<1>1. ASSUME IInv PROVE RouteRunsOnce
  <2>. USE <1>1 DEF IInv, Typed
  <2>1. /\ lane.id \in Ids \cup {"none"} /\ lane.leg \in 0..Legs /\ lane.stable \in 0..Samples
        /\ lane.out \in Outs
    <3>1. CASE lane.pc = "idle"
      <4>1. 0 \in 0..Legs /\ 0 \in 0..Samples BY PlanAssumption DEF PlanAssumption
      <4>. QED BY <3>1, <4>1, LaneIdle DEF Idle, Outs
    <3>2. CASE lane.pc # "idle"
      <4>1. lane \in Busy /\ Legs \in Nat BY <3>2, LaneActive, PlanAssumption DEF PlanAssumption
      <4>. QED BY <4>1 DEF Busy
    <3>. QED BY <3>1, <3>2
  <2>2. TypeOK
    BY <2>1 DEF TypeOK, PlansTyped, PlanSet, ResultsTyped, FlagsTyped, ArmTyped, HatSet, SeenSet,
                LaneTyped, Locked, ThreadsTyped, Outs
  <2>3. DispatchedOnce
    <3>1. \A i \in Ids, k \in 1..Legs : sent[i][k] \in {0, 1} BY DEF SentTyped
    <3>. QED BY <3>1 DEF DispatchedOnce
  <2>4. ArrivedOnReviewedBoot BY DEF ArrivedOnReviewedBoot, At, Proved
  <2>. QED BY <2>2, <2>3, <2>4 DEF RouteRunsOnce, Honest
<1>. QED BY <1>1, Inductive, PTL

(* Every waypoint sets out in its turn, after the arm came to rest at the   *)
(* one before it, and none but the one past its check after a STOP.         *)
THEOREM InTurn == Spec => WaypointsInTurn
<1>1. ASSUME IInv, [Next]_vars PROVE [ProvedBeforeNext /\ NothingAfterStop]_vars
  <2>. USE <1>1 DEF IInv, Typed
  <2>1. CASE UNCHANGED vars BY <2>1
  <2>2. CASE Next
    <3>1. NothingAfterStop
      BY <2>2, SentMoves DEF NothingAfterStop, StopHolds
    <3>2. ASSUME NEW i \in Ids, NEW k \in 2..Legs, sent'[i][k] # sent[i][k] PROVE trip.reached
      <4>1. /\ lane.pc = "send" /\ lane.id \in Ids /\ lane.leg \in 1..Legs
            /\ sent' = [sent EXCEPT ![lane.id][lane.leg] = @ + 1]
        BY <2>2, <3>2, SentMoves
      <4>2. i = lane.id /\ k = lane.leg BY <3>2, <4>1 DEF SentTyped
      <4>3. lane.leg > 1 BY <4>2
      <4>. QED BY <4>1, <4>3 DEF Proved, Before
    <3>. QED BY <3>1, <3>2 DEF ProvedBeforeNext
  <2>. QED BY <1>1, <2>1, <2>2
<1>. QED BY <1>1, Inductive, PTL DEF Spec, WaypointsInTurn
=============================================================================
