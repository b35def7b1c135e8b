----------------------------- MODULE CameraProofs -----------------------------
(***************************************************************************)
(* Proofs about the photograph of a pose (Observation) and the camera      *)
(* driver (CameraProvider), for any set of plans and any capacity of the   *)
(* transfer store.                                                         *)
(*                                                                         *)
(* PhotoInv says what a request in flight relies on.  What makes STOP win  *)
(* is Stopping: the latch outlives the request, because a clear waits for  *)
(* it, so the reset of the STOP generation before the arrival loses no     *)
(* STOP; and no STOP takes the gate while the shutter is about to open.    *)
(* ProviderInv says what the provider knows of its driver at every place   *)
(* of an operation, not only between operations.                           *)
(***************************************************************************)
EXTENDS MCCameras, FiniteSetTheorems, TLAPS

-----------------------------------------------------------------------------
(* What a retry of a plan is answered. *)
Answers == {"none", "failed", "stopped", "invalidated", "unavailable", "captured"}

(* A STATUS: where the arm was, and whether it was measured after the *)
(* shutter.                                                           *)
Statuses == [at : Poses, moving : BOOLEAN, stopped : BOOLEAN, fresh : BOOLEAN]

(* The places of the request under the camera lock, before its frame is *)
(* kept.                                                                *)
Taking == {"gate", "check", "shoot", "keep"}

(* Its places once its frame can be in the store. *)
Taken == {"stamp", "wait2", "discard", "confirm"}

(* The places of the request. *)
LanePlaces == {"idle", "dispatch", "sample", "wait", "guard", "camera"} \cup Taking \cup Taken

(* The request. *)
Lanes == [pc : LanePlaces, id : Ids \cup {"none"}, before : Poses, shot : BOOLEAN,
          stamped : BOOLEAN]

(* The arm and its controller. *)
Hats == [at : Poses, moving : BOOLEAN, stopped : BOOLEAN]

(* The service thread. *)
Services == [pc : {"idle", "read", "publish"}, told : Statuses, mark : BOOLEAN]

(* A set of frames the store has room for. *)
Stored(S) == S \in SUBSET Ids /\ IsFiniteSet(S) /\ Cardinality(S) <= MaxTransfers

(* The type of the photograph, with a store that stays finite. *)
PhotoType ==
  /\ results \in [Ids -> Answers] /\ up \in BOOLEAN
  /\ Stored(store)
  /\ cam \in {"none", "lane", "other"} /\ gate \in {"none", "lane", "stop"}
  /\ stopped \in BOOLEAN /\ raced \in BOOLEAN /\ news \in BOOLEAN /\ mark \in BOOLEAN
  /\ hat \in Hats /\ seen \in Statuses /\ svc \in Services
  /\ lane \in Lanes
  /\ trip \in [won : BOOLEAN, halted : BOOLEAN]

(* Gate and camera are the request's at these places, and the room it found *)
(* lasts until its frame is kept: only under the camera lock does the store *)
(* grow.                                                                    *)
Owned ==
  /\ gate = "lane" <=> lane.pc \in {"check", "shoot"}
  /\ cam = "lane" <=> lane.pc \in Taking
  /\ lane.pc \in Taking => Room

(* A request under way is not answered yet; what is in the store is *)
(* evidence or the frame under way.                                 *)
Answerable ==
  /\ lane.pc # "idle" => lane.id \in Ids /\ results[lane.id] = "none"
  /\ \A i \in store : results[i] = "captured" \/ (lane.pc \in Taken /\ i = lane.id)

(* What a STOP latched since the request began has left: stopped until a   *)
(* clear, which waits for the request; no open shutter if it had the gate; *)
(* and from the shutter on a generation that moved.                        *)
Stopping ==
  /\ lane.pc # "idle" /\ (trip.won \/ trip.halted) => stopped
  /\ lane.pc = "shoot" => ~trip.won
  /\ lane.pc \in {"shoot", "keep", "stamp", "wait2"} /\ trip.halted => raced
  /\ lane.pc = "confirm" => ~trip.halted

(* The invariant of the photograph. *)
PhotoInv == PhotoType /\ Owned /\ Answerable /\ Stopping

(* The status claims no focus the driver does not have. *)
Claim ==
  focus.mode = "continuous" =>
    /\ driver.mode = "continuous"
    /\ focus.range # "unavailable" => driver.range = focus.range

(* The statuses of the focus. *)
Kinds == [mode : {"unknown", "fixed", "continuous"},
          state : {"not_started", "fixed", "configuration_failed", "configured", "closed"},
          range : {"none", "macro", "full", "normal", "unavailable"}]

(* The camera driver. *)
Drivers == [motor : BOOLEAN, ranged : BOOLEAN, open : BOOLEAN, streams : BOOLEAN,
            profile : Provider!Profiles \cup {"none"}, mode : {"off", "continuous", "auto"},
            range : {"default", "macro", "full", "normal"}, job : BOOLEAN]

(* The type of the provider. *)
ProviderType ==
  /\ service \in {"new", "started", "unavailable", "closed"}
  /\ state \in {"new", "started", "closed"} /\ profile \in Provider!Profiles \cup {"none"}
  /\ focus \in Kinds
  /\ driver \in Drivers
  /\ pc \in {"idle", "stop", "configure", "focus", "run", "shoot", "widen", "cycle",
             "unwind", "wait", "cancel", "restore"}
  /\ want \in Provider!Profiles \cup {"none"}

(* A provider that is closed is idle and has released its camera; a service *)
(* is new while its provider is; between switches the camera streams.       *)
Lifecycle ==
  /\ state = "closed" => pc = "idle" /\ service # "new" /\ ~driver.open /\ ~driver.streams
  /\ service = "new" <=> state = "new"
  /\ state = "new" => pc \in {"idle", "configure", "focus", "run"}
  /\ state = "started" /\ pc \notin {"stop", "configure", "focus", "run"} => driver.streams

(* The provider knows what the driver was left with: the profile, whether a *)
(* job runs, and, outside an autofocus cycle, the focus.                    *)
Tracked ==
  /\ state # "closed" => driver.profile = profile
  /\ pc \in {"stop", "configure", "focus", "run", "shoot"} => want \in Provider!Profiles
  /\ pc \in {"focus", "run", "shoot"} => profile = want
  /\ pc \notin {"wait", "cancel"} => ~driver.job
  /\ state # "closed" /\ pc \in {"idle", "stop", "configure", "focus", "run", "shoot", "widen"}
       => Claim

(* The invariant of the provider. *)
ProviderInv == ProviderType /\ Lifecycle /\ Tracked /\ frame.asked = frame.taken /\ ~frame.job

-----------------------------------------------------------------------------
(* A request goes on. *)
LEMMA LaneGoes ==
  ASSUME NEW l \in Lanes, NEW p \in LanePlaces
  PROVE  /\ [l EXCEPT !.pc = p] \in Lanes
         /\ \A b \in Poses : [l EXCEPT !.pc = p, !.before = b] \in Lanes
         /\ \A b \in BOOLEAN : [l EXCEPT !.pc = p, !.shot = b] \in Lanes
         /\ \A b \in BOOLEAN : [l EXCEPT !.pc = p, !.stamped = b] \in Lanes
<1>1. [l EXCEPT !.pc = p] \in Lanes BY DEF Lanes
<1>2. ASSUME NEW b \in Poses PROVE [l EXCEPT !.pc = p, !.before = b] \in Lanes BY DEF Lanes
<1>3. ASSUME NEW b \in BOOLEAN PROVE [l EXCEPT !.pc = p, !.shot = b] \in Lanes BY DEF Lanes
<1>4. ASSUME NEW b \in BOOLEAN PROVE [l EXCEPT !.pc = p, !.stamped = b] \in Lanes BY DEF Lanes
<1>5. QED BY <1>1, <1>2, <1>3, <1>4

(* There may be no request. *)
LEMMA LaneIdle == Idle \in Lanes
BY DEF Idle, Lanes, LanePlaces, Poses

(* A request begins. *)
LEMMA LaneBegins ==
  ASSUME NEW i \in Ids PROVE [Idle EXCEPT !.pc = "dispatch", !.id = i] \in Lanes
<1>1. \A l \in Lanes : [l EXCEPT !.pc = "dispatch", !.id = i] \in Lanes
  BY DEF Lanes, LanePlaces
<1>2. QED BY <1>1, LaneIdle

(* A request goes on, or ends. *)
LEMMA LaneKept ==
  ASSUME PhotoInv, (\E p \in LanePlaces : Goto(p)) \/ lane' \in {lane, Idle}
  PROVE  lane' \in Lanes
<1>1. lane \in Lanes BY DEF PhotoInv, PhotoType
<1>2. ASSUME NEW p \in LanePlaces, Goto(p) PROVE lane' \in Lanes
  BY <1>1, <1>2, LaneGoes DEF Goto
<1>3. QED BY <1>1, <1>2, LaneIdle

(* The places by their groups. *)
LEMMA Places ==
  /\ {"idle", "dispatch", "sample", "wait", "guard", "camera"} \subseteq LanePlaces
  /\ Taking \subseteq LanePlaces /\ Taken \subseteq LanePlaces
BY DEF LanePlaces

(* Moves, holds and latches of the arm. *)
LEMMA Arms ==
  ASSUME NEW h \in Hats, NEW p \in Poses, NEW a \in BOOLEAN, NEW b \in BOOLEAN
  PROVE  /\ [h EXCEPT !.at = p, !.moving = a] \in Hats
         /\ [h EXCEPT !.at = p] \in Hats
         /\ [h EXCEPT !.moving = a, !.stopped = b] \in Hats
         /\ [h EXCEPT !.stopped = a, !.moving = b] \in Hats
         /\ [h EXCEPT !.at = p, !.moving = a, !.stopped = b] \in Hats
BY DEF Hats

(* The service thread goes on. *)
LEMMA Reads ==
  /\ \A s \in Services : s.told \in Statuses
  /\ \A s \in Services, p \in {"idle", "read", "publish"}, b \in BOOLEAN :
       /\ [s EXCEPT !.pc = p] \in Services /\ [s EXCEPT !.pc = p, !.mark = b] \in Services
BY DEF Services

(* What was measured before the shutter. *)
LEMMA Stale ==
  /\ \A s \in Statuses : [s EXCEPT !.fresh = FALSE] \in Statuses
  /\ \A s \in Services : [s EXCEPT !.told.fresh = FALSE, !.mark = FALSE] \in Services
<1>1. \A s \in Statuses : [s EXCEPT !.fresh = FALSE] \in Statuses BY DEF Statuses
<1>2. ASSUME NEW s \in Services
      PROVE  [s EXCEPT !.told.fresh = FALSE, !.mark = FALSE] \in Services
  <2> DEFINE told == [s.told EXCEPT !.fresh = FALSE]
  <2>1. told \in Statuses BY <1>1, Reads
  <2>2. [s EXCEPT !.told.fresh = FALSE, !.mark = FALSE]
       = [s EXCEPT !.told = told, !.mark = FALSE]
    OBVIOUS
  <2> HIDE DEF told
  <2>3. [s EXCEPT !.told = told, !.mark = FALSE] \in Services BY <2>1 DEF Services
  <2>4. QED BY <2>2, <2>3
<1>3. QED BY <1>1, <1>2

(* Frames leave the store, or one enters it where there is room. *)
LEMMA StoreType ==
  ASSUME PhotoInv
  PROVE  /\ Stored(store) /\ \A i : Stored(store \ {i})
         /\ Room => \A i \in Ids : Stored(store \cup {i})
<1>1. /\ Stored(store) /\ Cardinality(store) \in Nat /\ MaxTransfers \in Nat
  BY FS_CardinalityType, ObservationAssumption DEF PhotoInv, PhotoType, Stored
<1>2. ASSUME NEW i PROVE Stored(store \ {i})
  <2>1. /\ IsFiniteSet(store \ {i})
        /\ Cardinality(store \ {i}) \in {Cardinality(store), Cardinality(store) - 1}
    BY <1>1, FS_RemoveElement DEF Stored
  <2>2. QED BY <1>1, <2>1 DEF Stored
<1>3. ASSUME NEW i \in Ids, Room PROVE Stored(store \cup {i})
  <2>1. /\ IsFiniteSet(store \cup {i})
        /\ Cardinality(store \cup {i}) \in {Cardinality(store), Cardinality(store) + 1}
    BY <1>1, FS_AddElement DEF Stored
  <2>2. QED BY <1>1, <1>3, <2>1 DEF Stored, Room
<1>4. QED BY <1>1, <1>2, <1>3

(* A request starts: a plan not executed before, with room for its frame. *)
LEMMA BeginKeeps == ASSUME PhotoInv, NEW i \in Ids, Begin(i) PROVE PhotoInv'
<1>1. PhotoType'
  <2>1. lane' \in Lanes BY LaneBegins DEF Begin
  <2>2. QED BY <2>1 DEF PhotoInv, PhotoType, Begin, NoTrip, camera, flags, telemetry
<1>2. lane'.pc = "dispatch" /\ lane'.id = i BY DEF Begin, Idle
<1>3. (Owned /\ Answerable /\ Stopping)'
  BY <1>2 DEF PhotoInv, PhotoType, Owned, Answerable, Stopping, Begin, At, NoTrip, camera,
     flags, telemetry, Taking, Taken
<1>4. QED BY <1>1, <1>3 DEF PhotoInv

(* A retry is answered that its frame is gone. *)
LEMMA ReplayKeeps == ASSUME PhotoInv, NEW i \in Ids, Replay(i) PROVE PhotoInv'
<1>1. PhotoType'
  BY DEF PhotoInv, PhotoType, Replay, At, camera, flags, telemetry, Answers, Answerable,
     Lanes, LanePlaces, Statuses, Services, Hats, Taken, Taking
<1>2. (Owned /\ Answerable /\ Stopping)'
  BY DEF PhotoInv, PhotoType, Owned, Answerable, Stopping, Replay, At, camera, flags,
     telemetry, Stored, Answers, Taking, Taken, Lanes, Room
<1>3. QED BY <1>1, <1>2 DEF PhotoInv

(* The plan is executed, refused or left ambiguous. *)
LEMMA DispatchKeeps == ASSUME PhotoInv, Dispatch PROVE PhotoInv'
<1>1. PhotoType'
  <2>1. lane' \in Lanes
    <3>1. lane' \in {lane, Idle} \/ Goto("sample") BY DEF Dispatch, Ends
    <3>2. QED BY <3>1, LaneKept, Places
  <2>2. hat' \in Hats
    <3>1. hat \in Hats /\ "away" \in Poses BY DEF PhotoInv, PhotoType, Poses
    <3>2. [hat EXCEPT !.at = "away", !.moving = TRUE] \in Hats BY <3>1, Arms
    <3>3. QED BY <3>1, <3>2 DEF Dispatch
  <2>3. QED BY <2>1, <2>2 DEF PhotoInv, PhotoType, Answers, Answerable, Dispatch, At, Ends,
       camera, telemetry
<1>2. Owned'
  BY DEF PhotoInv, PhotoType, Owned, Answerable, Stopping, Dispatch, At, Goto, Ends, Idle,
     camera, telemetry, Taking, Taken, Lanes, Room
<1>3. Answerable'
  BY DEF PhotoInv, PhotoType, Stored, Owned, Answerable, Stopping, Dispatch, At, Goto, Ends,
     Idle, camera, telemetry, Taking, Taken, Lanes, Room
<1>4. Stopping'
  BY DEF PhotoInv, PhotoType, Owned, Answerable, Stopping, Dispatch, At, Goto, Ends, Idle,
     camera, telemetry, Taking, Taken, Lanes, Room
<1>5. QED BY <1>1, <1>2, <1>3, <1>4 DEF PhotoInv

(* The request reads the STOP generation. *)
LEMMA SampleKeeps == ASSUME PhotoInv, Sample PROVE PhotoInv'
<1>1. PhotoType'
  <2>1. lane' \in Lanes
    <3>1. lane' \in {lane, Idle} \/ Goto("wait") BY DEF Sample
    <3>2. QED BY <3>1, LaneKept, Places DEF Taking, Taken
  <2>2. QED BY <2>1 DEF PhotoInv, PhotoType, Answers, Answerable, Sample, At, Goto, camera
<1>2. (Owned /\ Answerable /\ Stopping)'
  BY DEF PhotoInv, PhotoType, Owned, Answerable, Stopping, Sample, At, Goto, camera, Stored,
     Answers, Taking, Taken, Lanes, Room
<1>3. QED BY <1>1, <1>2 DEF PhotoInv

(* The early check of the shutter. *)
LEMMA GuardKeeps == ASSUME PhotoInv, Guard PROVE PhotoInv'
<1>1. PhotoType'
  <2>1. lane' \in Lanes
    <3>1. lane' \in {lane, Idle} \/ Goto("camera") BY DEF Guard, Ends
    <3>2. QED BY <3>1, LaneKept, Places DEF Taking, Taken
  <2>2. QED BY <2>1 DEF PhotoInv, PhotoType, Answers, Answerable, Guard, At, Blocked, Goto,
       camera, Ends, Idle, flags, telemetry
<1>2. Owned'
  BY DEF PhotoInv, PhotoType, Owned, Answerable, Stopping, Guard, At, Blocked, Goto, camera,
     Ends, Idle, flags, telemetry, Stored, Answers, Taking, Taken, Lanes, Room
<1>3. Answerable'
  BY DEF PhotoInv, PhotoType, Owned, Answerable, Stopping, Guard, At, Blocked, Goto, camera,
     Ends, Idle, flags, telemetry, Stored, Answers, Taking, Taken, Lanes, Room
<1>4. Stopping'
  BY DEF PhotoInv, PhotoType, Owned, Answerable, Stopping, Guard, At, Blocked, Goto, camera,
     Ends, Idle, flags, telemetry, Stored, Answers, Taking, Taken, Lanes, Room
<1>5. QED BY <1>1, <1>2, <1>3, <1>4 DEF PhotoInv

(* Arrival: nothing of the frame is there yet. *)
LEMMA ArrivesKeeps == ASSUME PhotoInv, Arrives PROVE PhotoInv'
<1> DEFINE l == [lane EXCEPT !.pc = "guard", !.before = seen.at]
<1>1. lane \in Lanes /\ seen.at \in Poses BY DEF PhotoInv, PhotoType, Statuses
<1>2. l \in Lanes /\ l.pc = "guard" /\ l.id = lane.id
  BY <1>1, LaneGoes, Places DEF Lanes
<1> HIDE DEF l
<1>3. /\ \/ lane' = lane /\ results' = results
         \/ lane' = l /\ results' = results
         \/ Ends("stopped") \/ Ends("failed")
      /\ At("wait") /\ news' \in {news, FALSE}
      /\ UNCHANGED <<camera, gate, flags, mark, seen, svc, hat, stopPc, trip>>
  BY DEF Arrives, l
<1>4. PhotoType'
  <2>1. lane' \in Lanes BY <1>1, <1>2, <1>3, LaneIdle DEF Ends
  <2>2. results' \in [Ids -> Answers]
    BY <1>3 DEF PhotoInv, PhotoType, Answers, Answerable, At, Ends
  <2>3. QED BY <1>3, <2>1, <2>2 DEF PhotoInv, PhotoType, camera, flags
<1>5. (Owned /\ Answerable /\ Stopping)'
  <2>1. CASE lane' = lane /\ results' = results
    BY <1>3, <2>1 DEF PhotoInv, Owned, Answerable, Stopping, camera, flags, Room
  <2>2. CASE lane' = l /\ results' = results
    BY <1>2, <1>3, <2>2 DEF PhotoInv, Owned, Answerable, Stopping, camera, flags, At, Taking,
       Taken
  <2>3. CASE Ends("stopped") \/ Ends("failed")
    <3>1. lane'.pc = "idle" /\ results' \in {[results EXCEPT ![lane.id] = "stopped"],
                                            [results EXCEPT ![lane.id] = "failed"]}
      BY <2>3 DEF Ends, Idle
    <3>2. QED BY <1>3, <3>1 DEF PhotoInv, PhotoType, Stored, Owned, Answerable, Stopping,
         camera, flags, At, Taking, Taken
  <2>4. QED BY <1>3, <2>1, <2>2, <2>3
<1>6. QED BY <1>4, <1>5 DEF PhotoInv

(* The camera lock is taken; the room found now lasts until the frame is kept. *)
LEMMA TakesCameraKeeps == ASSUME PhotoInv, TakesCamera PROVE PhotoInv'
<1>1. PhotoType'
  <2>1. lane' \in Lanes
    <3>1. lane' \in {lane, Idle} \/ Goto("gate") BY DEF TakesCamera, Ends
    <3>2. QED BY <3>1, LaneKept, Places DEF Taking, Taken
  <2>2. QED BY <2>1 DEF PhotoInv, PhotoType, Answers, Answerable, TakesCamera, At, camera,
       Room, Goto, Ends, Idle, flags, telemetry
<1>2. Owned'
  BY DEF PhotoInv, PhotoType, Owned, Answerable, Stopping, TakesCamera, At, camera, Room,
     Goto, Ends, Idle, flags, telemetry, Stored, Answers, Taking, Taken, Lanes
<1>3. Answerable'
  BY DEF PhotoInv, PhotoType, Owned, Answerable, Stopping, TakesCamera, At, camera, Room,
     Goto, Ends, Idle, flags, telemetry, Stored, Answers, Taking, Taken, Lanes
<1>4. Stopping'
  BY DEF PhotoInv, PhotoType, Owned, Answerable, Stopping, TakesCamera, At, camera, Room,
     Goto, Ends, Idle, flags, telemetry, Stored, Answers, Taking, Taken, Lanes
<1>5. QED BY <1>1, <1>2, <1>3, <1>4 DEF PhotoInv

(* The capture gate is taken. *)
LEMMA TakesGateKeeps == ASSUME PhotoInv, TakesGate PROVE PhotoInv'
<1>1. PhotoType'
  BY DEF PhotoInv, PhotoType, TakesGate, At, Goto, camera, flags, telemetry, Answers,
     Answerable, Lanes, LanePlaces, Statuses, Services, Hats, Taken, Taking
<1>2. (Owned /\ Answerable /\ Stopping)'
  BY DEF PhotoInv, PhotoType, Owned, Answerable, Stopping, TakesGate, At, Goto, camera, flags,
     telemetry, Stored, Answers, Taking, Taken, Lanes, Room
<1>3. QED BY <1>1, <1>2 DEF PhotoInv

(* A STOP latched under the gate is seen here. *)
LEMMA AuthorizeKeeps == ASSUME PhotoInv, Authorize PROVE PhotoInv'
<1>1. PhotoType'
  <2>1. lane' \in Lanes
    <3>1. lane' \in {lane, Idle} \/ Goto("shoot") BY DEF Authorize, Ends
    <3>2. QED BY <3>1, LaneKept, Places DEF Taking, Taken
  <2>2. QED BY <2>1 DEF PhotoInv, PhotoType, Answers, Answerable, Authorize, At, Blocked,
       Goto, Ends, Idle, flags, telemetry
<1>2. Owned'
  BY DEF PhotoInv, PhotoType, Owned, Answerable, Stopping, Authorize, At, Blocked, Goto, Ends,
     Idle, flags, telemetry, Stored, Answers, Taking, Taken, Lanes, Room
<1>3. Answerable'
  BY DEF PhotoInv, PhotoType, Owned, Answerable, Stopping, Authorize, At, Blocked, Goto, Ends,
     Idle, flags, telemetry, Stored, Answers, Taking, Taken, Lanes, Room
<1>4. Stopping'
  BY DEF PhotoInv, PhotoType, Owned, Answerable, Stopping, Authorize, At, Blocked, Goto, Ends,
     Idle, flags, telemetry, Stored, Answers, Taking, Taken, Lanes, Room
<1>5. QED BY <1>1, <1>2, <1>3, <1>4 DEF PhotoInv

(* The shutter opens under the gate. *)
LEMMA ShootKeeps == ASSUME PhotoInv, Shoot PROVE PhotoInv'
<1> DEFINE l == [lane EXCEPT !.pc = "keep", !.shot = TRUE]
<1>1. lane \in Lanes BY DEF PhotoInv, PhotoType
<1>2. l \in Lanes /\ l.pc = "keep" /\ l.id = lane.id
  BY <1>1, LaneGoes, Places DEF Lanes, Taking
<1> HIDE DEF l
<1>3. /\ \/ lane' = l /\ results' = results /\ cam' = cam
         \/ Ends("failed") /\ cam' = "none"
      /\ At("shoot") /\ gate' = "none" /\ mark' \in {mark, FALSE}
      /\ seen' \in {seen, [seen EXCEPT !.fresh = FALSE]}
      /\ svc' \in {svc, [svc EXCEPT !.told.fresh = FALSE, !.mark = FALSE]}
      /\ UNCHANGED <<store, up, flags, news, hat, stopPc, trip>>
  BY DEF Shoot, l
<1>4. PhotoType'
  <2>1. seen' \in Statuses /\ svc' \in Services BY <1>3, Stale DEF PhotoInv, PhotoType
  <2>2. QED BY <1>1, <1>2, <1>3, <2>1, LaneIdle DEF PhotoInv, PhotoType, Answers, Answerable,
       At, Ends, flags
<1>5. (Owned /\ Answerable /\ Stopping)'
  <2>1. CASE lane' = l /\ results' = results /\ cam' = cam
    BY <1>2, <1>3, <2>1 DEF PhotoInv, Owned, Answerable, Stopping, flags, At, Taking, Taken,
       Room
  <2>2. CASE Ends("failed") /\ cam' = "none"
    BY <1>3, <2>2 DEF PhotoInv, PhotoType, Owned, Answerable, Stopping, flags, At, Taking,
       Taken, Ends, Idle
  <2>3. QED BY <1>3, <2>1, <2>2
<1>6. QED BY <1>4, <1>5 DEF PhotoInv

(* The frame is kept, or was not: there is room since the lock was taken. *)
LEMMA KeepKeeps == ASSUME PhotoInv, Keep PROVE PhotoInv'
<1>1. PhotoType'
  <2>1. lane' \in Lanes
    <3>1. lane' \in {lane, Idle} \/ Goto("stamp") BY DEF Keep, Ends
    <3>2. QED BY <3>1, LaneKept, Places DEF Taken
  <2>2. Stored(store')
    <3>1. Room /\ lane.id \in Ids BY DEF PhotoInv, Owned, Answerable, Keep, At, Taking
    <3>2. QED BY <3>1, StoreType DEF Keep
  <2>3. QED BY <2>1, <2>2 DEF PhotoInv, PhotoType, Answers, Answerable, Keep, At, Ends, flags,
       telemetry
<1>2. Owned'
  BY DEF PhotoInv, PhotoType, Owned, Answerable, Stopping, Keep, At, Goto, Ends, Idle, flags,
     telemetry, Taking, Taken, Lanes, Room
<1>3. Answerable'
  BY DEF PhotoInv, PhotoType, Stored, Owned, Answerable, Stopping, Keep, At, Goto, Ends, Idle,
     flags, telemetry, Taking, Taken, Lanes, Room
<1>4. Stopping'
  BY DEF PhotoInv, PhotoType, Owned, Answerable, Stopping, Keep, At, Goto, Ends, Idle, flags,
     telemetry, Taking, Taken, Lanes, Room
<1>5. QED BY <1>1, <1>2, <1>3, <1>4 DEF PhotoInv

(* The time of the frame is read. *)
LEMMA StampKeeps == ASSUME PhotoInv, Stamp PROVE PhotoInv'
<1> DEFINE b == lane.id \in store
           l == [lane EXCEPT !.pc = "wait2", !.stamped = b]
<1>1. lane \in Lanes /\ b \in BOOLEAN BY DEF PhotoInv, PhotoType
<1> HIDE DEF b
<1>2. l \in Lanes /\ l.pc = "wait2" /\ l.id = lane.id
  BY <1>1, LaneGoes, Places DEF Lanes, Taken
<1>3. lane' = l BY DEF Stamp, b
<1> HIDE DEF l
<1>4. PhotoType' BY <1>2, <1>3 DEF PhotoInv, PhotoType, Stamp, camera, flags, telemetry
<1>5. (Owned /\ Answerable /\ Stopping)'
  BY <1>2, <1>3 DEF PhotoInv, Owned, Answerable, Stopping, Stamp, At, camera, flags,
     telemetry, Taking, Taken
<1>6. QED BY <1>4, <1>5 DEF PhotoInv

(* The telemetry after the shutter, and no STOP since the dispatch. *)
LEMMA SettlesKeeps == ASSUME PhotoInv, Settles PROVE PhotoInv'
<1>1. PhotoType'
  <2>1. lane' \in Lanes
    <3>1. lane' \in {lane, Idle} \/ Goto("discard") \/ Goto("confirm") BY DEF Settles
    <3>2. QED BY <3>1, LaneKept, Places DEF Taking, Taken
  <2>2. QED BY <2>1 DEF PhotoInv, PhotoType, Answers, Answerable, Settles, At, Goto,
       Qualifies, Arrivals, Bracketed, SamePose, camera, flags
<1>2. (Owned /\ Answerable /\ Stopping)'
  BY DEF PhotoInv, PhotoType, Owned, Answerable, Stopping, Settles, At, Goto, Qualifies,
     Arrivals, Bracketed, SamePose, camera, flags, Stored, Answers, Taking, Taken, Lanes, Room
<1>3. QED BY <1>1, <1>2 DEF PhotoInv

(* The frame leaves the store before its request is answered. *)
LEMMA DiscardKeeps == ASSUME PhotoInv, Discard PROVE PhotoInv'
<1>1. PhotoType'
  <2>1. lane' \in Lanes
    <3>1. lane' \in {lane, Idle} BY DEF Discard, Ends
    <3>2. QED BY <3>1, LaneKept, Places DEF Taking, Taken
  <2>2. Stored(store') BY StoreType DEF Discard
  <2>3. QED BY <2>1, <2>2 DEF PhotoInv, PhotoType, Answers, Answerable, Stored, Discard, At,
       Ends, Idle, flags, telemetry
<1>2. Owned'
  BY DEF PhotoInv, PhotoType, Owned, Answerable, Stopping, Discard, At, Ends, Idle, flags,
     telemetry, Stored, Answers, Taking, Taken, Lanes, Room
<1>3. Answerable'
  BY DEF PhotoInv, PhotoType, Owned, Answerable, Stopping, Discard, At, Ends, Idle, flags,
     telemetry, Stored, Answers, Taking, Taken, Lanes, Room
<1>4. Stopping'
  BY DEF PhotoInv, PhotoType, Owned, Answerable, Stopping, Discard, At, Ends, Idle, flags,
     telemetry, Stored, Answers, Taking, Taken, Lanes, Room
<1>5. QED BY <1>1, <1>2, <1>3, <1>4 DEF PhotoInv

(* The frame is evidence, or has expired. *)
LEMMA ConfirmKeeps == ASSUME PhotoInv, Confirm PROVE PhotoInv'
<1>1. lane.id \in Ids /\ lane.pc = "confirm" BY DEF PhotoInv, Answerable, Confirm, At
<1>2. PICK out \in {"captured", "unavailable"} :
        Ends(out) /\ (out = "unavailable" => lane.id \notin store)
  BY DEF Confirm
<1>3. PhotoType'
  BY <1>1, <1>2, LaneIdle DEF PhotoInv, PhotoType, Answers, Confirm, Ends, camera, flags,
     telemetry
<1>4. (Owned /\ Answerable /\ Stopping)'
  BY <1>1, <1>2 DEF PhotoInv, PhotoType, Stored, Owned, Answerable, Stopping, Confirm, Ends,
     Idle, camera, flags, telemetry, Taking, Taken, Room
<1>5. QED BY <1>3, <1>4 DEF PhotoInv

(* An exception loses the request, never its frame. *)
LEMMA RaisesKeeps == ASSUME PhotoInv, Raises PROVE PhotoInv'
<1>1. PhotoType'
  <2>1. lane' \in Lanes
    <3>1. lane' \in {lane, Idle} \/ Goto("discard") BY DEF Raises, Ends
    <3>2. QED BY <3>1, LaneKept, Places DEF Taking, Taken
  <2>2. QED BY <2>1 DEF PhotoInv, PhotoType, Answers, Answerable, Raises, Goto, Ends, Idle,
       camera, flags, telemetry
<1>2. Owned'
  BY DEF PhotoInv, PhotoType, Owned, Answerable, Stopping, Raises, Goto, Ends, Idle, camera,
     flags, telemetry, Stored, Answers, Taking, Taken, Lanes, Room
<1>3. Answerable'
  BY DEF PhotoInv, PhotoType, Owned, Answerable, Stopping, Raises, Goto, Ends, Idle, camera,
     flags, telemetry, Stored, Answers, Taking, Taken, Lanes, Room
<1>4. Stopping'
  BY DEF PhotoInv, PhotoType, Owned, Answerable, Stopping, Raises, Goto, Ends, Idle, camera,
     flags, telemetry, Stored, Answers, Taking, Taken, Lanes, Room
<1>5. QED BY <1>1, <1>2, <1>3, <1>4 DEF PhotoInv

(* Another user takes the camera. *)
LEMMA OtherTakesKeeps == ASSUME PhotoInv, OtherTakes PROVE PhotoInv'
<1>1. PhotoType'
  BY DEF PhotoInv, PhotoType, OtherTakes, flags, telemetry, Answers, Answerable, Lanes,
     LanePlaces, Statuses, Services, Hats, Taken, Taking
<1>2. (Owned /\ Answerable /\ Stopping)'
  BY DEF PhotoInv, PhotoType, Owned, Answerable, Stopping, OtherTakes, flags, telemetry,
     Stored, Answers, Taking, Taken, Lanes, Room
<1>3. QED BY <1>1, <1>2 DEF PhotoInv

(* That user leaves it. *)
LEMMA OtherLeavesKeeps == ASSUME PhotoInv, OtherLeaves PROVE PhotoInv'
<1>1. PhotoType'
  <2>1. Stored(store') BY StoreType DEF OtherLeaves, flags, telemetry
  <2>2. QED BY <2>1 DEF PhotoInv, PhotoType, Answers, Answerable, Stored, OtherLeaves, flags,
       telemetry
<1>2. (Owned /\ Answerable /\ Stopping)'
  BY DEF PhotoInv, PhotoType, Owned, Answerable, Stopping, OtherLeaves, flags, telemetry,
     Stored, Answers, Taking, Taken, Lanes, Room
<1>3. QED BY <1>1, <1>2 DEF PhotoInv

(* A frame is claimed. *)
LEMMA ClaimsKeeps == ASSUME PhotoInv, NEW i \in Ids, Claims(i) PROVE PhotoInv'
<1>1. PhotoType'
  <2>1. Stored(store') BY StoreType DEF Claims, flags, telemetry
  <2>2. QED BY <2>1 DEF PhotoInv, PhotoType, Answers, Answerable, Stored, Claims, flags,
       telemetry
<1>2. (Owned /\ Answerable /\ Stopping)'
  BY DEF PhotoInv, PhotoType, Owned, Answerable, Stopping, Claims, flags, telemetry, Stored,
     Answers, Taking, Taken, Lanes, Room
<1>3. QED BY <1>1, <1>2 DEF PhotoInv

(* A frame expires. *)
LEMMA ExpiresKeeps == ASSUME PhotoInv, NEW i \in Ids, Expires(i) PROVE PhotoInv'
<1>1. PhotoType'
  <2>1. Stored(store') BY StoreType DEF Expires, flags, telemetry
  <2>2. QED BY <2>1 DEF PhotoInv, PhotoType, Answers, Answerable, Stored, Expires, flags,
       telemetry
<1>2. (Owned /\ Answerable /\ Stopping)'
  BY DEF PhotoInv, PhotoType, Owned, Answerable, Stopping, Expires, flags, telemetry, Stored,
     Answers, Taking, Taken, Lanes, Room
<1>3. QED BY <1>1, <1>2 DEF PhotoInv

(* A STOP arrives. *)
LEMMA StopCalledKeeps == ASSUME PhotoInv, StopCalled PROVE PhotoInv'
<1>1. PhotoType'
  BY DEF PhotoInv, PhotoType, StopCalled, camera, flags, telemetry, Answers, Answerable,
     Lanes, LanePlaces, Statuses, Services, Hats, Taken, Taking
<1>2. (Owned /\ Answerable /\ Stopping)'
  BY DEF PhotoInv, PhotoType, Owned, Answerable, Stopping, StopCalled, camera, flags,
     telemetry, Stored, Answers, Taking, Taken, Lanes, Room
<1>3. QED BY <1>1, <1>2 DEF PhotoInv

(* It tries the gate. *)
LEMMA StopTriesKeeps == ASSUME PhotoInv, StopTries PROVE PhotoInv'
<1>1. PhotoType'
  BY DEF PhotoInv, PhotoType, StopTries, camera, flags, telemetry, Answers, Answerable, Lanes,
     LanePlaces, Statuses, Services, Hats, Taken, Taking
<1>2. (Owned /\ Answerable /\ Stopping)'
  BY DEF PhotoInv, PhotoType, Owned, Answerable, Stopping, StopTries, camera, flags,
     telemetry, Stored, Answers, Taking, Taken, Lanes, Room
<1>3. QED BY <1>1, <1>2 DEF PhotoInv

(* It latches: with the gate in hand no shutter is about to open. *)
LEMMA StopLatchesKeeps == ASSUME PhotoInv, StopLatches PROVE PhotoInv'
<1>1. PhotoType'
  BY DEF PhotoInv, PhotoType, StopLatches, camera, telemetry, Answers, Answerable, Lanes,
     LanePlaces, Statuses, Services, Hats, Taken, Taking
<1>2. (Owned /\ Answerable /\ Stopping)'
  BY DEF PhotoInv, PhotoType, Owned, Answerable, Stopping, StopLatches, camera, telemetry,
     Stored, Answers, Taking, Taken, Lanes, Room
<1>3. QED BY <1>1, <1>2 DEF PhotoInv

(* It gives the gate back. *)
LEMMA StopReleasesKeeps == ASSUME PhotoInv, StopReleases PROVE PhotoInv'
<1>1. PhotoType'
  BY DEF PhotoInv, PhotoType, StopReleases, camera, flags, telemetry, Answers, Answerable,
     Lanes, LanePlaces, Statuses, Services, Hats, Taken, Taking
<1>2. (Owned /\ Answerable /\ Stopping)'
  BY DEF PhotoInv, PhotoType, Owned, Answerable, Stopping, StopReleases, camera, flags,
     telemetry, Stored, Answers, Taking, Taken, Lanes, Room
<1>3. QED BY <1>1, <1>2 DEF PhotoInv

(* It reaches the controller, or not. *)
LEMMA StopSentKeeps == ASSUME PhotoInv, StopSent PROVE PhotoInv'
<1>1. hat \in Hats BY DEF PhotoInv, PhotoType
<1>2. hat' \in Hats
  <2>1. [hat EXCEPT !.moving = FALSE, !.stopped = TRUE] \in Hats BY <1>1 DEF Hats
  <2>2. QED BY <1>1, <2>1 DEF StopSent
<1>3. PhotoType' BY <1>2 DEF PhotoInv, PhotoType, StopSent, camera, flags, telemetry
<1>4. (Owned /\ Answerable /\ Stopping)'
  BY DEF PhotoInv, Owned, Answerable, Stopping, StopSent, camera, flags, telemetry, Room
<1>5. QED BY <1>3, <1>4 DEF PhotoInv

(* A STOP is cleared between requests only. *)
LEMMA ClearStopKeeps == ASSUME PhotoInv, ClearStop PROVE PhotoInv'
<1>1. hat \in Hats BY DEF PhotoInv, PhotoType
<1>2. hat' \in Hats
  <2>1. [hat EXCEPT !.stopped = FALSE, !.moving = FALSE] \in Hats BY <1>1 DEF Hats
  <2>2. QED BY <2>1 DEF ClearStop
<1>3. PhotoType' BY <1>2 DEF PhotoInv, PhotoType, ClearStop, camera, telemetry
<1>4. (Owned /\ Answerable /\ Stopping)'
  BY DEF PhotoInv, Owned, Answerable, Stopping, ClearStop, At, camera, telemetry, Room
<1>5. QED BY <1>3, <1>4 DEF PhotoInv

(* The service thread asks for STATUS. *)
LEMMA MeasuredKeeps == ASSUME PhotoInv, Measured PROVE PhotoInv'
<1>1. PhotoType'
  BY DEF PhotoInv, PhotoType, Measured, Told, camera, flags, Answers, Answerable, Lanes,
     LanePlaces, Statuses, Services, Hats, Taken, Taking
<1>2. (Owned /\ Answerable /\ Stopping)'
  BY DEF PhotoInv, PhotoType, Owned, Answerable, Stopping, Measured, Told, camera, flags,
     Stored, Answers, Taking, Taken, Lanes, Room
<1>3. QED BY <1>1, <1>2 DEF PhotoInv

(* STATUS is answered. *)
LEMMA AnsweredKeeps == ASSUME PhotoInv, Answered PROVE PhotoInv'
<1>1. svc \in Services /\ lane.shot \in BOOLEAN BY DEF PhotoInv, PhotoType, Lanes
<1>2. seen' \in Statuses /\ svc' \in Services BY <1>1, Reads DEF Answered
<1>3. PhotoType' BY <1>2 DEF PhotoInv, PhotoType, Answered, camera, flags
<1>4. (Owned /\ Answerable /\ Stopping)'
  BY DEF PhotoInv, Owned, Answerable, Stopping, Answered, camera, flags, Room
<1>5. QED BY <1>3, <1>4 DEF PhotoInv

(* STATUS is published. *)
LEMMA PublishesKeeps == ASSUME PhotoInv, Publishes PROVE PhotoInv'
<1>1. PhotoType'
  BY DEF PhotoInv, PhotoType, Publishes, camera, flags, Answers, Answerable, Lanes,
     LanePlaces, Statuses, Services, Hats, Taken, Taking
<1>2. (Owned /\ Answerable /\ Stopping)'
  BY DEF PhotoInv, PhotoType, Owned, Answerable, Stopping, Publishes, camera, flags, Stored,
     Answers, Taking, Taken, Lanes, Room
<1>3. QED BY <1>1, <1>2 DEF PhotoInv

(* The arm comes to rest, sags or is turned. *)
LEMMA ArmMovesKeeps == ASSUME PhotoInv, ArmMoves PROVE PhotoInv'
<1>1. hat \in Hats /\ "turned" \in Poses /\ "away" \in Poses
  BY DEF PhotoInv, PhotoType, Poses, Arrivals
<1>2. hat' \in Hats
  <2>1. \A p \in Poses : [hat EXCEPT !.at = p, !.moving = FALSE] \in Hats BY <1>1, Arms
  <2>2. [hat EXCEPT !.at = "turned"] \in Hats BY <1>1, Arms
  <2>3. [hat EXCEPT !.at = "away", !.moving = FALSE, !.stopped = TRUE] \in Hats BY <1>1, Arms
  <2>4. QED BY <2>1, <2>2, <2>3 DEF ArmMoves
<1>3. PhotoType' BY <1>2 DEF PhotoInv, PhotoType, ArmMoves, camera, flags, telemetry
<1>4. (Owned /\ Answerable /\ Stopping)'
  BY DEF PhotoInv, Owned, Answerable, Stopping, ArmMoves, camera, flags, telemetry, Room
<1>5. QED BY <1>3, <1>4 DEF PhotoInv

(* Nothing is under way at the start, and what was photographed before is *)
(* evidence.                                                              *)
LEMMA PhotoInit == Init => PhotoInv
<1> SUFFICES ASSUME Init PROVE PhotoInv OBVIOUS
<1>1. Told(FALSE) \in Statuses BY DEF Init, Told, Statuses, Poses
<1>2. svc \in Services BY <1>1 DEF Init, Services
<1>3. hat \in Hats BY DEF Init, Hats, Poses
<1>4. Stored(store) BY ObservationAssumption DEF Init, Stored
<1>5. PhotoType
  BY <1>1, <1>2, <1>3, <1>4, LaneIdle DEF Init, PhotoType, Answers, NoTrip
<1>6. Owned /\ Answerable /\ Stopping
  BY ObservationAssumption DEF Init, Owned, Answerable, Stopping, Idle, NoTrip, Taking, Taken
<1>7. QED BY <1>5, <1>6 DEF PhotoInv

(* Every step of the photograph keeps its invariant. *)
LEMMA PhotoKeeps == ASSUME PhotoInv, [Next]_vars PROVE PhotoInv'
<1>1. ASSUME NEW i \in Ids, Begin(i) \/ Replay(i) \/ Claims(i) \/ Expires(i) PROVE PhotoInv'
  BY <1>1, BeginKeeps, ReplayKeeps, ClaimsKeeps, ExpiresKeeps
<1>2. CASE LaneStep
  BY <1>2, DispatchKeeps, SampleKeeps, ArrivesKeeps, GuardKeeps, TakesCameraKeeps,
     TakesGateKeeps, AuthorizeKeeps, ShootKeeps, KeepKeeps, StampKeeps, SettlesKeeps,
     DiscardKeeps, ConfirmKeeps DEF LaneStep
<1>3. CASE Raises \/ OtherTakes \/ OtherLeaves
  BY <1>3, RaisesKeeps, OtherTakesKeeps, OtherLeavesKeeps
<1>4. CASE StopCalled \/ StopStep \/ ClearStop
  BY <1>4, StopCalledKeeps, StopTriesKeeps, StopLatchesKeeps, StopReleasesKeeps,
     StopSentKeeps, ClearStopKeeps DEF StopStep
<1>5. CASE Service \/ ArmMoves
  BY <1>5, MeasuredKeeps, AnsweredKeeps, PublishesKeeps, ArmMovesKeeps DEF Service
<1>6. CASE UNCHANGED vars
  BY <1>6 DEF vars, PhotoInv, PhotoType, Stored, Owned, Answerable, Stopping, Room
<1>7. QED BY <1>1, <1>2, <1>3, <1>4, <1>5, <1>6 DEF Next

(* The invariant holds in every state of the photograph. *)
THEOREM PhotoInductive == Spec => []PhotoInv
<1>1. Init => PhotoInv BY PhotoInit
<1>2. PhotoInv /\ [Next]_vars => PhotoInv' BY PhotoKeeps
<1>3. QED BY <1>1, <1>2, PTL DEF Spec

(* Only Confirm makes a frame evidence. *)
LEMMA OnlyConfirmCaptures ==
  ASSUME PhotoInv, [Next]_vars, NEW i \in Ids, results'[i] = "captured", results[i] # "captured"
  PROVE  Confirm
<1>1. results \in [Ids -> Answers] BY DEF PhotoInv, PhotoType
<1>2. ASSUME NEW out \in {"failed", "stopped", "invalidated"}, Ends(out) PROVE FALSE
  BY <1>1, <1>2 DEF Ends
<1>3. ~UNCHANGED results OBVIOUS
<1>4. ASSUME NEW j \in Ids, Begin(j) \/ Replay(j) \/ Claims(j) \/ Expires(j) PROVE FALSE
  BY <1>1, <1>3, <1>4 DEF Begin, Replay, Claims, Expires
<1>5. CASE Dispatch \/ Arrives \/ Guard \/ Authorize
  BY <1>2, <1>3, <1>5 DEF Dispatch, Arrives, Guard, Authorize
<1>6. CASE TakesCamera \/ Shoot \/ Keep \/ Discard \/ Raises
  BY <1>2, <1>3, <1>6 DEF TakesCamera, Shoot, Keep, Discard, Raises
<1>7. CASE Sample \/ TakesGate \/ Stamp \/ Settles
  BY <1>3, <1>7 DEF Sample, TakesGate, Stamp, Settles
<1>8. CASE OtherTakes \/ OtherLeaves \/ StopCalled \/ StopStep \/ ClearStop \/ Service \/ ArmMoves
  BY <1>3, <1>8 DEF OtherTakes, OtherLeaves, StopCalled, StopStep, StopTries, StopLatches,
     StopReleases, StopSent, ClearStop, Service, Measured, Answered, Publishes, ArmMoves
<1>9. CASE UNCHANGED vars BY <1>3, <1>9 DEF vars
<1>10. QED BY <1>4, <1>5, <1>6, <1>7, <1>8, <1>9 DEF Next, LaneStep

(* A STOP latched under the gate is before the shutter of its request, and *)
(* one latched after the dispatch is before its evidence.                  *)
LEMMA PhotoStops ==
  ASSUME PhotoInv, [Next]_vars
  PROVE  NoShutterAfterStop /\ CapturedIsUnstopped
<1>1. NoShutterAfterStop BY DEF PhotoInv, Stopping, NoShutterAfterStop, Shoot, At
<1>2. ASSUME NEW i \in Ids, results'[i] = "captured", results[i] # "captured"
      PROVE  ~trip.halted
  <2>1. Confirm BY <1>2, OnlyConfirmCaptures
  <2>2. QED BY <2>1 DEF PhotoInv, Stopping, Confirm, At
<1>3. QED BY <1>1, <1>2 DEF CapturedIsUnstopped

(* STOP wins over a photograph (execute_and_capture, _capture_gate): its    *)
(* shutter does not open after a STOP latched under the gate, and no frame  *)
(* is evidence of a request a STOP fell into.                               *)
THEOREM StopWins == Spec => StopWinsOverPhotograph
<1>1. PhotoInv /\ [Next]_vars => [NoShutterAfterStop /\ CapturedIsUnstopped]_vars
  BY PhotoStops
<1>2. QED BY <1>1, PhotoInductive, PTL DEF Spec, StopWinsOverPhotograph

-----------------------------------------------------------------------------
(* The driver after each call. *)
LEMMA DriverChanges ==
  ASSUME NEW d \in Drivers
  PROVE  /\ \A b \in BOOLEAN : [d EXCEPT !.streams = b] \in Drivers
         /\ [d EXCEPT !.open = FALSE, !.streams = FALSE, !.job = FALSE] \in Drivers
         /\ [d EXCEPT !.mode = "auto", !.job = TRUE] \in Drivers
         /\ [d EXCEPT !.mode = "auto"] \in Drivers /\ [d EXCEPT !.job = FALSE] \in Drivers
         /\ [d EXCEPT !.mode = "continuous"] \in Drivers
         /\ \A r \in {"macro", "full", "normal"} :
              [d EXCEPT !.mode = "continuous", !.range = r] \in Drivers
<1>1. \A b \in BOOLEAN : [d EXCEPT !.streams = b] \in Drivers BY DEF Drivers
<1>2. [d EXCEPT !.open = FALSE, !.streams = FALSE, !.job = FALSE] \in Drivers BY DEF Drivers
<1>3. [d EXCEPT !.mode = "auto", !.job = TRUE] \in Drivers BY DEF Drivers
<1>4. [d EXCEPT !.mode = "auto"] \in Drivers BY DEF Drivers
<1>5. [d EXCEPT !.job = FALSE] \in Drivers BY DEF Drivers
<1>6. [d EXCEPT !.mode = "continuous"] \in Drivers BY DEF Drivers
<1>7. ASSUME NEW r \in {"macro", "full", "normal"}
      PROVE  [d EXCEPT !.mode = "continuous", !.range = r] \in Drivers
  BY DEF Drivers
<1>8. QED BY <1>1, <1>2, <1>3, <1>4, <1>5, <1>6, <1>7

(* _configure_autofocus claims what it set, or claims nothing. *)
LEMMA FocusIsClaimed ==
  ASSUME ProviderInv, NEW next, Provider!Focuses(next)
  PROVE  /\ focus' \in Kinds /\ driver' \in Drivers /\ Claim'
         /\ driver'.open = driver.open /\ driver'.streams = driver.streams
         /\ driver'.profile = driver.profile /\ driver'.job = driver.job
         /\ pc' = next /\ UNCHANGED <<service, state, want, frame>>
<1>1. driver \in Drivers BY DEF ProviderInv, ProviderType
<1>2. /\ \/ driver' = driver /\ focus' \in {Provider!FixedFocus, Provider!Misconfigured}
         \/ \E r \in Provider!Ranges(profile) :
             /\ focus' = Provider!Focused(r)
             /\ driver' = [driver EXCEPT !.mode = "continuous", !.range = r]
         \/ /\ focus' = Provider!Focused("unavailable")
            /\ driver' = [driver EXCEPT !.mode = "continuous"]
      /\ pc' = next /\ UNCHANGED <<service, state, want, frame>>
  BY DEF Provider!Focuses, Provider!Call
<1>3. CASE driver' = driver /\ focus' \in {Provider!FixedFocus, Provider!Misconfigured}
  <2>1. focus'.mode # "continuous" /\ focus' \in Kinds
    BY <1>3 DEF Kinds, Provider!FixedFocus, Provider!Misconfigured
  <2>2. Claim' BY <2>1 DEF Claim
  <2>3. QED BY <1>1, <1>2, <1>3, <2>1, <2>2
<1>4. CASE \E r \in Provider!Ranges(profile) :
             /\ focus' = Provider!Focused(r)
             /\ driver' = [driver EXCEPT !.mode = "continuous", !.range = r]
  <2>1. PICK r \in {"macro", "full", "normal"} :
             /\ focus' = Provider!Focused(r)
             /\ driver' = [driver EXCEPT !.mode = "continuous", !.range = r]
    BY <1>4 DEF Provider!Ranges
  <2>2. driver' \in Drivers BY <1>1, <2>1, DriverChanges
  <2>3. focus' \in Kinds BY <2>1 DEF Provider!Focused, Kinds
  <2>4. /\ driver'.mode = "continuous" /\ driver'.range = r /\ driver'.open = driver.open
        /\ driver'.streams = driver.streams /\ driver'.profile = driver.profile
        /\ driver'.job = driver.job
    BY <1>1, <2>1 DEF Drivers
  <2>5. focus'.range = r BY <2>1 DEF Provider!Focused
  <2>6. Claim' BY <2>4, <2>5 DEF Claim
  <2>7. QED BY <1>2, <2>2, <2>3, <2>4, <2>6
<1>5. CASE /\ focus' = Provider!Focused("unavailable")
           /\ driver' = [driver EXCEPT !.mode = "continuous"]
  <2>1. driver' \in Drivers BY <1>1, <1>5, DriverChanges
  <2>2. focus' \in Kinds /\ focus'.range = "unavailable"
    BY <1>5 DEF Kinds, Provider!Focused
  <2>3. /\ driver'.mode = "continuous" /\ driver'.open = driver.open
        /\ driver'.streams = driver.streams /\ driver'.profile = driver.profile
        /\ driver'.job = driver.job
    BY <1>1, <1>5 DEF Drivers
  <2>4. Claim' BY <2>2, <2>3 DEF Claim
  <2>5. QED BY <1>2, <2>1, <2>2, <2>3, <2>4
<1>6. QED BY <1>2, <1>3, <1>4, <1>5

(* The camera is opened. *)
LEMMA StartTracked == ASSUME ProviderInv, Provider!Start PROVE ProviderInv'
<1>1. ProviderType'
  BY DEF ProviderInv, ProviderType, Lifecycle, Tracked, Claim, Provider!Start, Provider!At,
     Kinds, Drivers, Provider!Profiles
<1>2. (Lifecycle /\ Tracked)'
  <2>1. Lifecycle'
    BY DEF ProviderInv, ProviderType, Lifecycle, Tracked, Claim, Provider!Start, Provider!At,
       Drivers
  <2>2. Tracked'
    BY DEF ProviderInv, ProviderType, Lifecycle, Tracked, Claim, Provider!Start, Provider!At,
       Drivers, Provider!Profiles
  <2>3. QED BY <2>1, <2>2
<1>3. frame'.asked = frame'.taken /\ ~frame'.job BY DEF ProviderInv, Provider!Start
<1>4. QED BY <1>1, <1>2, <1>3 DEF ProviderInv

(* A camera that could not be set up is released. *)
LEMMA StartFailsTracked == ASSUME ProviderInv, Provider!StartFails PROVE ProviderInv'
<1>1. ProviderType'
  BY DriverChanges DEF ProviderInv, ProviderType, Lifecycle, Tracked, Claim,
     Provider!StartFails, Provider!Released
<1>2. (Lifecycle /\ Tracked)'
  BY DEF ProviderInv, ProviderType, Lifecycle, Tracked, Claim, Provider!StartFails,
     Provider!Released, Drivers
<1>3. frame'.asked = frame'.taken /\ ~frame'.job
  BY DEF ProviderInv, Provider!StartFails, Provider!Released
<1>4. QED BY <1>1, <1>2, <1>3 DEF ProviderInv

(* A capture: of the profile the driver has, or after a switch. *)
LEMMA CaptureTracked ==
  ASSUME ProviderInv, NEW p \in Provider!Profiles, Provider!Capture(p)
  PROVE  ProviderInv'
<1>1. ProviderType'
  BY DEF ProviderInv, ProviderType, Lifecycle, Tracked, Claim, Provider!Capture, Provider!At,
     Kinds, Drivers, Provider!Profiles
<1>2. (Lifecycle /\ Tracked)'
  BY DEF ProviderInv, ProviderType, Lifecycle, Tracked, Claim, Provider!Capture, Provider!At,
     Drivers
<1>3. frame'.asked = frame'.taken /\ ~frame'.job BY DEF ProviderInv, Provider!Capture
<1>4. QED BY <1>1, <1>2, <1>3 DEF ProviderInv

(* The stream stops for a switch. *)
LEMMA StopStreamTracked == ASSUME ProviderInv, Provider!StopStream PROVE ProviderInv'
<1>1. ProviderType'
  BY DriverChanges DEF ProviderInv, ProviderType, Lifecycle, Tracked, Claim,
     Provider!StopStream, Provider!At, Provider!Call
<1>2. (Lifecycle /\ Tracked)'
  BY DEF ProviderInv, ProviderType, Lifecycle, Tracked, Claim, Provider!StopStream,
     Provider!At, Provider!Call, Drivers
<1>3. frame'.asked = frame'.taken /\ ~frame'.job
  BY DEF ProviderInv, Provider!StopStream, Provider!Call
<1>4. QED BY <1>1, <1>2, <1>3 DEF ProviderInv

(* The driver takes the profile, and the provider notes it. *)
LEMMA ConfiguresTracked == ASSUME ProviderInv, Provider!Configures PROVE ProviderInv'
<1>1. ProviderType'
  BY DEF ProviderInv, ProviderType, Lifecycle, Tracked, Claim, Provider!Configures,
     Provider!At, Provider!Call, Kinds, Drivers, Provider!Profiles
<1>2. (Lifecycle /\ Tracked)'
  BY DEF ProviderInv, ProviderType, Lifecycle, Tracked, Claim, Provider!Configures,
     Provider!At, Provider!Call, Drivers
<1>3. frame'.asked = frame'.taken /\ ~frame'.job
  BY DEF ProviderInv, Provider!Configures, Provider!Call
<1>4. QED BY <1>1, <1>2, <1>3 DEF ProviderInv

(* The focus of the profile is set. *)
LEMMA FocusesFirstTracked == ASSUME ProviderInv, Provider!FocusesFirst PROVE ProviderInv'
<1>1. ProviderType'
  BY FocusIsClaimed DEF ProviderInv, ProviderType, Lifecycle, Tracked, Provider!FocusesFirst,
     Provider!At
<1>2. Lifecycle'
  BY FocusIsClaimed DEF ProviderInv, ProviderType, Lifecycle, Tracked, Provider!FocusesFirst,
     Provider!At
<1>3. Tracked'
  BY FocusIsClaimed DEF ProviderInv, ProviderType, Lifecycle, Tracked, Provider!FocusesFirst,
     Provider!At
<1>4. frame'.asked = frame'.taken /\ ~frame'.job
  BY FocusIsClaimed DEF ProviderInv, Provider!FocusesFirst
<1>5. QED BY <1>1, <1>2, <1>3, <1>4 DEF ProviderInv

(* The stream starts. *)
LEMMA RunsTracked == ASSUME ProviderInv, Provider!Runs PROVE ProviderInv'
<1>1. ProviderType'
  BY DEF ProviderInv, ProviderType, Lifecycle, Tracked, Claim, Provider!Runs, Provider!At,
     Kinds, Drivers, Provider!Profiles
<1>2. (Lifecycle /\ Tracked)'
  BY DEF ProviderInv, ProviderType, Lifecycle, Tracked, Claim, Provider!Runs, Provider!At,
     Drivers
<1>3. frame'.asked = frame'.taken /\ ~frame'.job BY DEF ProviderInv, Provider!Runs
<1>4. QED BY <1>1, <1>2, <1>3 DEF ProviderInv

(* A switch that failed closes the provider. *)
LEMMA SwitchFailsTracked == ASSUME ProviderInv, Provider!SwitchFails PROVE ProviderInv'
<1>1. ProviderType'
  BY DEF ProviderInv, ProviderType, Lifecycle, Tracked, Claim, Provider!SwitchFails,
     Provider!FailClosed, Provider!Released, Kinds, Drivers, Provider!Profiles
<1>2. (Lifecycle /\ Tracked)'
  BY DEF ProviderInv, ProviderType, Lifecycle, Tracked, Claim, Provider!SwitchFails,
     Provider!FailClosed, Provider!Released, Drivers
<1>3. frame'.asked = frame'.taken /\ ~frame'.job
  BY DEF ProviderInv, Provider!SwitchFails, Provider!FailClosed, Provider!Released
<1>4. QED BY <1>1, <1>2, <1>3 DEF ProviderInv

(* A frame of the profile the driver has. *)
LEMMA ShootTracked == ASSUME ProviderInv, Provider!Shoot PROVE ProviderInv'
<1>1. ProviderType'
  BY DEF ProviderInv, ProviderType, Lifecycle, Tracked, Claim, Provider!Shoot, Provider!At,
     Kinds, Drivers, Provider!Profiles
<1>2. (Lifecycle /\ Tracked)'
  BY DEF ProviderInv, ProviderType, Lifecycle, Tracked, Claim, Provider!Shoot, Provider!At,
     Drivers
<1>3. frame'.asked = frame'.taken /\ ~frame'.job
  BY DEF ProviderInv, ProviderType, Lifecycle, Tracked, Claim, Provider!Shoot, Provider!At
<1>4. QED BY <1>1, <1>2, <1>3 DEF ProviderInv

(* An autofocus cycle begins. *)
LEMMA AutofocusTracked == ASSUME ProviderInv, Provider!Autofocus PROVE ProviderInv'
<1>1. ProviderType'
  BY DEF ProviderInv, ProviderType, Lifecycle, Tracked, Claim, Provider!Autofocus,
     Provider!At, Kinds, Drivers, Provider!Profiles
<1>2. (Lifecycle /\ Tracked)'
  BY DEF ProviderInv, ProviderType, Lifecycle, Tracked, Claim, Provider!Autofocus,
     Provider!At, Drivers
<1>3. frame'.asked = frame'.taken /\ ~frame'.job BY DEF ProviderInv, Provider!Autofocus
<1>4. QED BY <1>1, <1>2, <1>3 DEF ProviderInv

(* The range is widened, as a hint. *)
LEMMA WidensTracked == ASSUME ProviderInv, Provider!Widens PROVE ProviderInv'
<1>1. ProviderType'
  BY DEF ProviderInv, ProviderType, Lifecycle, Tracked, Claim, Provider!Widens, Provider!At,
     Provider!Call, Kinds, Drivers, Provider!Profiles
<1>2. (Lifecycle /\ Tracked)'
  BY DEF ProviderInv, ProviderType, Lifecycle, Tracked, Claim, Provider!Widens, Provider!At,
     Provider!Call, Drivers
<1>3. frame'.asked = frame'.taken /\ ~frame'.job
  BY DEF ProviderInv, Provider!Widens, Provider!Call
<1>4. QED BY <1>1, <1>2, <1>3 DEF ProviderInv

(* The job starts, or does not. *)
LEMMA CyclesTracked == ASSUME ProviderInv, Provider!Cycles PROVE ProviderInv'
<1>1. ProviderType'
  BY DriverChanges DEF ProviderInv, ProviderType, Lifecycle, Tracked, Claim, Provider!Cycles,
     Provider!At, Provider!Call
<1>2. (Lifecycle /\ Tracked)'
  BY DEF ProviderInv, ProviderType, Lifecycle, Tracked, Claim, Provider!Cycles, Provider!At,
     Provider!Call, Drivers
<1>3. frame'.asked = frame'.taken /\ ~frame'.job
  BY DEF ProviderInv, Provider!Cycles, Provider!Call
<1>4. QED BY <1>1, <1>2, <1>3 DEF ProviderInv

(* It did not: the focus is set again. *)
LEMMA UnwindsTracked == ASSUME ProviderInv, Provider!Unwinds PROVE ProviderInv'
<1>1. ProviderType'
  BY FocusIsClaimed DEF ProviderInv, ProviderType, Lifecycle, Tracked, Provider!Unwinds,
     Provider!At
<1>2. Lifecycle'
  BY FocusIsClaimed DEF ProviderInv, ProviderType, Lifecycle, Tracked, Provider!Unwinds,
     Provider!At
<1>3. Tracked'
  BY FocusIsClaimed DEF ProviderInv, ProviderType, Lifecycle, Tracked, Provider!Unwinds,
     Provider!At
<1>4. frame'.asked = frame'.taken /\ ~frame'.job
  BY FocusIsClaimed DEF ProviderInv, Provider!Unwinds
<1>5. QED BY <1>1, <1>2, <1>3, <1>4 DEF ProviderInv

(* The job is done, or time is over. *)
LEMMA WaitsTracked == ASSUME ProviderInv, Provider!Waits PROVE ProviderInv'
<1>1. ProviderType'
  BY DriverChanges DEF ProviderInv, ProviderType, Lifecycle, Tracked, Claim, Provider!Waits,
     Provider!At, Provider!Call
<1>2. (Lifecycle /\ Tracked)'
  BY DEF ProviderInv, ProviderType, Lifecycle, Tracked, Claim, Provider!Waits, Provider!At,
     Provider!Call, Drivers
<1>3. frame'.asked = frame'.taken /\ ~frame'.job
  BY DEF ProviderInv, Provider!Waits, Provider!Call
<1>4. QED BY <1>1, <1>2, <1>3 DEF ProviderInv

(* The job is cancelled. *)
LEMMA CancelsTracked == ASSUME ProviderInv, Provider!Cancels PROVE ProviderInv'
<1>1. ProviderType'
  BY DriverChanges DEF ProviderInv, ProviderType, Lifecycle, Tracked, Claim, Provider!Cancels,
     Provider!At, Provider!Call
<1>2. (Lifecycle /\ Tracked)'
  BY DEF ProviderInv, ProviderType, Lifecycle, Tracked, Claim, Provider!Cancels, Provider!At,
     Provider!Call, Drivers
<1>3. frame'.asked = frame'.taken /\ ~frame'.job
  BY DEF ProviderInv, Provider!Cancels, Provider!Call
<1>4. QED BY <1>1, <1>2, <1>3 DEF ProviderInv

(* The focus is set again after the job. *)
LEMMA RestoresTracked == ASSUME ProviderInv, Provider!Restores PROVE ProviderInv'
<1>1. ProviderType'
  BY FocusIsClaimed DEF ProviderInv, ProviderType, Lifecycle, Tracked, Provider!Restores,
     Provider!At
<1>2. Lifecycle'
  BY FocusIsClaimed DEF ProviderInv, ProviderType, Lifecycle, Tracked, Provider!Restores,
     Provider!At
<1>3. Tracked'
  BY FocusIsClaimed DEF ProviderInv, ProviderType, Lifecycle, Tracked, Provider!Restores,
     Provider!At
<1>4. frame'.asked = frame'.taken /\ ~frame'.job
  BY FocusIsClaimed DEF ProviderInv, Provider!Restores
<1>5. QED BY <1>1, <1>2, <1>3, <1>4 DEF ProviderInv

(* Anything else closes the provider. *)
LEMMA AutofocusFatalTracked == ASSUME ProviderInv, Provider!AutofocusFatal PROVE ProviderInv'
<1>1. ProviderType'
  BY DEF ProviderInv, ProviderType, Lifecycle, Tracked, Claim, Provider!AutofocusFatal,
     Provider!FailClosed, Provider!Released, Kinds, Drivers, Provider!Profiles
<1>2. (Lifecycle /\ Tracked)'
  BY DEF ProviderInv, ProviderType, Lifecycle, Tracked, Claim, Provider!AutofocusFatal,
     Provider!FailClosed, Provider!Released, Drivers
<1>3. frame'.asked = frame'.taken /\ ~frame'.job
  BY DEF ProviderInv, Provider!AutofocusFatal, Provider!FailClosed, Provider!Released
<1>4. QED BY <1>1, <1>2, <1>3 DEF ProviderInv

(* The service closes. *)
LEMMA CloseTracked == ASSUME ProviderInv, Provider!Close PROVE ProviderInv'
<1>1. ProviderType'
  BY DEF ProviderInv, ProviderType, Lifecycle, Tracked, Claim, Provider!Close, Provider!At,
     Provider!FailClosed, Provider!Released, Kinds, Drivers, Provider!Profiles
<1>2. (Lifecycle /\ Tracked)'
  BY DEF ProviderInv, ProviderType, Lifecycle, Tracked, Claim, Provider!Close, Provider!At,
     Provider!FailClosed, Provider!Released, Drivers
<1>3. frame'.asked = frame'.taken /\ ~frame'.job
  BY DEF ProviderInv, Provider!Close, Provider!FailClosed, Provider!Released
<1>4. QED BY <1>1, <1>2, <1>3 DEF ProviderInv

(* A new provider claims nothing. *)
LEMMA ProviderInit == Provider!Init => ProviderInv
BY DEF Provider!Init, ProviderInv, ProviderType, Lifecycle, Tracked, Claim, Kinds, Drivers,
   Provider!Profiles, Provider!Closed, Provider!Unknown, Provider!NoFrame

(* Every step of the provider keeps its invariant. *)
LEMMA ProviderKeeps == ASSUME ProviderInv, Provider!Next PROVE ProviderInv'
<1>1. CASE Provider!Start \/ Provider!StartFails \/ Provider!StopStream \/ Provider!Configures
           \/ Provider!FocusesFirst \/ Provider!Runs
  BY <1>1, StartTracked, StartFailsTracked, StopStreamTracked, ConfiguresTracked,
     FocusesFirstTracked, RunsTracked
<1>2. CASE \E p \in Provider!Profiles : Provider!Capture(p) BY <1>2, CaptureTracked
<1>3. CASE Provider!SwitchFails \/ Provider!Shoot \/ Provider!Autofocus \/ Provider!Widens
           \/ Provider!Cycles \/ Provider!Unwinds
  BY <1>3, SwitchFailsTracked, ShootTracked, AutofocusTracked, WidensTracked, CyclesTracked,
     UnwindsTracked
<1>4. CASE Provider!Waits \/ Provider!Cancels \/ Provider!Restores \/ Provider!AutofocusFatal
           \/ Provider!Close
  BY <1>4, WaitsTracked, CancelsTracked, RestoresTracked, AutofocusFatalTracked, CloseTracked
<1>5. QED BY <1>1, <1>2, <1>3, <1>4 DEF Provider!Next

-----------------------------------------------------------------------------
(* Both invariants hold whichever of the two a behaviour is of. *)
THEOREM CamerasInductive == MCStopSpec => [](PhotoInv /\ ProviderInv)
<1>1. MCInit => PhotoInv /\ ProviderInv BY PhotoInit, ProviderInit DEF MCInit
<1>2. ASSUME PhotoInv, ProviderInv, [MCNext]_<<bench, vars, provider>>
      PROVE  PhotoInv' /\ ProviderInv'
  <2>1. UNCHANGED provider => ProviderInv'
    BY <1>2 DEF provider, ProviderInv, ProviderType, Lifecycle, Tracked, Claim
  <2>2. UNCHANGED vars => PhotoInv' BY <1>2, PhotoKeeps
  <2>3. Next => PhotoInv' BY <1>2, PhotoKeeps
  <2>4. Provider!Next => ProviderInv' BY <1>2, ProviderKeeps
  <2>5. QED BY <1>2, <2>1, <2>2, <2>3, <2>4 DEF MCNext, ProviderIsClosed
<1>3. QED BY <1>1, <1>2, PTL DEF MCStopSpec

(* A frame is what it says (pi_camera.py, camera_api.py): the claimed focus  *)
(* is the driver's, no autofocus job outlives its request, a frame has the   *)
(* profile it was asked for, and one whose pose evidence failed can be       *)
(* claimed by nobody.                                                        *)
THEOREM FramesStayTrue == MCStopSpec => []FramesAreTrue
<1>1. PhotoInv => TypeOK
  BY DEF PhotoInv, PhotoType, Stored, Owned, TypeOK, Answers, Statuses, Hats, Taking
<1>2. PhotoInv => InvalidIsGone BY DEF PhotoInv, Answerable, InvalidIsGone
<1>3. ProviderInv => Provider!TypeOK
  BY DEF ProviderInv, ProviderType, Drivers, Lifecycle, Provider!TypeOK, Provider!At
<1>4. ProviderInv => /\ Provider!FocusIsTrue /\ Provider!NoJobBehindFrame
                     /\ Provider!FrameAsAsked
  BY DEF ProviderInv, Tracked, Claim, Provider!FocusIsTrue, Provider!NoJobBehindFrame,
     Provider!FrameAsAsked, Provider!At
<1>5. PhotoInv /\ ProviderInv => FramesAreTrue
  BY <1>1, <1>2, <1>3, <1>4 DEF FramesAreTrue, TypesOK
<1>6. QED BY <1>5, CamerasInductive, PTL
=============================================================================
