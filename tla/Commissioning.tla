------------------------------- MODULE Commissioning -------------------------------
(***************************************************************************)
(* The commissioning API of the Pi (robot_gateway/physical_arm_api.py) for *)
(* one multi-turn joint: captures and nudges that enter the evidence       *)
(* ledger, nudge proposals kept by three layers (HTTP router, serial       *)
(* controller, HAT), and the calibration profile that is committed from    *)
(* the evidence.                                                           *)
(*                                                                         *)
(* One guarded operation runs at a time (the admission and operation       *)
(* locks); its steps are the places where the other threads get in: the    *)
(* await of the request body, and the gaps between the commands on the     *)
(* wire.  STOP takes no lane, the service thread reconnects without one.   *)
(* The guarded handlers are coroutines that make blocking calls, so while  *)
(* one runs, the event loop accepts no other request.                      *)
(*                                                                         *)
(* Positions are true positions of the joint, in ticks; the servo reports  *)
(* them modulo Turn, and wrap-counted from the turn in which its frame was *)
(* set.  A servo with a native multi-turn coordinate loses that turn with  *)
(* its power, with or without the HAT's; one the HAT counts for takes a    *)
(* new one with every ODO_ZERO.  The margins of the limits and the         *)
(* tolerance of a nudge's end (8 ticks) are 0 here.                        *)
(***************************************************************************)
EXTENDS Integers, FiniteSets

CONSTANTS Positions,    \* the joint stands in 0..Positions
          Turn,         \* ticks in a turn of the motor
          Boots,        \* boots of the HAT, the bound on its power cycles
          Tokens,       \* bound on the proposals it makes
          Saves,        \* bound on the revisions of the profile
          Drift         \* ticks a nudge may start beside its preview

Operations == {"reconnect", "capture", "zero", "prepare", "execute", "commit", "reset", "census"}

VARIABLES
  faults,   \* of FaultKinds, those that may happen in this behaviour
  pos,      \* true position of the joint
  hat,      \* [boot, native, frame, valid, stopped, prop, made]
  link,     \* [up, boot, prop]: what the serial controller knows
  http,     \* the proposal the router holds, or None
  ledger,   \* the evidence
  op,       \* the guarded operation in progress
  stop,     \* STOP: "none", "asked" (at the socket), "running" (in a worker)
  store,    \* [mem, disk]: the committed profile
  seen      \* what the properties look back at: [since, refused, over, late, torn]

system == <<pos, hat, link, http, ledger, op, stop, store, seen>>
vars == <<faults, system>>

FaultKinds == {"cycle", "blink", "race", "lost", "chmod", "restart", "turn"}

None == [none |-> TRUE]
NoCount == -100                 \* no position counted
Idle == [kind |-> "none", at |-> "none", rec |-> None]

Init ==
  /\ faults \in SUBSET FaultKinds
  /\ pos = 0
  /\ hat \in [boot : {1}, native : BOOLEAN, frame : {0}, valid : {FALSE},
              stopped : {FALSE}, prop : {None}, made : {0}]
  /\ link = [up |-> TRUE, boot |-> 1, prop |-> None]
  /\ http = None
  /\ ledger = {}
  /\ op = Idle
  /\ stop = "none"
  /\ store = [mem |-> None, disk |-> None]
  /\ seen = [since |-> 0, refused |-> {}, over |-> 0, late |-> FALSE, torn |-> FALSE]

-----------------------------------------------------------------------------
(* The world: hands, power and cable. *)

\* With its torque off the joint is turned by hand, and the HAT's samples follow.
HandTurn ==
  /\ "turn" \in faults \/ op.kind = "none"
  /\ \E p \in {pos - 1, pos + 1} \cap 0 .. Positions : pos' = p
  /\ UNCHANGED <<hat, link, http, ledger, op, stop, store, seen>>

Runs(kind, at) == op.kind = kind /\ op.at = at

\* For the properties: a count of this boot that was taken, and the frame it was
\* taken in has changed although the boot has not.
Counts == {e \in ledger : e.boot = hat.boot /\ e.multi # NoCount}
Torn(frame) ==
  seen.torn \/ (frame # hat.frame /\ (Counts # {} \/ Runs("capture", "label")))

\* HAT and servos lose their power: a new boot, no valid count, no STOP latch
\* and no proposal; a native coordinate starts again within one turn.
PowerCycle ==
  /\ "cycle" \in faults /\ hat.boot < Boots
  /\ op.kind = "none" \/ "race" \in faults
  /\ seen' = [seen EXCEPT !.over = hat.made, !.torn = Runs("capture", "label")]
  /\ hat' = [hat EXCEPT !.boot = @ + 1, !.frame = pos \div Turn, !.valid = FALSE,
                        !.stopped = FALSE, !.prop = None]
  /\ link' = [link EXCEPT !.up = FALSE]
  /\ UNCHANGED <<pos, http, ledger, op, stop, store>>

\* A servo with its own coordinate loses its power, the HAT keeps its own: the
\* coordinate starts again in this turn.  The HAT withdraws the count when two
\* samples are whole turns apart, and does not when the joint moved between them.
ServoPowerLoss ==
  /\ "blink" \in faults /\ hat.native
  /\ LET frame == pos \div Turn
     IN  /\ \E valid \in {hat.valid, hat.valid /\ frame = hat.frame} :
              hat' = [hat EXCEPT !.frame = frame, !.valid = valid]
         /\ seen' = [seen EXCEPT !.torn = Torn(frame)]
  /\ UNCHANGED <<pos, link, http, ledger, op, stop, store>>

\* The service thread reopens a lost link.  It takes none of the lanes.
ServiceReconnects ==
  /\ ~link.up
  /\ link' = [link EXCEPT !.up = TRUE, !.boot = hat.boot]
  /\ UNCHANGED <<pos, hat, http, ledger, op, stop, store, seen>>

-----------------------------------------------------------------------------
(* Requests *)

GoOn(at) == op' = [op EXCEPT !.at = at]
Over == op' = Idle

\* The event loop is free when no guarded coroutine is past its request body;
\* the reconnect handler runs in a worker thread.
LoopFree == op.at \in {"none", "body"} \/ op.kind = "reconnect"

\* One more command of this operation on the wire while a STOP waits.
Sent == IF stop = "asked" THEN seen.since + 1 ELSE seen.since
Counted == seen' = [seen EXCEPT !.since = Sent]

\* A command is answered when the link is up and STATUS before and after it
\* shows the boot of HELLO; otherwise the link is given up and the operation
\* ends with an error.
Answered == link.up /\ link.boot = hat.boot
\* The serial controller knows the proposal with this token.
Known(token) == link.prop = [id |-> token]
Unanswered ==
  /\ op.at \in {"ask", "scan", "fresh", "after"}
  /\ op.kind = "execute" => Known(op.rec.id)
  /\ ~Answered \/ "lost" \in faults
  /\ link' = [link EXCEPT !.up = FALSE, !.prop = IF op.kind = "zero" THEN @ ELSE None]
  /\ Over /\ Counted
  /\ UNCHANGED <<pos, hat, http, ledger, stop, store>>
\* Or it was done, and the answer is lost.
Heard == IF "lost" \in faults THEN BOOLEAN ELSE {TRUE}

\* The admission gate, the operation lock and the commissioning lane, which
\* refuses while the HAT is known to be stopped, except for a reset.
Arrives ==
  /\ op = Idle /\ LoopFree
  /\ \E kind \in Operations :
       /\ kind = "reset" \/ ~hat.stopped
       /\ kind = "prepare" => hat.made < Tokens
       /\ op' = [Idle EXCEPT !.kind = kind, !.at = "body"]
  /\ UNCHANGED <<pos, hat, link, http, ledger, stop, store, seen>>

\* The body has come: _require_online, and the operations that change what a
\* proposal was reviewed against drop the proposals of the router.
Begins ==
  /\ op.at = "body"
  /\ IF link.up \/ op.kind = "reconnect"
       THEN /\ GoOn(
                 CASE op.kind \in {"prepare", "commit"} -> "check"
                      [] op.kind = "execute" -> "take"
                      [] OTHER -> "ask")
            /\ IF op.kind \in {"zero", "prepare", "execute"}
                 THEN UNCHANGED http /\ seen' = [seen EXCEPT !.since = 0]
                 ELSE http' = None /\ seen' = [seen EXCEPT !.since = 0, !.over = hat.made]
       ELSE Over /\ seen' = [seen EXCEPT !.since = 0] /\ UNCHANGED http
  /\ UNCHANGED <<pos, hat, link, ledger, stop, store>>

Reconnect ==
  /\ Runs("reconnect", "ask")
  /\ link' = [link EXCEPT !.up = TRUE, !.boot = hat.boot]
  /\ Over
  /\ UNCHANGED <<pos, hat, http, ledger, stop, store, seen>>

\* Scan, assign-id, set-position-mode, torque-off, torque-lease, hold-set: every
\* layer forgets its proposal.
Census ==
  /\ Runs("census", "ask") /\ Answered
  /\ link' = [link EXCEPT !.prop = None]
  /\ hat' = [hat EXCEPT !.prop = None]
  /\ Over /\ Counted
  /\ UNCHANGED <<pos, http, ledger, stop, store>>

Reset ==
  /\ Runs("reset", "ask") /\ Answered
  /\ link' = [link EXCEPT !.prop = None]
  /\ hat' = [hat EXCEPT !.prop = None, !.stopped = FALSE]
  /\ Over /\ Counted
  /\ UNCHANGED <<pos, http, ledger, stop, store>>

-----------------------------------------------------------------------------
(* Evidence *)

\* The position a servo reports in its frame; only a tracked and valid count
\* goes into the evidence.
Multi == IF hat.valid THEN pos - Turn * hat.frame ELSE NoCount
Reading == [kind |-> "cap", raw |-> pos % Turn, multi |-> Multi, at |-> pos]

RecordedUnderOneBoot(boot, r) ==
  {[e EXCEPT !.boot = boot] : e \in ledger}
    \cup {[boot |-> boot, kind |-> r.kind, raw |-> r.raw, multi |-> r.multi, at |-> r.at]}

\* Evidence of another boot goes when the first of a new one comes.
Recorded(boot, r) ==
  {e \in ledger : \A f \in ledger : f.boot = boot}
    \cup {[boot |-> boot, kind |-> r.kind, raw |-> r.raw, multi |-> r.multi, at |-> r.at]}

Capture ==
  /\ Runs("capture", "ask") /\ Answered
  /\ link' = [link EXCEPT !.prop = None]
  /\ hat' = [hat EXCEPT !.prop = None]
  /\ op' = [op EXCEPT !.at = "label", !.rec = Reading]
  /\ Counted
  /\ UNCHANGED <<pos, http, ledger, stop, store>>

\* The evidence is filed under the boot the transport shows by then.
CaptureLabelled ==
  /\ Runs("capture", "label")
  /\ ledger' = IF link.up THEN Recorded(link.boot, op.rec) ELSE ledger
  /\ Over
  /\ UNCHANGED <<pos, hat, link, http, stop, store, seen>>

\* ODO_ZERO arms the count.  A native coordinate stays as it is, a count of
\* the HAT starts again in this turn.
OdometerZero ==
  /\ Runs("zero", "ask") /\ Answered
  /\ LET frame == IF hat.native THEN hat.frame ELSE pos \div Turn
     IN  /\ hat' = [hat EXCEPT !.valid = TRUE, !.frame = frame]
         /\ seen' = [seen EXCEPT !.since = Sent, !.torn = Torn(frame)]
  /\ Over
  /\ UNCHANGED <<pos, link, http, ledger, stop, store>>

-----------------------------------------------------------------------------
(* Nudges *)

Captures(boot) == {e \in ledger : e.kind = "cap" /\ e.boot = boot}

\* verified_capture_position: the zero the nudge starts from was captured.
PrepareChecks ==
  /\ Runs("prepare", "check")
  /\ \/ \E e \in Captures(link.boot) : op' = [op EXCEPT !.at = "ask", !.rec = e]
     \/ Captures(link.boot) = {} /\ Over
  /\ UNCHANGED <<pos, hat, link, http, ledger, stop, store, seen>>

\* PREPARE_NUDGE: refused when stopped or when the target leaves the turn.  The
\* HAT keeps where the joint reads; its token is new and ends the earlier ones.
\* Away from the zero, torque-off takes the proposal back.
Prepare ==
  /\ Runs("prepare", "ask") /\ Answered
  /\ seen' = [seen EXCEPT !.since = Sent, !.over = hat.made]
  /\ \E heard \in Heard :
     LET refused == hat.stopped \/ (pos % Turn) + 1 = Turn
         token == hat.made + 1
         near == pos % Turn = op.rec.raw
     IN /\ hat' = IF hat.stopped THEN hat
                  ELSE IF refused THEN [hat EXCEPT !.prop = None]
                  ELSE [hat EXCEPT !.made = token,
                          !.prop = IF near THEN [id |-> token, from |-> pos % Turn] ELSE None]
        /\ link' = [link EXCEPT !.up = heard,
                                  !.prop = IF refused \/ ~near \/ ~heard THEN None ELSE [id |-> token]]
        /\ IF refused \/ ~near \/ ~heard THEN Over
           ELSE op' = [op EXCEPT !.at = "keep", !.rec = [id |-> token, boot |-> link.boot]]
  /\ UNCHANGED <<pos, http, ledger, stop, store>>

\* The reply is kept as the router's proposal; a STOP in between is not seen.
ProposalKept ==
  /\ Runs("prepare", "keep")
  /\ http' = op.rec
  /\ Over
  /\ UNCHANGED <<pos, hat, link, ledger, stop, store, seen>>

\* A proposal is taken once, and only on the boot it was made in.
ExecuteTakes ==
  /\ Runs("execute", "take")
  /\ http' = None
  /\ \/ http # None /\ link.up /\ http.boot = link.boot
        /\ op' = [op EXCEPT !.at = "ask", !.rec = http]
     \/ Over      \* nothing prepared, expired, another boot
  /\ UNCHANGED <<pos, hat, link, ledger, stop, store, seen>>

\* What a completed nudge leaves.
Nudge == [kind |-> "nudge", raw |-> hat.prop.from, multi |-> NoCount, at |-> pos]

ExecuteRefused ==
  /\ Runs("execute", "ask") /\ ~Known(op.rec.id)
  /\ Over
  /\ UNCHANGED <<pos, hat, link, http, ledger, stop, store, seen>>

\* The HAT takes its own proposal, with that token and while not stopped; it
\* moves when the joint reads about what it read for the preview.
Taken(token) == ~hat.stopped /\ hat.prop # None /\ hat.prop.id = token
InPlace == (pos % Turn) - hat.prop.from \in -Drift .. Drift

\* It ends one tick above the reading of the preview, in the turn it stands in;
\* but a native coordinate above its first turn is driven down to that turn.
Target == Turn * (pos \div Turn) + hat.prop.from + 1
Reachable == Target <= Positions /\ ~(hat.native /\ pos \div Turn > hat.frame)

\* A nudge that runs; for the properties: its token is used, and was it over?
NudgeRuns(heard) ==
  /\ seen' = [seen EXCEPT !.since = Sent, !.over = hat.made,
                          !.late = @ \/ op.rec.id <= seen.over]
  /\ \/ /\ Reachable
        /\ pos' = Target
        /\ ledger' = IF heard THEN Recorded(op.rec.boot, Nudge) ELSE ledger
     \/ /\ \E p \in {pos - 1, pos, pos + 1} \cap 0 .. Positions : pos' = p
        /\ UNCHANGED ledger         \* NUDGE_INCOMPLETE

Execute ==
  /\ Runs("execute", "ask") /\ Known(op.rec.id) /\ Answered
  /\ \E heard \in Heard :
       /\ link' = [link EXCEPT !.prop = None, !.up = heard]
       /\ IF Taken(op.rec.id) /\ InPlace
            THEN NudgeRuns(heard)
            ELSE Counted /\ UNCHANGED <<pos, ledger>>
  /\ hat' = IF Taken(op.rec.id) THEN [hat EXCEPT !.prop = None] ELSE hat
  /\ Over
  /\ UNCHANGED <<http, stop, store>>

-----------------------------------------------------------------------------
(* The profile *)

\* verify_joint: the zero, both ends beyond their limits and a nudge, all of
\* this boot, and the wrap-counted distances as the ledger has them.
Verified(boot, z, n, p, k) ==
  /\ {z, n, p} \subseteq Captures(boot)
  /\ k.kind = "nudge" /\ k.boot = boot
  /\ NoCount \notin {z.multi, n.multi, p.multi}
  /\ n.multi - z.multi <= -1
  /\ p.multi - z.multi >= 1

CommitChecks ==
  /\ Runs("commit", "check")
  /\ \/ /\ Answered /\ Counted
        /\ \E z, n, p, k \in ledger :
             /\ Verified(link.boot, z, n, p, k)
             /\ op' = [op EXCEPT !.at = "scan",
                                 !.rec = [boot |-> link.boot, zero |-> z.at, low |-> n.at,
                                          high |-> p.at, torn |-> seen.torn]]
        /\ UNCHANGED link
     \/ Over /\ link' = [link EXCEPT !.up = Answered] /\ Counted
  /\ UNCHANGED <<pos, hat, http, ledger, stop, store>>

\* The census finds exactly the proposed servos.
CommitScans ==
  /\ Runs("commit", "scan") /\ Answered /\ Counted
  /\ link' = [link EXCEPT !.prop = None]
  /\ hat' = [hat EXCEPT !.prop = None]
  /\ GoOn("fresh")
  /\ UNCHANGED <<pos, http, ledger, stop, store>>

\* A fresh capture of every servo, filed under the boot of the first status.
CommitCaptures ==
  /\ Runs("commit", "fresh") /\ Answered /\ Counted
  /\ ledger' = Recorded(op.rec.boot, Reading)
  /\ GoOn("after")
  /\ UNCHANGED <<pos, hat, link, http, stop, store>>

\* The identity is still the one the commit began with.
CommitConfirms ==
  /\ Runs("commit", "after") /\ Answered /\ Counted
  /\ IF link.boot = op.rec.boot THEN GoOn("save") ELSE Over
  /\ UNCHANGED <<pos, hat, link, http, ledger, stop, store>>

Rev(profile) == IF profile = None THEN 0 ELSE profile.rev
Profile ==
  [rev |-> Rev(store.mem) + 1, zero |-> op.rec.zero, low |-> op.rec.low, high |-> op.rec.high,
   torn |-> op.rec.torn]

\* The file is replaced, then its mode is set, then memory follows.
ProfileSaved ==
  /\ Runs("commit", "save") /\ Rev(store.mem) < Saves
  /\ store' = [store EXCEPT !.disk = Profile]
  /\ \/ GoOn("adopt") /\ UNCHANGED seen
     \/ "chmod" \in faults /\ Over /\ seen' = [seen EXCEPT !.refused = @ \cup {Profile}]
  /\ UNCHANGED <<pos, hat, link, http, ledger, stop>>

ProfileAdopted ==
  /\ Runs("commit", "adopt")
  /\ store' = [store EXCEPT !.mem = Profile]
  /\ Over
  /\ UNCHANGED <<pos, hat, link, http, ledger, stop, seen>>

\* The disk is full, or the revisions are used up.
SaveFails ==
  /\ Runs("commit", "save")
  /\ Over
  /\ UNCHANGED <<pos, hat, link, http, ledger, stop, store, seen>>

-----------------------------------------------------------------------------
(* STOP, and the end of the process *)

StopAsked ==
  /\ stop = "none"
  /\ stop' = "asked"
  /\ seen' = [seen EXCEPT !.since = 0]
  /\ UNCHANGED <<pos, hat, link, http, ledger, op, store>>

\* The handler runs in a worker thread, once the event loop has read the
\* request: the router's proposals go first.
StopAccepted ==
  /\ stop = "asked" /\ LoopFree
  /\ stop' = "running"
  /\ http' = None
  /\ seen' = [seen EXCEPT !.over = hat.made]
  /\ UNCHANGED <<pos, hat, link, ledger, op, store>>

StopDelivered ==
  /\ stop = "running"
  /\ IF Answered THEN hat' = [hat EXCEPT !.stopped = TRUE, !.prop = None] ELSE UNCHANGED hat
  /\ link' = [link EXCEPT !.prop = None, !.up = Answered]
  /\ stop' = "none"
  /\ seen' = [seen EXCEPT !.over = hat.made]
  /\ UNCHANGED <<pos, http, ledger, op, store>>

\* A new process: the ledger and the proposals are gone, the profile is read.
Restart ==
  /\ "restart" \in faults
  /\ link' = [up |-> FALSE, boot |-> hat.boot, prop |-> None]
  /\ http' = None /\ ledger' = {} /\ op' = Idle /\ stop' = "none"
  /\ store' = [store EXCEPT !.mem = store.disk]
  /\ seen' = [seen EXCEPT !.over = hat.made, !.torn = FALSE]
  /\ UNCHANGED <<pos, hat>>

World == HandTurn \/ PowerCycle \/ ServoPowerLoss \/ ServiceReconnects \/ Restart
Requests == Arrives \/ Begins \/ Unanswered \/ Reconnect \/ Census \/ Reset
Evidence == Capture \/ CaptureLabelled \/ OdometerZero
Nudges == PrepareChecks \/ Prepare \/ ProposalKept \/ ExecuteTakes
            \/ ExecuteRefused \/ Execute
Commits == CommitChecks \/ CommitScans \/ CommitCaptures \/ CommitConfirms
             \/ ProfileSaved \/ ProfileAdopted \/ SaveFails
Stops == StopAsked \/ StopAccepted \/ StopDelivered

Next == UNCHANGED faults /\ (World \/ Requests \/ Evidence \/ Nudges \/ Commits \/ Stops)
Spec == Init /\ [][Next]_vars

-----------------------------------------------------------------------------
(* Properties *)

\* The shape of every variable.
TypeOK ==
  /\ faults \in SUBSET FaultKinds
  /\ pos \in 0 .. Positions
  /\ seen.over \in 0 .. hat.made
  /\ hat.boot \in 1 .. Boots /\ hat.frame \in 0 .. Positions /\ hat.made \in 0 .. Tokens
  /\ {hat.native, hat.valid, hat.stopped, link.up, seen.late, seen.torn} \subseteq BOOLEAN
  /\ link.boot \in 1 .. hat.boot
  /\ stop \in {"none", "asked", "running"}
  /\ \A e \in ledger : e.kind \in {"cap", "nudge"} /\ e.at \in 0 .. Positions /\ e.boot \in 1 .. Boots
  /\ \A f \in {store.mem, store.disk} \ {None} : f.rev \in 1 .. Saves

\* A committed profile's limits were reached: the joint really stood beyond each
\* of them, as far from where its zero was captured as the profile says, however
\* many turns, power cycles, reconnects, restarts and nudges lay between the
\* captures.  Excepted is a profile of counts whose frame changed within one
\* boot: by ODO_ZERO, or with the power of the servo alone.
LimitsWereReached ==
  \A f \in {store.mem, store.disk} \ {None} :
     f.torn \/ (f.low - f.zero <= -1 /\ f.high - f.zero >= 1)

\* A proposal runs at most once, and never after something that ends it: a STOP,
\* delivered or not, another operation, a newer proposal, a power cycle or a
\* restart of the gateway.
NudgeIsCurrent == ~seen.late

\* physical_arm_api.py:533: "its endpoint evidence is only meaningful in
\* wrap-counted coordinates", of one count: the limits of every profile were
\* reached, without the exception.
EveryLimitWasReached ==
  \A f \in {store.mem, store.disk} \ {None} : f.low - f.zero <= -1 /\ f.high - f.zero >= 1

\* serial_arm_controller.py:1125: "success is never surfaced beneath stale HELLO
\* identity".  While no frame changed within one boot otherwise, two counts
\* filed under one boot are of one frame.
CountsAreOfBoot ==
  "blink" \notin faults /\ hat.native =>
     \A e, f \in {x \in ledger : x.multi # NoCount} : e.multi - e.at = f.multi - f.at

\* simple_arm_api.py:1536: "STOP deliberately bypasses this context and remains
\* preemptive": while a STOP waits, an operation has at most the command that was
\* on the wire left.
StopPreempts == stop = "asked" => seen.since <= 1

\* physical_arm_api.py:786, "Unable to store the physical profile atomically.":
\* a profile that was refused so is not the one of a later start.
RefusedIsNotKept == op.kind = "none" => store.mem \notin seen.refused
=============================================================================
