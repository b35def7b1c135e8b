------------------------------ MODULE SimBridge ------------------------------
(***************************************************************************)
(* The simulator behind the gateway: IsaacArmController and its camera     *)
(* (isaac_bridge.py) share one BridgeClient (arm_sim/bridge/client.py),    *)
(* one request per connection, to the single-threaded bridge server        *)
(* (server.py) and its engine (engine.py, isaac/bridge_server.py).         *)
(*                                                                         *)
(* A client that stopped waiting leaves its request with the server.  The  *)
(* simulator may be restarted; the client pins the process that answered   *)
(* first until it is told to reconnect.                                    *)
(***************************************************************************)
EXTENDS Integers, Sequences

CONSTANTS
  Goals,        \* joint targets; Home is where a reset puts the arm
  Home,
  Processes,    \* bound on simulator processes
  Queued        \* bound on requests waiting at the server

VARIABLES
  process,      \* the simulator process that listens
  engine,       \* its joint positions
  settled,      \* its last move or reset reached its end: no drive pulls
  queue,        \* requests the server has not read; live: the caller waits
  pin,          \* BridgeClient._backend_instance_id, 0 for none
  call,         \* the request under BridgeClient._lock
  op,           \* the operation under IsaacArmController._lock
  started, stopped, lease, last,   \* fields of IsaacArmController
  stopPc,       \* where a STOP is
  clean         \* history: every request since last was set was answered

vars ==
  <<process, engine, settled, queue, pin, call, op, started, stopped, lease, last, stopPc, clean>>
arm == <<engine, settled>>
server == <<process, arm, queue>>
controller == <<started, stopped, lease, last>>

NoCall == [who |-> "none", cmd |-> "none", st |-> "none", from |-> 0, at |-> Home]
NoState == [from |-> 0, at |-> Home]

Init ==
  /\ process = 1 /\ engine = Home /\ settled = TRUE /\ queue = <<>> /\ pin = 0 /\ call = NoCall
  /\ op = "none" /\ started = FALSE /\ stopped = FALSE /\ lease = FALSE /\ last = NoState
  /\ stopPc = "idle" /\ clean = TRUE

-----------------------------------------------------------------------------
(* BridgeClient.call.                                                       *)

Sends(who, cmd, goal) ==
  /\ call = NoCall /\ Len(queue) < Queued
  /\ call' = [NoCall EXCEPT !.who = who, !.cmd = cmd, !.st = "waits"]
  /\ queue' = Append(queue, [cmd |-> cmd, goal |-> goal, live |-> TRUE])

(* Physics run, as they do for every frame a capture waits for.  A move     *)
(* that did not settle has left its drive target set, which may take the    *)
(* arm anywhere.                                                            *)
Drifts == engine' \in (IF settled THEN {engine} ELSE Goals) /\ UNCHANGED settled

(* What a command leaves behind: a move that does not settle on its target, *)
(* or a reset that fails half-way, is an engine error.                      *)
Effect(r, st) ==
  \/ r.cmd \in {"health", "state"} /\ UNCHANGED arm
  \/ r.cmd = "capture" /\ Drifts
  \/ r.cmd \in {"move", "reset"} /\ st = "ok"
     /\ engine' = (IF r.cmd = "move" THEN r.goal ELSE Home) /\ settled' = TRUE
  \/ r.cmd \in {"move", "reset"} /\ st = "error"
     /\ engine' \in (IF r.cmd = "move" THEN Goals ELSE {engine, Home}) /\ settled' = FALSE

(* The positions in an answer, where the gateway uses them.                 *)
Positions(cmd, st) == IF st = "ok" /\ cmd \in {"state", "move", "reset"} THEN engine' ELSE Home

(* The server reads the oldest request, its caller waiting or not.  The     *)
(* answer carries the process and the positions, or an engine error.        *)
Serves ==
  /\ queue # <<>> /\ queue' = Tail(queue)
  /\ \E st \in {"ok", "error"} :
       /\ Effect(Head(queue), st)
       /\ call' = IF ~Head(queue).live THEN call
                  ELSE [call EXCEPT !.st = st, !.from = process,
                                    !.at = Positions(Head(queue).cmd, st)]
  /\ UNCHANGED <<process, pin, op, controller, stopPc, clean>>

(* With a window, the server pumps the simulator between two requests.      *)
Idles == Drifts /\ UNCHANGED <<process, queue, pin, call, op, controller, stopPc, clean>>

(* The first process that answers is pinned; another is not believed.       *)
Trusted == call.st \in {"ok", "error"} /\ pin \in {0, call.from}

(* The caller is done: with a trusted answer, or with an exception.         *)
Returns(who) ==
  /\ call.who = who /\ call.st \in {"ok", "error"} /\ call' = NoCall
  /\ pin' = (IF Trusted THEN call.from ELSE pin)
  /\ UNCHANGED server

(* The operation lets go of the controller; the report of a STOP was its    *)
(* last, and is made offline if it failed.                                  *)
Ends ==
  /\ op' = "none"
  /\ stopPc' = IF op = "report" THEN "idle" ELSE stopPc

EndsFor(who) == IF who = "arm" THEN Ends ELSE UNCHANGED <<op, stopPc>>

(* The request is given up; the server still has it.                        *)
TimesOut ==
  /\ call.st = "waits" /\ call' = NoCall
  /\ EndsFor(call.who)
  /\ queue' = [i \in 1..Len(queue) |-> [queue[i] EXCEPT !.live = FALSE]]
  /\ clean' = FALSE
  /\ UNCHANGED <<process, arm, pin, controller>>

(* The simulator is started again: its queue and its arm are gone.          *)
Restarts ==
  /\ process < Processes /\ process' = process + 1 /\ queue' = <<>>
  /\ engine' = Home /\ settled' = TRUE
  /\ call' = IF call.st = "waits" THEN NoCall ELSE call
  /\ EndsFor(IF call.st = "waits" THEN call.who ELSE "none")
  /\ clean' = FALSE
  /\ UNCHANGED <<pin, controller>>

-----------------------------------------------------------------------------
(* IsaacArmController.  An operation takes its lock, then the client's, and *)
(* holds both while it waits.                                               *)

Free == op = "none"
Begins(name) ==
  /\ Free /\ op' = name
  /\ UNCHANGED <<server, pin, call, controller, stopPc, clean>>

Start == Begins("health")
Status == started /\ Begins("status")
Reset == started /\ Begins("reset")

(* _move_set: refused without a lease or after a STOP.                      *)
Move == started /\ ~stopped /\ lease /\ Begins("move")

Command ==
  [health |-> "health", starting |-> "state", status |-> "state", report |-> "state",
   move |-> "move", reset |-> "reset"]

Asks ==
  /\ op \in DOMAIN Command
  /\ \E g \in (IF op = "move" THEN Goals ELSE {Home}) : Sends("arm", Command[op], g)
  /\ UNCHANGED <<process, arm, pin, op, controller, stopPc, clean>>

(* The connection is refused, or not made within its bound.                 *)
Unreached ==
  /\ op \in DOMAIN Command /\ call = NoCall /\ Ends
  /\ UNCHANGED <<server, pin, call, controller, clean>>

(* start: health, then get_state.                                           *)
HealthAnswered ==
  /\ op = "health" /\ Returns("arm") /\ UNCHANGED <<controller, stopPc, clean>>
  /\ op' = IF Trusted /\ call.st = "ok" THEN "starting" ELSE "none"

(* The answer of the operation under way: only one that is trusted counts.  *)
Answered ==
  /\ op \in DOMAIN Command \ {"health"} /\ Returns("arm") /\ Ends
  /\ IF Trusted /\ call.st = "ok"
     THEN /\ last' = [from |-> call.from, at |-> call.at] /\ clean' = TRUE
          /\ started' = (started \/ op = "starting")
          /\ stopped' = (stopped /\ op # "reset") /\ lease' = (lease /\ op # "reset")
     ELSE clean' = (clean /\ Trusted) /\ UNCHANGED controller

(* torque_lease and set_hold_servos; _expire_leases, torque_off.            *)
Hold ==
  /\ Free /\ started /\ ~stopped /\ lease' = TRUE
  /\ UNCHANGED <<server, pin, call, op, started, stopped, last, stopPc, clean>>

LeaseEnds ==
  /\ Free /\ lease /\ lease' = FALSE
  /\ UNCHANGED <<server, pin, call, op, started, stopped, last, stopPc, clean>>

StopCalled ==
  /\ stopPc = "idle" /\ stopPc' = "waits"
  /\ UNCHANGED <<server, pin, call, op, controller, clean>>

(* Mutant of Stop: the latch is set beside an operation under way. *)
StopAtOnce ==
  /\ stopPc = "waits" /\ stopPc' = "latched" /\ stopped' = TRUE /\ lease' = FALSE
  /\ UNCHANGED <<server, pin, call, op, started, last, clean>>

(* stop latches in the gateway only; the bridge has no such command.        *)
Stop ==
  /\ stopPc = "waits" /\ Free /\ stopPc' = "latched" /\ stopped' = TRUE /\ lease' = FALSE
  /\ UNCHANGED <<server, pin, call, op, started, last, clean>>

(* It answers with transport_state, which takes the lock again and asks the *)
(* simulator; without a started client the answer is offline at once.       *)
StopReads ==
  /\ stopPc = "latched" /\ Free
  /\ IF started THEN op' = "report" /\ stopPc' = "reads" ELSE stopPc' = "idle" /\ UNCHANGED op
  /\ UNCHANGED <<server, pin, call, controller, clean>>

(* reconnect forgets the pin; start follows.                                *)
Reconnect == Begins("reconnect")

Forgets ==
  /\ op = "reconnect" /\ call = NoCall /\ op' = "none"
  /\ pin' = 0 /\ started' = FALSE /\ stopped' = FALSE
  /\ UNCHANGED <<server, call, lease, last, stopPc, clean>>

-----------------------------------------------------------------------------
(* IsaacCameraProvider.capture, on the same client.                         *)

Photo ==
  /\ Sends("camera", "capture", Home)
  /\ UNCHANGED <<process, arm, pin, op, controller, stopPc, clean>>

PhotoAnswered == Returns("camera") /\ UNCHANGED <<op, controller, stopPc, clean>>

Next ==
  \/ Serves \/ Idles \/ TimesOut \/ Restarts
  \/ Start \/ Status \/ Reset \/ Move \/ Asks \/ Unreached \/ HealthAnswered \/ Answered
  \/ Hold \/ LeaseEnds \/ StopCalled \/ Stop \/ StopReads \/ Reconnect \/ Forgets
  \/ Photo \/ PhotoAnswered

Spec == Init /\ [][Next]_vars

(* The threads run, who wants a lock gets it in the end, and waiting for an *)
(* answer is bounded; the simulator may hang.  Stop and StopReads are of    *)
(* one thread.                                                              *)
Fairness ==
  /\ WF_vars(TimesOut) /\ SF_vars(Asks \/ Unreached \/ Forgets)
  /\ WF_vars(HealthAnswered \/ Answered \/ PhotoAnswered)
  /\ SF_vars(Stop \/ StopReads)
FairSpec == Spec /\ Fairness

-----------------------------------------------------------------------------
(* The type of the state, and which operation owns the call. *)
TypeOK ==
  /\ process \in 1..Processes /\ engine \in Goals /\ settled \in BOOLEAN /\ Len(queue) <= Queued
  /\ pin \in 0..Processes /\ last.at \in Goals /\ last.from \in 0..Processes
  /\ op \in {"none", "reconnect"} \cup DOMAIN Command
  /\ stopPc = "reads" <=> op = "report"
  /\ call.st \in {"none", "waits", "ok", "error"}
  /\ call.who = "arm" => op # "none"
  /\ call.st = "waits" <=> \E i \in 1..Len(queue) : queue[i].live

(* Between two reconnects the gateway believes one process: the state it    *)
(* shows is of the process it is pinned to.                                 *)
ShownIsPinned == started /\ pin # 0 => last.from = pin

(* While every request is answered and the simulator's last move or reset   *)
(* succeeded, the positions shown are the simulator's: another request never*)
(* slips in between.                                                        *)
ShownIsReal ==
  started /\ clean /\ settled /\ op = "none" /\ last.from = process /\ queue = <<>>
    => last.at = engine

(* The same whatever the simulator answered.  It does not hold: a move that *)
(* is answered with an error pulls on while a photograph is taken.          *)
AnsweredIsShown ==
  started /\ clean /\ op = "none" /\ last.from = process /\ queue = <<>> => last.at = engine

(* A STOP is answered only when no move of the gateway is under way, and    *)
(* none is until the latch is released.                                     *)
NoMoveUnderStop == stopped => op # "move"

(* "No retry or simulator mutation is attempted beneath an ambiguous        *)
(* caller" (server.py): a request nobody waits for moves nothing.           *)
NoGhostMove ==
  [][queue # <<>> /\ queue' = Tail(queue) /\ engine' # engine => Head(queue).live]_<<queue, engine>>

(* The controller retry "never ... clears STOP" (_recover_controller): the  *)
(* latch of the controller ends by RESET only.                              *)
ReconnectKeepsStop == [][stopped /\ ~stopped' => op = "reset"]_vars
=============================================================================
