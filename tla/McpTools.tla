------------------------------- MODULE McpTools -----------------------------
(***************************************************************************)
(* The tool server of the assistant (arm_mcp/server.py): one call at a     *)
(* time, each a fixed script of requests to the gateway.  Before every     *)
(* request the gateway proves its identity; a read without a response is   *)
(* repeated, a write is not; the answer of a write is checked before the   *)
(* call is reported a success; photographs are fetched after their capture *)
(* and kept for later crops.                                               *)
(*                                                                         *)
(* Meanwhile the gateway may restart, and the dashboard moves the arm and  *)
(* takes photographs of its own.  The client calls a tool again when the   *)
(* error says that it may.  A write takes effect in one step; PlanRun and  *)
(* Observation have what happens inside.  An absolute arm_move is left     *)
(* out: doing it twice changes nothing.                                    *)
(***************************************************************************)
EXTENDS Integers, Sequences

CONSTANTS
  Tools,        \* bound: the tools called
  Lives,        \* bound: processes of the gateway
  Reach,        \* bound: positions of the arm, 0..Reach
  Shots,        \* bound: photographs
  Routes,       \* bound: routes previewed
  History,      \* photographs the gateway keeps
  KeptFrames    \* MAX_KEPT_FRAMES

VARIABLES
  life,         \* process of the gateway
  at,           \* where the arm stands
  route,        \* the one-use routes of the gateway, and their receipts
  shot,         \* photographs so far; the gateway's history, its one-use transfers
  verified,     \* _backend_identity, 0 for None
  kept,         \* the directory of kept photographs: id and the process it came from
  tool,         \* the call under way
  result,       \* the answer last written to the client
  told,         \* what earlier results told the client: a route, a photograph
  effects       \* history: moves of the arm made for the client's intention

vars == <<life, at, route, shot, verified, kept, tool, result, told, effects>>
gateway == <<life, at, route, shot>>
client == <<result, told, effects>>

(* The requests of each tool, in order: run and shoot are                  *)
(* arm_apply_sequence without and with a view, apply is arm_apply_plan.     *)
Script ==
  [state  |-> <<"read">>,                    plan    |-> <<"preview">>,
   shift  |-> <<"read", "move">>,            run     |-> <<"run">>,
   shoot  |-> <<"shoot", "transfer">>,       apply   |-> <<"apply">>,
   look   |-> <<"capture", "frame", "read">>, detail |-> <<>>,
   zero   |-> <<"zero">>,                    release |-> <<"release">>]

Reads == {"read", "frame", "transfer"}
Moves == {"move", "run", "shoot", "apply"}

NewRoute == [st |-> "none", mode |-> "none", out |-> "none", frame |-> 0]
NoTool == [pc |-> "idle", name |-> "none", step |-> 1, again |-> FALSE, from |-> 0, route |-> 0,
           frame |-> 0, image |-> 0, out |-> "none", did |-> 0, life |-> 0]
NoResult == [name |-> "none", ok |-> TRUE, retry |-> FALSE, label |-> 0, life |-> 0, want |-> 0,
             image |-> 0, route |-> 0]

Init ==
  /\ life = 1 /\ at = 0 /\ route = [r \in 1..Routes |-> NewRoute]
  /\ shot = [n |-> 0, history |-> {}, transfers |-> {}]
  /\ verified = 0 /\ kept = <<>> /\ tool = NoTool /\ result = NoResult
  /\ told = [route |-> 0, frame |-> 0] /\ effects = 0

At(pc) == tool.pc = pc
Request == Script[tool.name][tool.step]
AtLastRead == tool.name = "look" /\ tool.step = 3

-----------------------------------------------------------------------------
(* A call: a new intention, or the same one again where the error allows    *)
(* it (bound: until the arm moved twice for it).                            *)
Call ==
  /\ At("idle")
  /\ \E n \in Tools :
       /\ tool' = [NoTool EXCEPT !.name = n, !.route = told.route, !.frame = told.frame,
                                 !.pc = IF Script[n] = <<>> THEN "crop" ELSE "verify"]
       /\ \/ effects' = 0
          \/ ~result.ok /\ result.retry /\ result.name = n /\ effects < 2 /\ UNCHANGED effects
  /\ UNCHANGED <<gateway, verified, kept, result, told>>

(* call_tool: the result carries the identity verified last.                *)
Answer(ok, retry) ==
  /\ result' = [name |-> tool.name, ok |-> ok, retry |-> retry, label |-> verified,
                life |-> tool.life, want |-> tool.frame, image |-> tool.image,
                route |-> tool.route]
  /\ tool' = NoTool

(* Mutant of Fails: an error nobody catches ends the server. *)
FailsHard(retry) == tool' = [tool EXCEPT !.pc = "dead"] /\ UNCHANGED <<result, told>>

(* An error result.  The last read of arm_look may fail: its pose is empty. *)
Fails(retry) ==
  IF AtLastRead THEN tool' = [tool EXCEPT !.pc = "finish"] /\ UNCHANGED <<result, told>>
                ELSE Answer(FALSE, retry) /\ UNCHANGED told

(* verify_backend.  The kind of the backend never changes here. *)
Verify ==
  /\ At("verify")
  /\ \/ verified' = life /\ tool' = [tool EXCEPT !.pc = "send"] /\ UNCHANGED <<result, told>>
     \/ Fails(TRUE) /\ UNCHANGED verified
  /\ UNCHANGED <<gateway, kept, effects>>

-----------------------------------------------------------------------------
(* What the gateway does. *)

(* A photograph goes to the history, the oldest leaving, or to a transfer.  *)
Photographs ==
  /\ shot.n < Shots
  /\ shot' = [shot EXCEPT !.n = @ + 1,
                          !.history = {x \in @ \cup {shot.n + 1} : x > shot.n + 1 - History}]
PhotographsFor ==
  /\ shot.n < Shots
  /\ shot' = [shot EXCEPT !.n = @ + 1, !.transfers = @ \cup {shot.n + 1}]

(* A route is taken once, its outcome kept as its receipt. *)
Runs(mode, out, frame) ==
  /\ tool.route # 0 /\ route[tool.route].st = "ready"
  /\ route' = [route EXCEPT ![tool.route] =
                 [st |-> "spent", mode |-> mode, out |-> out, frame |-> frame]]

Preview ==
  \E r \in 1..Routes :
    /\ route[r].st = "none" /\ \A q \in 1..(r - 1) : route[q].st # "none"
    /\ route' = [route EXCEPT ![r].st = "ready"]

(* The effect of each write. *)
Does ==
  /\ \/ Request = "move" /\ at' = (IF tool.from < Reach THEN tool.from + 1 ELSE Reach)
        /\ UNCHANGED <<route, shot>>
     \/ /\ Request = "run" /\ at' \in {at, Reach} /\ UNCHANGED shot
        /\ \E out \in {"completed", "fault"} : Runs("run", out, 0)
     \/ Request = "apply" /\ at' \in {at, Reach} /\ Runs("apply", "accepted", 0) /\ UNCHANGED shot
     \/ /\ Request = "shoot" /\ at' \in {at, Reach}
        /\ \/ Runs("shoot", "captured", shot.n + 1) /\ PhotographsFor
           \/ Runs("shoot", "fault", 0) /\ UNCHANGED shot
     \/ Request = "capture" /\ Photographs /\ UNCHANGED <<at, route>>
     \/ Request \in {"zero", "release"} /\ UNCHANGED <<at, route, shot>>
     \/ Request = "preview" /\ Preview /\ UNCHANGED <<at, shot>>
  /\ effects' = effects + (IF Request \in Moves THEN 1 ELSE 0)

MayBeDone ==
  \/ UNCHANGED <<at, route, shot, effects>>
  \/ Request \notin Reads /\ Does

-----------------------------------------------------------------------------
(* An answer that comes.  The pose arm_look reads last is no evidence.      *)
Replies(t) ==
  LET u == [t EXCEPT !.again = FALSE, !.life = IF AtLastRead THEN @ ELSE life]
  IN tool' = IF tool.step < Len(Script[tool.name])
             THEN [u EXCEPT !.step = @ + 1, !.pc = "verify"] ELSE [u EXCEPT !.pc = "finish"]

Done == [tool EXCEPT !.did = @ + 1]

Written ==
  /\ At("send") /\ Request \notin Reads /\ Does
  /\ CASE Request \in {"run", "shoot"} ->
            Replies([Done EXCEPT !.out = route'[tool.route].out,
                                 !.frame = route'[tool.route].frame])
       [] Request = "capture" -> Replies([Done EXCEPT !.frame = shot'.n])
       [] Request = "preview" ->
            Replies([Done EXCEPT !.route = CHOOSE r \in 1..Routes : route'[r] # route[r]])
       [] Request = "zero" -> \E out \in {"proved", "unproved"} : Replies([Done EXCEPT !.out = out])
       [] OTHER -> Replies(Done)
  /\ UNCHANGED <<life, verified, kept, result, told>>

(* A route that ran in this mode before is answered from its receipt.       *)
Receipt ==
  /\ At("send") /\ Request \in {"run", "shoot"} /\ tool.route # 0
  /\ LET r == route[tool.route] IN
     /\ r.st = "spent" /\ r.mode = Request
     /\ Replies([tool EXCEPT !.frame = r.frame,
          !.out = IF r.out = "captured" /\ r.frame \notin shot.transfers
                  THEN "capture_unavailable" ELSE r.out])
  /\ UNCHANGED <<gateway, verified, kept, client>>

Pose == Request = "read" /\ Replies([tool EXCEPT !.from = at]) /\ UNCHANGED shot
Transfer ==
  /\ Request = "transfer" /\ tool.frame \in shot.transfers
  /\ Replies([tool EXCEPT !.image = tool.frame])
  /\ shot' = [shot EXCEPT !.transfers = @ \ {tool.frame}]

Read ==
  /\ At("send")
  /\ \/ Pose \/ Transfer
     \/ /\ Request = "frame" /\ tool.frame \in shot.history /\ UNCHANGED shot
        /\ Replies([tool EXCEPT !.image = tool.frame])
  /\ UNCHANGED <<life, at, route, verified, kept, client>>

-----------------------------------------------------------------------------
(* An answer that does not: _request_once and _send_once. *)

(* Refused, with nothing done; so is a photograph that is gone. *)
Refused ==
  /\ At("send") /\ Fails(FALSE)
  /\ UNCHANGED <<gateway, verified, kept, effects>>

(* The gateway answers 5xx, or not in time, or the connection breaks, with  *)
(* the write done or not.                                                   *)
Broken ==
  /\ At("send") /\ Fails(TRUE) /\ MayBeDone
  /\ UNCHANGED <<life, verified, kept>>

(* Mutant of Unanswered: every method is sent again. *)
UnansweredAgain ==
  /\ At("send") /\ MayBeDone
  /\ \/ ~tool.again /\ tool' = [Done EXCEPT !.again = TRUE] /\ UNCHANGED <<result, told>>
     \/ tool.again /\ Fails(Request \in Reads)
  /\ UNCHANGED <<life, verified, kept>>

(* The connection closes before a response: a read is sent once more, a     *)
(* write, done or not, is not.  Photographs are streamed without this.      *)
Unanswered ==
  /\ At("send") /\ MayBeDone
  /\ \/ Request = "read" /\ ~tool.again /\ tool' = [tool EXCEPT !.again = TRUE]
        /\ UNCHANGED <<result, told>>
     \/ ~(Request = "read" /\ ~tool.again) /\ Fails(Request \in Reads)
  /\ UNCHANGED <<life, verified, kept>>

-----------------------------------------------------------------------------
(* The end of a call. *)

(* _proved_sequence_waypoints, the outcome, and the state after a Base zero. *)
Proved ==
  CASE tool.name = "run" -> tool.out = "completed"
    [] tool.name = "shoot" -> tool.out = "captured"
    [] tool.name = "zero" -> tool.out = "proved"
    [] OTHER -> TRUE

(* _keep_frame: the oldest beyond the limit go; a write that fails is not   *)
(* an error.                                                                *)
Keep(id) ==
  LET all == Append(kept, [id |-> id, life |-> tool.life])
  IN kept' \in {kept, IF Len(all) > KeptFrames THEN Tail(all) ELSE all}

Finish ==
  /\ At("finish")
  /\ IF Proved
     THEN /\ Answer(TRUE, FALSE)
          /\ IF tool.image # 0
             THEN Keep(tool.image) /\ told' = [route |-> tool.route, frame |-> tool.image]
             ELSE UNCHANGED kept /\ told' = [told EXCEPT !.route = tool.route]
     ELSE Fails(FALSE) /\ UNCHANGED kept
  /\ UNCHANGED <<gateway, verified, effects>>

(* arm_detail: a crop of a kept photograph, without the gateway.            *)
Crop ==
  /\ At("crop")
  /\ \/ \E k \in 1..Len(kept) :
          /\ kept[k].id = tool.frame
          /\ result' = [NoResult EXCEPT !.name = "detail", !.label = verified,
                          !.life = kept[k].life, !.want = tool.frame, !.image = kept[k].id]
          /\ tool' = NoTool /\ UNCHANGED told
     \/ Fails(FALSE)
  /\ UNCHANGED <<gateway, verified, kept, effects>>

-----------------------------------------------------------------------------
(* Beside the tool server. *)
Hand ==
  /\ at' \in 0..Reach /\ at' # at
  /\ UNCHANGED <<life, route, shot, verified, kept, tool, client>>

Dashboard == Photographs /\ UNCHANGED <<life, at, route, verified, kept, tool, client>>

(* A transfer's time runs out. *)
Expires ==
  /\ \E x \in shot.transfers : shot' = [shot EXCEPT !.transfers = @ \ {x}]
  /\ UNCHANGED <<life, at, route, verified, kept, tool, client>>

Restart ==
  /\ life < Lives /\ life' = life + 1
  /\ route' = [r \in 1..Routes |-> IF route[r].st = "none" THEN route[r]
                                   ELSE [route[r] EXCEPT !.st = "gone"]]
  /\ shot' = [shot EXCEPT !.history = {}, !.transfers = {}]
  /\ UNCHANGED <<at, verified, kept, tool, client>>

-----------------------------------------------------------------------------
Server == Verify \/ Written \/ Receipt \/ Read \/ Refused \/ Broken \/ Unanswered \/ Finish \/ Crop

Next == Call \/ Server \/ Hand \/ Dashboard \/ Expires \/ Restart

Spec == Init /\ [][Next]_vars

(* The server works on while a call is open; a request ends, its timeouts   *)
(* being bounded (READ_TIMEOUT_SECONDS).                                    *)
Fairness == WF_vars(Server)
FairSpec == Spec /\ Fairness

-----------------------------------------------------------------------------
TypeOK ==
  /\ life \in 1..Lives /\ verified \in 0..Lives /\ at \in 0..Reach /\ effects \in 0..2
  /\ route \in [1..Routes -> [st : {"none", "ready", "spent", "gone"},
       mode : {"none", "run", "shoot", "apply"}, 
       out : {"none", "accepted", "completed", "captured", "fault"}, frame : 0..Shots]]
  /\ shot.n \in 0..Shots /\ shot.history \subseteq 1..shot.n /\ shot.transfers \subseteq 1..shot.n
  /\ Len(kept) <= KeptFrames /\ \A k \in 1..Len(kept) : kept[k].id \in 1..shot.n
  /\ tool.pc \in {"idle", "verify", "send", "finish", "crop"} /\ told.route \in 0..Routes

(* One call of a tool has at most one effect, whatever is lost: a write is  *)
(* never sent twice (_send_once).                                           *)
OneEffectPerCall == tool.did <= 1

(* The client's intention moves the arm once, though it calls again when    *)
(* told it may (the retryable flag of every error result): a reviewed route *)
(* is spent, and only a relative move can be made twice.                    *)
MovesOnce == effects > 1 => "shift" \in {tool.name, result.name}

(* A route reported a success ran to its end, and its photograph was taken  *)
(* there (_proved_sequence_waypoints, tool_arm_apply_and_look).             *)
SuccessIsProved ==
  result.ok =>
    /\ result.name = "run" => route[result.route].out = "completed"
    /\ result.name = "shoot" => /\ route[result.route].out = "captured"
                                /\ route[result.route].frame = result.image

(* A photograph shown is the one captured or named by the call, whatever    *)
(* others photograph meanwhile (_camera_frame_content, tool_arm_detail).    *)
ImageIsOfItsCapture == result.ok /\ result.image # 0 => result.image = result.want

(* A result is labelled with the process its evidence came from             *)
(* (_structured_success_content).                                           *)
LabelIsOfEvidence == result.ok /\ result.life # 0 => result.label = result.life

(* A relative move goes from where the arm stands (tool_arm_move).          *)
ShiftsFromHere ==
  [][At("send") /\ Request = "move" /\ effects' # effects =>
       at' = IF at < Reach THEN at + 1 ELSE Reach]_vars
=============================================================================
