------------------------------- MODULE MCLaptop -----------------------------
(***************************************************************************)
(* The laptop's programs for TLC: the web backend's calls to the gateways, *)
(* the assistant's tool server, and the bridge to the simulator.  A        *)
(* behaviour is of one module, with one set of bounds: bench says which.   *)
(* The other modules' variables then stay in their initial state.          *)
(***************************************************************************)
EXTENDS GatewaySession

CONSTANTS
  Tools, ToolLives, Reach, Shots, Routes, History, KeptFrames,   \* of McpTools
  Goals, Home, Processes, Queued                                 \* of SimBridge

VARIABLES
  bench,
  toolLife, at, route, shot, verified, kept, tool, result, toolTold, effects,
  process, engine, settled, queue, pin, simCall, op, started, stopped, lease, last, stopPc, clean

assistant ==
  <<toolLife, at, route, shot, verified, kept, tool, result, toolTold, effects>>
simulator ==
  <<process, engine, settled, queue, pin, simCall, op, started, stopped, lease, last, stopPc, clean>>

(* A Pi gateway that names itself, for calls of both threads about          *)
(* sequences; or both backends, for calls of one thread, where the Pi       *)
(* gateway is the one of before it named itself, which restarts unseen.     *)
(* Of the gateways, the Pi's restarts.                                      *)
Kind == native = IF bench = "both" THEN {"sim"} ELSE Backends
OfBench ==
  /\ life'["sim"] = 1
  /\ bench = "named" =>
       /\ boot' = 1 /\ \A i \in Ids \ Sequences : plans'[i].st = "new"
       /\ \A t \in Threads : call'[t].b # "sim" /\ call'[t].id \in Sequences \cup {"none"}
  /\ bench = "both" =>
       /\ call'[2] = NoCall
       /\ call'[1].verb = "read" => shown = {}

Mcp == INSTANCE McpTools WITH Lives <- ToolLives, life <- toolLife, told <- toolTold

Simulator == INSTANCE SimBridge WITH call <- simCall

ASSUME LaptopAssumption ==
  /\ Tools \subseteq DOMAIN Mcp!Script /\ ToolLives \in Nat \ {0} /\ Reach \in Nat
  /\ Shots \in Nat /\ Routes \in Nat /\ History \in Nat /\ KeptFrames \in Nat
  /\ Home \in Goals /\ Processes \in Nat \ {0} /\ Queued \in Nat

(* The tools that photograph and those that run reviewed routes; or those   *)
(* that change something at once, and one photograph.                       *)
Views == {"plan", "run", "shoot", "apply", "detail"}
Writes == {"state", "shift", "zero", "release", "look"}
OfToolBench ==
  /\ bench = "views" => tool'.name \notin Writes /\ at' # 1
  /\ bench = "writes" => tool'.name \notin Views /\ shot'.n <= 1

MCInit ==
  /\ bench \in {"named", "both", "views", "writes", "simulator"}
  /\ Init /\ Kind /\ Mcp!Init /\ Simulator!Init

MCNext ==
  \/ bench \in {"named", "both"} /\ Next /\ OfBench /\ UNCHANGED <<bench, assistant, simulator>>
  \/ bench \in {"views", "writes"} /\ Mcp!Next /\ OfToolBench /\ UNCHANGED <<bench, vars, simulator>>
  \/ bench = "simulator" /\ Simulator!Next /\ UNCHANGED <<bench, vars, assistant>>

MCSpec == MCInit /\ [][MCNext]_<<bench, vars, assistant, simulator>>

(* No action that is assumed fair is enabled on a bench that leaves its     *)
(* module in its initial state.                                             *)
MCFairSpec == MCSpec /\ Mcp!Fairness /\ Simulator!Fairness

-----------------------------------------------------------------------------
(* One call of a tool has at most one effect, whatever is lost; a route is  *)
(* run once, though called again when told it may; a route reported a       *)
(* success ran to its end, and its photograph was taken there; a photograph *)
(* shown is the one captured or named by the call.                          *)
ToolsTellTheTruth ==
  Mcp!TypeOK /\ Mcp!OneEffectPerCall /\ Mcp!MovesOnce
  /\ Mcp!SuccessIsProved /\ Mcp!ImageIsOfItsCapture

(* The state the gateway shows is of the process it is pinned to and, while *)
(* every request is answered and the simulator's last move or reset         *)
(* succeeded, the simulator's own, photographs or not; no move of the       *)
(* gateway is under way when a STOP latches, nor until the latch is         *)
(* released.                                                                *)
SimulatorIsShownTrue ==
  /\ Simulator!TypeOK
  /\ Simulator!ShownIsPinned /\ Simulator!ShownIsReal /\ Simulator!NoMoveUnderStop

(* Every call of a tool is answered (call_tool, serve), and STOP is,        *)
(* although the simulator hangs in a request, the one STOP itself makes or  *)
(* another's.                                                               *)
CallsAreAnswered ==
  ~Mcp!At("idle") \/ stopPc # "idle" ~> Mcp!At("idle") /\ stopPc = "idle"
=============================================================================
