--------------------------- MODULE GatewaySession ---------------------------
(***************************************************************************)
(* The laptop's web backend between its callers and the gateways of the    *)
(* real and the simulated arm: arm_backends.py and RobotGatewayClient.     *)
(*                                                                         *)
(* A call carries its backend.  Previewing or executing first asks         *)
(* /healthz which process it talks to; a reviewed route is bound to that   *)
(* process and executed only while the binding stands.  The upstream       *)
(* process may restart between any two steps, its answer may be lost, and  *)
(* calls run on several threads.  A sequence, and nothing else, is asked   *)
(* again once when the connection drops, to recover the receipt the        *)
(* gateway kept.  What an execution does inside is PlanRun's; here it is   *)
(* one move.                                                               *)
(***************************************************************************)
EXTENDS Integers

CONSTANTS
  Backends,     \* of {"real", "sim"}
  Ids,          \* routes previewed; ids are random, so never the same twice
  Sequences,    \* those that are sequences, the others are plans
  Threads,      \* calls under way at once
  Verbs,        \* bound: the calls made
  Lives,        \* bound: processes of each backend
  Boots         \* bound: boots of the controller

ASSUME SessionAssumption ==
  /\ Verbs \subseteq {"read", "preview", "execute", "capture"}
  /\ Backends \subseteq {"real", "sim"}
  /\ Sequences \subseteq Ids /\ Lives \in Nat \ {0} /\ Boots \in Nat \ {0}

VARIABLES
  life, boot,   \* the process of each backend, the boot of the controller
  native,       \* the backends that name their process: not the older Pi gateway
  plans,        \* the routes the gateways stored: state, backend, process
  receipts,     \* _sequence_results: the sequence, the mode it ran in
  jobs,         \* what the gateways do for each attempt of each thread
  bindings,     \* _bindings
  call,         \* the call each thread is in
  forgotten,    \* history: the sequences whose receipt was pushed out
  shown, moves, told   \* history: reviews shown, moves made, reports made

vars == <<life, boot, native, plans, receipts, forgotten, jobs, bindings, call, shown, moves, told>>
cache == <<receipts, forgotten>>
upstream == <<life, boot, native, plans, cache, moves>>
laptop == <<bindings, shown, told>>

NoJob == [st |-> "none", verb |-> "none", id |-> "none", b |-> "none", life |-> 0]
NoCall == [pc |-> "idle", verb |-> "none", id |-> "none", b |-> "none", name |-> 0, try |-> 1,
           served |-> 0]
Pi == {"new", "ready", "gone"}

(* The modes of an execution: a sequence may end in a photograph (that of a *)
(* plan is Observation's).                                                  *)
Modes == {"execute", "capture"}

Init ==
  /\ life = [b \in Backends |-> 1] /\ boot = 1
  /\ native \in SUBSET Backends /\ Backends \ {"real"} \subseteq native
  /\ plans = [i \in Ids |-> [st |-> "new", b |-> "none", life |-> 0]]
  /\ receipts = {} /\ forgotten = {}
  /\ jobs = [t \in Threads |-> [k \in 1..2 |-> NoJob]]
  /\ bindings = {}
  /\ call = [t \in Threads |-> NoCall]
  /\ shown = {} /\ moves = [i \in Ids |-> 0] /\ told = {}

At(t, pc) == call[t].pc = pc
Fails(t) == call' = [call EXCEPT ![t] = NoCall]
Job(t) == jobs[t][call[t].try]
Live == {"queued", "running"}

(* Identity of the process: its own name, or the controller's boot.         *)
Identity(b) == IF b \in native THEN life[b] ELSE boot

(* Only the Pi names itself in every answer, by a header.                   *)
AnswersNamed(b) == b = "real" /\ b \in native

-----------------------------------------------------------------------------
(* bind_arm_backend and the route: the backend belongs to the request.      *)
Ask(t) ==
  /\ call[t].pc \in {"idle", "done"} /\ \A k \in 1..2 : jobs[t][k].st = "none"
  /\ \E b \in Backends, v \in Verbs, i \in Ids :
       /\ v = "capture" => i \in Sequences
       /\ call' = [call EXCEPT ![t] = [NoCall EXCEPT
                     !.pc = IF v = "read" THEN "send" ELSE "health",
                     !.verb = v, !.b = b, !.id = IF v \in Modes THEN i ELSE "none"]]
  /\ UNCHANGED <<upstream, jobs, laptop>>

(* backend_identity(refresh=True). *)
Health(t) ==
  /\ At(t, "health")
  /\ \/ /\ call' = [call EXCEPT ![t].name = Identity(call[t].b),
                                ![t].pc = IF call[t].verb = "preview" THEN "send" ELSE "require"]
     \/ Fails(t)
  /\ UNCHANGED <<upstream, jobs, laptop>>

(* require_reviewed_artifact. *)
Require(t) ==
  /\ At(t, "require")
  /\ IF <<call[t].id, call[t].b, call[t].name>> \in bindings
     THEN call' = [call EXCEPT ![t].pc = "send"]
     ELSE Fails(t)
  /\ UNCHANGED <<upstream, jobs, laptop>>

(* The binding's time runs out. *)
Expire ==
  /\ \E x \in bindings : bindings' = bindings \ {x}
  /\ UNCHANGED <<upstream, jobs, call, shown, told>>

(* _request: the attempt reaches the process that runs, or nothing does.    *)
Send(t) ==
  /\ At(t, "send")
  /\ \/ /\ jobs' = [jobs EXCEPT ![t][call[t].try] =
                      [st |-> "queued", verb |-> call[t].verb, id |-> call[t].id, b |-> call[t].b,
                       life |-> life[call[t].b]]]
        /\ call' = [call EXCEPT ![t].pc = "sent"]
     \/ Fails(t) /\ UNCHANGED jobs
  /\ UNCHANGED <<upstream, laptop>>

(* The connection ends before the answer is read; the gateway goes on.  A   *)
(* dropped sequence is asked again once, any other loss is the caller's.    *)
Broken(t) ==
  /\ At(t, "sent")
  /\ \/ Fails(t)
     \/ /\ call[t].verb \in Modes /\ call[t].id \in Sequences /\ call[t].try = 1
        /\ call' = [call EXCEPT ![t].pc = "send", ![t].try = 2]
  /\ jobs' = [jobs EXCEPT ![t][call[t].try] = IF @.st \in Live THEN @ ELSE NoJob]
  /\ UNCHANGED <<upstream, laptop>>

-----------------------------------------------------------------------------
(* The gateway: one operation at a time, each to its end even when nobody   *)
(* listens any more.                                                        *)

Listens(t, k) == At(t, "sent") /\ call[t].try = k
Busy(b) == \E t \in Threads, k \in 1..2 : jobs[t][k].b = b /\ jobs[t][k].st = "running"

Answers(t, k, st, i) ==
  jobs' = [jobs EXCEPT ![t][k] = IF Listens(t, k) THEN [@ EXCEPT !.st = st, !.id = i] ELSE NoJob]

ServeRead(t, k) ==
  /\ jobs[t][k].st = "queued" /\ jobs[t][k].verb = "read" /\ Answers(t, k, "ok", "none")
  /\ UNCHANGED <<upstream, laptop, call>>

ServePreview(t, k) ==
  /\ jobs[t][k].st = "queued" /\ jobs[t][k].verb = "preview" /\ ~Busy(jobs[t][k].b)
  /\ \/ /\ \E i \in Ids :
             /\ plans[i].st = "new" /\ Answers(t, k, "ok", i)
             /\ plans' = [plans EXCEPT ![i] = [st |-> "ready", b |-> jobs[t][k].b,
                                               life |-> life[jobs[t][k].b]]]
     \/ Answers(t, k, "refused", "none") /\ UNCHANGED plans
  /\ UNCHANGED <<life, boot, native, cache, moves, laptop, call>>

Starts(t, k) ==
  LET i == jobs[t][k].id IN
  /\ moves' = [moves EXCEPT ![i] = @ + 1] /\ jobs' = [jobs EXCEPT ![t][k].st = "running"]

Held(i, b) == plans[i].st = "ready" /\ plans[i].b = b
KeptIn(i, b, mode) == <<i, mode>> \in receipts /\ plans[i].b = b
Kept(i, b) == \E mode \in Modes : KeptIn(i, b, mode)

(* What a repeated sequence is answered: its receipt, or that it ran in     *)
(* another mode.                                                            *)
Replays(t, k) ==
  LET i == jobs[t][k].id  b == jobs[t][k].b  mode == jobs[t][k].verb IN
  /\ Kept(i, b) /\ Answers(t, k, IF KeptIn(i, b, mode) THEN "ok" ELSE "spent", i)
  /\ UNCHANGED <<plans, moves>>

(* Mutant of ServeExecute: the plan stays until the route has run. *)
ServeExecuteKeeps(t, k) ==
  LET i == jobs[t][k].id  b == jobs[t][k].b IN
  /\ jobs[t][k].st = "queued" /\ jobs[t][k].verb \in Modes /\ ~Busy(b)
  /\ \/ Replays(t, k)
     \/ ~Kept(i, b) /\ Held(i, b) /\ moves[i] < 2 /\ Starts(t, k) /\ UNCHANGED plans
     \/ ~Kept(i, b) /\ Answers(t, k, "refused", i) /\ UNCHANGED <<plans, moves>>
  /\ UNCHANGED <<life, boot, native, cache, laptop, call>>

(* _execute_sequence and execute_plan: a kept receipt, else the plan is     *)
(* taken, and run or refused; a photograph may be refused before.           *)
ServeExecute(t, k) ==
  LET i == jobs[t][k].id  b == jobs[t][k].b IN
  /\ jobs[t][k].st = "queued" /\ jobs[t][k].verb \in Modes /\ ~Busy(b)
  /\ \/ Replays(t, k)
     \/ /\ ~Kept(i, b) /\ Held(i, b) /\ plans' = [plans EXCEPT ![i].st = "gone"]
        /\ \/ Starts(t, k)
           \/ Answers(t, k, "refused", i) /\ UNCHANGED moves
     \/ /\ ~Kept(i, b) /\ (Held(i, b) => jobs[t][k].verb = "capture")
        /\ Answers(t, k, "refused", i) /\ UNCHANGED <<plans, moves>>
  /\ UNCHANGED <<life, boot, native, cache, laptop, call>>

Finish(t, k) ==
  LET i == jobs[t][k].id IN
  /\ jobs[t][k].st = "running" /\ Answers(t, k, "ok", i)
  /\ receipts' = receipts \cup (IF i \in Sequences THEN {<<i, jobs[t][k].verb>>} ELSE {})
  /\ UNCHANGED <<life, boot, native, plans, moves, forgotten, laptop, call>>

(* Other sequences, SEQUENCE_RESULT_CACHE_LIMIT of them, have run since.    *)
Evict ==
  /\ \E x \in receipts :
       /\ ~Busy(plans[x[1]].b) /\ receipts' = receipts \ {x}
       /\ forgotten' = forgotten \cup {x[1]}
  /\ UNCHANGED <<life, boot, native, plans, moves, jobs, laptop, call>>

(* A gateway process ends and another takes its place: plans, receipts and  *)
(* work are lost; an answer on its way may still arrive.                    *)
Restart(b) ==
  /\ life[b] < Lives /\ life' = [life EXCEPT ![b] = @ + 1]
  /\ plans' = [i \in Ids |-> IF Held(i, b) THEN [plans[i] EXCEPT !.st = "gone"] ELSE plans[i]]
  /\ receipts' = {x \in receipts : plans[x[1]].b # b}
  /\ forgotten' = {i \in forgotten : plans[i].b # b}
  /\ jobs' = [t \in Threads |-> [k \in 1..2 |->
                IF jobs[t][k].b = b /\ jobs[t][k].st \in Live THEN NoJob ELSE jobs[t][k]]]
  /\ UNCHANGED <<boot, native, moves, laptop, call>>

Reboot ==
  /\ boot < Boots /\ boot' = boot + 1
  /\ UNCHANGED <<life, native, plans, cache, moves, jobs, laptop, call>>

-----------------------------------------------------------------------------
(* The answer read on the laptop. *)

Takes(t) == jobs' = [jobs EXCEPT ![t][call[t].try] = NoJob]

(* _require_operation_response_instance. *)
Changed(t) == AnswersNamed(call[t].b) /\ Job(t).life # call[t].name

Labelled(t, pc, name) ==
  call' = [call EXCEPT ![t] = [NoCall EXCEPT !.pc = pc, !.b = call[t].b, !.name = name,
                                             !.served = Job(t).life]]
Succeeds(t) == Labelled(t, "done", call[t].name)

Refusal(t) ==
  /\ At(t, "sent") /\ Job(t).st \in {"refused", "spent"} /\ Takes(t) /\ Fails(t)
  /\ UNCHANGED <<upstream, laptop>>

(* Mutant of Previewed: the process asked before the call is believed. *)
PreviewedUnchecked(t) ==
  /\ At(t, "sent") /\ Job(t).st = "ok" /\ call[t].verb = "preview" /\ Takes(t)
  /\ Succeeds(t) /\ shown' = shown \cup {Job(t).id}
  /\ bindings' = bindings \cup {<<Job(t).id, call[t].b, call[t].name>>}
  /\ UNCHANGED <<upstream, told>>

(* arm_plan_preview, arm_sequence_preview, bind_reviewed_artifact. *)
Previewed(t) ==
  /\ At(t, "sent") /\ Job(t).st = "ok" /\ call[t].verb = "preview" /\ Takes(t)
  /\ \/ Changed(t) /\ Fails(t) /\ UNCHANGED <<bindings, shown>>
     \/ /\ ~Changed(t) /\ Succeeds(t) /\ shown' = shown \cup {Job(t).id}
        /\ bindings' = bindings \cup {<<Job(t).id, call[t].b, call[t].name>>}
  /\ UNCHANGED <<upstream, told>>

(* arm_plan_execute, _execute_sequence, consume_reviewed_artifact. *)
Executed(t) ==
  /\ At(t, "sent") /\ Job(t).st = "ok" /\ call[t].verb \in Modes /\ Takes(t)
  /\ \/ Changed(t) /\ Fails(t) /\ UNCHANGED <<bindings, told>>
     \/ /\ ~Changed(t) /\ Succeeds(t) /\ told' = told \cup {Job(t).id}
        /\ bindings' = bindings \ {<<Job(t).id, call[t].b, call[t].name>>}
  /\ UNCHANGED <<upstream, shown>>

(* Every other call: __getattr__ names the answer from itself, or asks the  *)
(* simulator again, or takes the cache the calls of all threads share:      *)
(* whatever identity one of them saw last.                                  *)
Read(t) ==
  /\ At(t, "sent") /\ Job(t).st = "ok" /\ call[t].verb = "read" /\ Takes(t)
  /\ CASE AnswersNamed(call[t].b) -> Labelled(t, "done", Job(t).life)
       [] call[t].b = "sim" -> Labelled(t, "identify", 0)
       [] OTHER -> \E n \in 0..boot : Labelled(t, "done", n)
  /\ UNCHANGED <<upstream, laptop>>

Identify(t) ==
  /\ At(t, "identify")
  /\ \/ /\ call' = [call EXCEPT ![t].pc = "done", ![t].name = Identity(call[t].b)]
     \/ Fails(t)
  /\ UNCHANGED <<upstream, jobs, laptop>>

-----------------------------------------------------------------------------
Thread(t) ==
  \/ Ask(t) \/ Health(t) \/ Require(t) \/ Send(t) \/ Broken(t)
  \/ Refusal(t) \/ Previewed(t) \/ Executed(t) \/ Read(t) \/ Identify(t)

Gateway(t, k) == ServeRead(t, k) \/ ServePreview(t, k) \/ ServeExecute(t, k) \/ Finish(t, k)

Next ==
  \/ \E t \in Threads : Thread(t) \/ \E k \in 1..2 : Gateway(t, k)
  \/ \E b \in Backends : Restart(b)
  \/ Expire \/ Reboot \/ Evict

Spec == Init /\ [][Next]_vars

-----------------------------------------------------------------------------
TypeOK ==
  /\ life \in [Backends -> 1..Lives] /\ boot \in 1..Boots /\ native \subseteq Backends
  /\ receipts \subseteq Sequences \X Modes /\ forgotten \subseteq Sequences
  /\ plans \in [Ids -> [st : Pi, b : Backends \cup {"none"}, life : 0..Lives]]
  /\ jobs \in [Threads -> [1..2 -> [st : Live \cup {"none", "ok", "refused", "spent"},
       verb : {"none", "read", "preview"} \cup Modes, id : Ids \cup {"none"},
       b : Backends \cup {"none"}, life : 0..Lives]]]
  /\ \A x \in bindings : x[1] \in Ids /\ x[2] \in Backends /\ x[3] \in Nat
  /\ \A t \in Threads : call[t].id \in Ids \cup {"none"} /\ call[t].try \in 1..2
  /\ shown \subseteq Ids /\ told \subseteq Ids /\ moves \in [Ids -> 0..2]

(* What the laptop promises of reviewed motion is kept: at most one move,   *)
(* after its review, reported only when made; across lost answers, second   *)
(* attempts, restarts, reboots and calls that overlap (arm_backends.py and  *)
(* the one-use plans of simple_arm_api.py).                                 *)
Promise == INSTANCE ReviewedRoute WITH shown <- shown, moves <- moves, told <- told
KeepsPromise == Promise!Spec

(* A binding names the process that holds the route, so an execution is     *)
(* refused on the laptop once that process is gone (_bindings against       *)
(* _require_operation_response_instance).                                   *)
BoundIsHeld ==
  \A x \in bindings : AnswersNamed(x[2]) => plans[x[1]].b = x[2] /\ plans[x[1]].life = x[3]

(* A gateway that refuses a sequence it reviewed did not run it, while its  *)
(* receipt would still be kept, and one that says it ran in the other mode  *)
(* did: "one retry after a dropped HTTP response recovers that receipt".    *)
RefusalIsTrue ==
  \A t \in Threads, k \in 1..2 :
    LET j == jobs[t][k]  answer == jobs'[t][k].st IN
    j.st = "queued" /\ j.verb \in Modes /\ j.id \in Sequences \ forgotten
    /\ plans[j.id].b = j.b /\ plans[j.id].life = j.life
      => /\ answer = "refused" => moves[j.id] = 0 /\ UNCHANGED moves
         /\ answer = "spent" => moves[j.id] = 1

(* The process an answer is labelled with is the process that gave it, if   *)
(* every answer says so (_decorate).                                        *)
AnswersNameTheirProcess ==
  \A t \in Threads :
    At(t, "done") /\ AnswersNamed(call[t].b) => call[t].name = call[t].served

(* What the answers about routes say is true of the gateway that gave them: *)
(* a binding holds, a refusal did not move, a label names its process.      *)
Labels == TypeOK /\ BoundIsHeld /\ AnswersNameTheirProcess
RouteAnswersAreTrue == [][Labels' /\ RefusalIsTrue]_vars
=============================================================================
