---------------------------- MODULE LaptopProofs ----------------------------
(***************************************************************************)
(* The laptop's programs, for every value of the constants.                *)
(*                                                                         *)
(* GatewaySession implements ReviewedRoute, and what its answers say is    *)
(* true, for every set of routes, threads and backends and any number of   *)
(* restarts.  A route moves at most once because the gateway takes its     *)
(* plan when it starts (Routed); only after its review because every       *)
(* execution on its way was let through by a binding (Bound, Asked,        *)
(* Working); and a route reported as executed has moved because a call     *)
(* only reads work that was asked for as what it is (Asked), and a kept    *)
(* receipt is of a route that moved (Receipts).  The answers are true by a *)
(* second invariant, Truth, which ties work, bindings and plans to the     *)
(* process they are of.                                                    *)
(*                                                                         *)
(* SimBridge shows the simulator's own state, by SimInv: the only request  *)
(* at the server whose caller still waits is the last one, and belongs to  *)
(* the operation that holds the lock.  McpTools tells the truth, by        *)
(* ToolInv: a script has not written before it comes to its write, and     *)
(* what became of a route that was taken stays so.                         *)
(***************************************************************************)
EXTENDS MCLaptop, SequenceTheorems, TLAPS

USE DEF Modes, cache

JobType ==
  [st : Live \cup {"none", "ok", "refused", "spent"}, verb : {"none", "read", "preview"} \cup Modes,
   id : Ids \cup {"none"}, b : Backends \cup {"none"}, life : 0..Lives]

CallType ==
  [pc : {"idle", "health", "require", "send", "sent", "identify", "done"},
   verb : {"none", "read", "preview"} \cup Modes, id : Ids \cup {"none"},
   b : Backends \cup {"none"}, name : Nat, try : 1..2, served : Nat]

PlanType == [st : Pi, b : Backends \cup {"none"}, life : 0..Lives]

Typed == TypeOK /\ call \in [Threads -> CallType] /\ moves \in [Ids -> 0..1]

(* A call under way has a backend; past Require its route is among the      *)
(* reviews s.                                                               *)
Reviewed(c, s) ==
  /\ c.pc \notin {"idle", "done"} => c.b \in Backends
  /\ c.pc \in {"send", "sent"} /\ c.verb \in Modes => c.id \in s

(* The work a call waits for is what the call asks for.                     *)
Matched(c, j) == c.pc = "sent" /\ j.st # "none" => j.verb = c.verb

Asked == \A t \in Threads : Reviewed(call[t], shown) /\ Matched(call[t], Job(t))

(* What stands behind a piece of work in each of its states, of the reviews *)
(* s and the moves m.                                                       *)
Works(j, s, m) ==
  /\ j.st # "none" => j.b \in Backends
  /\ j.st = "queued" /\ j.verb \in Modes => j.id \in s
  /\ j.st = "running" => j.verb \in Modes /\ j.id \in Ids /\ m[j.id] = 1
  /\ j.st = "ok" /\ j.verb \in Modes => j.id \in Ids /\ m[j.id] = 1
  /\ j.st = "ok" /\ j.verb = "preview" => j.id \in Ids

Working == \A t \in Threads, k \in 1..2 : Works(jobs[t][k], shown, moves)

(* A route whose plan has not been taken has not moved. *)
Routed == \A i \in Ids : plans[i].st # "gone" => moves[i] = 0

Receipts == \A x \in receipts : moves[x[1]] = 1

Bound == \A x \in bindings : x[1] \in shown

IInv == Typed /\ Asked /\ Working /\ Routed /\ Receipts /\ Bound

-----------------------------------------------------------------------------
(* Reviews and moves stay: what stood behind work and calls still does.     *)
Grows ==
  /\ shown \subseteq shown' /\ shown' \subseteq Ids
  /\ moves' \in [Ids -> 0..1] /\ \A i \in Ids : moves[i] = 1 => moves'[i] = 1

LEMMA NoCallType == NoCall \in CallType /\ NoCall.pc = "idle"
BY DEF NoCall, CallType

LEMMA NoJobType == NoJob \in JobType /\ NoJob.st = "none"
<1>1. 0 \in 0..Lives BY SessionAssumption
<1>2. QED BY <1>1 DEF NoJob, JobType

(* What names a process is a number. *)
LEMMA Named ==
  ASSUME IInv
  PROVE  /\ boot \in Nat
         /\ \A b \in Backends : life[b] \in 0..Lives /\ life[b] \in Nat /\ Identity(b) \in Nat
<1>1. life \in [Backends -> 1..Lives] /\ boot \in 1..Boots BY DEF IInv, Typed, TypeOK
<1>2. boot \in Nat /\ \A b \in Backends : life[b] \in 0..Lives /\ life[b] \in Nat
  BY <1>1, SessionAssumption
<1>3. QED BY <1>2 DEF Identity

(* What a step needs of the state before it, of thread t and attempt k.     *)
LEMMA Facts ==
  ASSUME IInv, NEW t \in Threads, NEW k \in 1..2
  PROVE  /\ call[t] \in CallType /\ jobs[t][k] \in JobType
         /\ Reviewed(call[t], shown) /\ Works(jobs[t][k], shown, moves)
         /\ call[t].try \in 1..2 /\ Job(t) = jobs[t][call[t].try]
         /\ Job(t) \in JobType /\ Works(Job(t), shown, moves) /\ Matched(call[t], Job(t))
<1>1. call[t] \in CallType /\ jobs \in [Threads -> [1..2 -> JobType]]
  BY DEF IInv, Typed, TypeOK, JobType
<1>2. call[t].try \in 1..2 BY <1>1 DEF CallType
<1>3. Job(t) = jobs[t][call[t].try] /\ Job(t) \in JobType /\ jobs[t][k] \in JobType
  BY <1>1, <1>2 DEF Job
<1>4. Works(Job(t), shown, moves) /\ Works(jobs[t][k], shown, moves)
  BY <1>2, <1>3 DEF IInv, Working
<1>5. QED BY <1>1, <1>2, <1>3, <1>4 DEF IInv, Asked

(* One thread's call and one piece of its work change.                      *)
LEMMA ThreadKeeps ==
  ASSUME IInv, Grows, NEW t \in Threads, NEW k \in 1..2, NEW c \in CallType, NEW j \in JobType,
         call' = [call EXCEPT ![t] = c], jobs' = [jobs EXCEPT ![t][k] = j],
         Reviewed(c, shown'), Works(j, shown', moves'), Matched(c, jobs'[t][c.try])
  PROVE  /\ call' \in [Threads -> CallType]
         /\ jobs' \in [Threads -> [1..2 -> JobType]]
         /\ Asked' /\ Working'
<1>1. call \in [Threads -> CallType] /\ jobs \in [Threads -> [1..2 -> JobType]]
  BY DEF IInv, Typed, TypeOK, JobType
<1>2. /\ call' \in [Threads -> CallType]
      /\ \A u \in Threads : call'[u] = IF u = t THEN c ELSE call[u]
  BY <1>1
<1>3. /\ jobs' \in [Threads -> [1..2 -> JobType]]
      /\ \A u \in Threads, m \in 1..2 :
           jobs'[u][m] = IF u = t /\ m = k THEN j ELSE jobs[u][m]
  BY <1>1
<1>4. Asked'
  <2> SUFFICES ASSUME NEW u \in Threads
               PROVE  Reviewed(call'[u], shown') /\ Matched(call'[u], jobs'[u][call'[u].try])
    BY DEF Asked, Job
  <2>1. CASE u = t BY <1>2, <2>1
  <2>2. CASE u # t
    <3>1. Reviewed(call[u], shown) /\ Matched(call[u], jobs[u][call[u].try])
      BY DEF IInv, Asked, Job
    <3>2. call[u].try \in 1..2 BY <1>1 DEF CallType
    <3>3. call'[u] = call[u] /\ jobs'[u][call[u].try] = jobs[u][call[u].try]
      BY <1>2, <1>3, <2>2, <3>2
    <3>4. Reviewed(call[u], shown') BY <3>1 DEF Reviewed, Grows
    <3>5. QED BY <3>1, <3>3, <3>4
  <2>3. QED BY <2>1, <2>2
<1>5. Working'
  <2> SUFFICES ASSUME NEW u \in Threads, NEW m \in 1..2
               PROVE  Works(jobs'[u][m], shown', moves')
    BY DEF Working
  <2>1. Works(jobs[u][m], shown, moves) BY DEF IInv, Working
  <2>2. Works(jobs[u][m], shown', moves') BY <2>1 DEF Works, Grows
  <2>3. QED BY <1>3, <2>2
<1>6. QED BY <1>2, <1>3, <1>4, <1>5

LEMMA StillGrows == ASSUME IInv, UNCHANGED <<shown, moves>> PROVE Grows
BY DEF Grows, IInv, Typed, TypeOK

(* The call of one thread changes, and nothing else. *)
LEMMA CallKeeps ==
  ASSUME IInv, NEW t \in Threads, NEW c \in CallType, call' = [call EXCEPT ![t] = c],
         Reviewed(c, shown), Matched(c, jobs[t][c.try]), UNCHANGED <<upstream, jobs, laptop>>
  PROVE  IInv'
<1>1. jobs \in [Threads -> [1..2 -> JobType]] /\ 1 \in 1..2
  BY DEF IInv, Typed, TypeOK, JobType
<1>2. jobs' = [jobs EXCEPT ![t][1] = jobs[t][1]] /\ jobs[t][1] \in JobType
  BY <1>1 DEF upstream, laptop
<1>3. Works(jobs[t][1], shown, moves) BY <1>1 DEF IInv, Working
<1>4. Grows BY StillGrows DEF upstream, laptop
<1>5. call' \in [Threads -> CallType] /\ Asked' /\ Working'
  BY <1>1, <1>2, <1>3, <1>4, ThreadKeeps DEF upstream, laptop
<1>6. \A t1 \in Threads : call'[t1].id \in Ids \cup {"none"} /\ call'[t1].try \in 1..2
  BY <1>5 DEF CallType
<1>7. Typed' BY <1>5, <1>6 DEF IInv, Typed, TypeOK, upstream, laptop
<1>8. QED BY <1>5, <1>7 DEF IInv, Routed, Receipts, Bound, upstream, laptop

(* The same when the connection fails, whatever becomes of the work.        *)
LEMMA FailsKeeps ==
  ASSUME IInv, NEW t \in Threads, Fails(t), UNCHANGED <<upstream, jobs, laptop>>
  PROVE  IInv'
BY CallKeeps, NoCallType DEF Fails, Reviewed, Matched

(* The rest of the invariant when only calls and work change. *)
LEMMA Rest ==
  ASSUME IInv, UNCHANGED <<upstream, laptop>>, call' \in [Threads -> CallType],
         jobs' \in [Threads -> [1..2 -> JobType]], Asked', Working'
  PROVE  IInv'
<1>1. \A t \in Threads : call'[t].id \in Ids \cup {"none"} /\ call'[t].try \in 1..2
  BY DEF CallType
<1>2. Typed' BY <1>1 DEF IInv, Typed, TypeOK, JobType, upstream, laptop
<1>3. QED BY <1>2 DEF IInv, Routed, Receipts, Bound, upstream, laptop

(* The call of one thread and its piece of work change. *)
LEMMA AnswerKeeps ==
  ASSUME IInv, Grows, NEW t \in Threads, NEW c \in CallType, NEW j \in JobType,
         call' = [call EXCEPT ![t] = c], jobs' = [jobs EXCEPT ![t][call[t].try] = j],
         Reviewed(c, shown'), Works(j, shown', moves'),
         c.pc # "sent" \/ (c.try = call[t].try /\ (j.st # "none" => j.verb = c.verb))
  PROVE  /\ call' \in [Threads -> CallType]
         /\ jobs' \in [Threads -> [1..2 -> JobType]]
         /\ Asked' /\ Working'
<1>1. call[t].try \in 1..2 BY Facts
<1>2. jobs \in [Threads -> [1..2 -> JobType]]
  BY DEF IInv, Typed, TypeOK, JobType
<1>3. jobs'[t][call[t].try] = j BY <1>1, <1>2
<1>4. Matched(c, jobs'[t][c.try]) BY <1>3 DEF Matched
<1>5. QED BY <1>1, <1>4, ThreadKeeps

-----------------------------------------------------------------------------
(* The steps of a thread. *)
LEMMA AskKeeps == ASSUME IInv, NEW t \in Threads, Ask(t) PROVE IInv'
<1>1. PICK b \in Backends, v \in Verbs, i \in Ids :
        call' = [call EXCEPT ![t] = [NoCall EXCEPT !.pc = IF v = "read" THEN "send" ELSE "health",
                   !.verb = v, !.b = b, !.id = IF v \in Modes THEN i ELSE "none"]]
  BY DEF Ask
<1> DEFINE c == [NoCall EXCEPT !.pc = IF v = "read" THEN "send" ELSE "health",
                   !.verb = v, !.b = b, !.id = IF v \in Modes THEN i ELSE "none"]
<1>2. v \in {"read", "preview", "execute", "capture"} BY SessionAssumption
<1>3. c \in CallType BY <1>2, NoCallType DEF CallType
<1>4. c.pc \in {"send", "health"} /\ c.b \in Backends /\ (c.pc = "send" => c.verb \notin Modes)
  BY <1>2 DEF NoCall
<1>5. Reviewed(c, shown) /\ Matched(c, jobs[t][c.try]) BY <1>4 DEF Reviewed, Matched
<1>6. QED BY <1>1, <1>3, <1>5, CallKeeps DEF Ask

LEMMA HealthKeeps == ASSUME IInv, NEW t \in Threads, Health(t) PROVE IInv'
<1>1. call[t] \in CallType /\ Reviewed(call[t], shown) BY Facts
<1> DEFINE c == [call[t] EXCEPT !.name = Identity(call[t].b),
                                !.pc = IF call[t].verb = "preview" THEN "send" ELSE "require"]
<1>2. CASE Fails(t) BY <1>2, FailsKeeps DEF Health
<1>3. CASE ~Fails(t)
  <2>1. call' = [call EXCEPT ![t] = c] BY <1>3 DEF Health
  <2>2. call[t].b \in Backends BY <1>1 DEF Reviewed, Health, At
  <2>3. Identity(call[t].b) \in Nat
    BY <2>2, Named
  <2>4. c \in CallType BY <1>1, <2>3 DEF CallType
  <2>5. Reviewed(c, shown) /\ Matched(c, jobs[t][c.try])
    BY <1>1, <2>2 DEF Reviewed, Matched, CallType
  <2>6. QED BY <2>1, <2>4, <2>5, CallKeeps DEF Health
<1>4. QED BY <1>2, <1>3

LEMMA RequireKeeps == ASSUME IInv, NEW t \in Threads, Require(t) PROVE IInv'
<1>1. call[t] \in CallType /\ Reviewed(call[t], shown) BY Facts
<1> DEFINE c == [call[t] EXCEPT !.pc = "send"]
<1>2. CASE <<call[t].id, call[t].b, call[t].name>> \in bindings
  <2>1. call' = [call EXCEPT ![t] = c] BY <1>2 DEF Require
  <2>2. call[t].id \in shown BY <1>2 DEF IInv, Bound
  <2>3. c \in CallType BY <1>1 DEF CallType
  <2>4. Reviewed(c, shown) /\ Matched(c, jobs[t][c.try])
    BY <1>1, <2>2 DEF Reviewed, Matched, CallType, Require, At
  <2>5. QED BY <2>1, <2>3, <2>4, CallKeeps DEF Require
<1>3. CASE <<call[t].id, call[t].b, call[t].name>> \notin bindings
  BY <1>3, FailsKeeps DEF Require
<1>4. QED BY <1>2, <1>3

LEMMA SendKeeps == ASSUME IInv, NEW t \in Threads, Send(t) PROVE IInv'
<1>1. CASE Fails(t) /\ UNCHANGED jobs BY <1>1, FailsKeeps DEF Send
<1>2. CASE ~(Fails(t) /\ UNCHANGED jobs)
  <2> DEFINE c == [call[t] EXCEPT !.pc = "sent"]
             j == [st |-> "queued", verb |-> call[t].verb, id |-> call[t].id, b |-> call[t].b,
                   life |-> life[call[t].b]]
  <2>1. call' = [call EXCEPT ![t] = c] /\ jobs' = [jobs EXCEPT ![t][call[t].try] = j]
    BY <1>2 DEF Send
  <2>2. call[t] \in CallType /\ Reviewed(call[t], shown) /\ call[t].pc = "send"
    BY Facts DEF Send, At
  <2>3. call[t].b \in Backends /\ (call[t].verb \in Modes => call[t].id \in shown)
    BY <2>2 DEF Reviewed
  <2>4. life[call[t].b] \in 0..Lives BY <2>3, Named
  <2>5. c \in CallType /\ j \in JobType BY <2>2, <2>4 DEF CallType, JobType, Live
  <2>6. Reviewed(c, shown) /\ Works(j, shown, moves)
    BY <2>2, <2>3 DEF Reviewed, Works, CallType
  <2>7. c.try = call[t].try /\ j.verb = c.verb BY <2>2 DEF CallType
  <2>8. Grows BY StillGrows DEF Send, upstream, laptop
  <2>9. /\ call' \in [Threads -> CallType] /\ jobs' \in [Threads -> [1..2 -> JobType]]
        /\ Asked' /\ Working'
    BY <2>1, <2>5, <2>6, <2>7, <2>8, AnswerKeeps DEF Send, upstream, laptop
  <2>10. QED BY <2>9, Rest DEF Send, upstream, laptop
<1>3. QED BY <1>1, <1>2

LEMMA AskedAgain ==
  ASSUME NEW c \in CallType
  PROVE  /\ [c EXCEPT !.pc = "send", !.try = 2] \in CallType
         /\ [c EXCEPT !.pc = "send", !.try = 2].pc = "send"
<1>1. [c EXCEPT !.pc = "send"] \in CallType BY DEF CallType
<1>2. \A d \in CallType : [d EXCEPT !.try = 2] \in CallType /\ [d EXCEPT !.try = 2].pc = d.pc
  BY DEF CallType
<1>3. [c EXCEPT !.pc = "send", !.try = 2] = [[c EXCEPT !.pc = "send"] EXCEPT !.try = 2]
  OBVIOUS
<1>4. [c EXCEPT !.pc = "send"].pc = "send" BY DEF CallType
<1>5. QED BY <1>1, <1>2, <1>3, <1>4

LEMMA BrokenKeeps == ASSUME IInv, NEW t \in Threads, Broken(t) PROVE IInv'
<1>1. /\ call[t] \in CallType /\ Reviewed(call[t], shown) /\ call[t].pc = "sent"
      /\ Job(t) = jobs[t][call[t].try] /\ Job(t) \in JobType /\ Works(Job(t), shown, moves)
  BY Facts DEF Broken, At
<1> DEFINE c == IF Fails(t) THEN NoCall ELSE [call[t] EXCEPT !.pc = "send", !.try = 2]
           j == IF Job(t).st \in Live THEN Job(t) ELSE NoJob
<1>2. jobs \in [Threads -> [1..2 -> JobType]] BY DEF IInv, Typed, TypeOK, JobType
<1>3. call' = [call EXCEPT ![t] = c] BY DEF Broken, Fails
<1>4. jobs' = [jobs EXCEPT ![t][call[t].try] = j] BY <1>1, <1>2, Facts DEF Broken
<1>5. c \in CallType /\ c.pc # "sent"
  <2>1. CASE Fails(t) BY <2>1, NoCallType
  <2>2. CASE ~Fails(t)
    <3>1. c = [call[t] EXCEPT !.pc = "send", !.try = 2] BY <2>2
    <3>2. call[t] \in CallType BY <1>1
    <3>3. QED BY <3>1, <3>2, AskedAgain
  <2>3. QED BY <2>1, <2>2
<1>6. j \in JobType BY <1>1, NoJobType
<1>7. Works(j, shown, moves) BY <1>1, NoJobType DEF Works
<1>8. Reviewed(c, shown)
  <2>1. CASE Fails(t) BY <2>1, NoCallType DEF Reviewed
  <2>2. CASE ~Fails(t) BY <1>1, <2>2 DEF Reviewed, CallType
  <2>3. QED BY <2>1, <2>2
<1>9. Grows BY StillGrows DEF Broken, upstream, laptop
<1>10. /\ call' \in [Threads -> CallType] /\ jobs' \in [Threads -> [1..2 -> JobType]]
       /\ Asked' /\ Working'
  BY <1>3, <1>4, <1>5, <1>6, <1>7, <1>8, <1>9, AnswerKeeps DEF Broken, upstream, laptop
<1>11. QED BY <1>10, Rest DEF Broken, upstream, laptop

-----------------------------------------------------------------------------
(* The steps of the gateway: only a piece of work changes, and what stands  *)
(* behind it.                                                               *)
LEMMA WorkKeeps ==
  ASSUME IInv, Grows, NEW t \in Threads, NEW k \in 1..2, NEW j \in JobType,
         jobs' = [jobs EXCEPT ![t][k] = j], UNCHANGED <<call, shown>>,
         Works(j, shown, moves'),
         j.st # "none" => j.verb = jobs[t][k].verb /\ jobs[t][k].st # "none"
  PROVE  jobs' \in [Threads -> [1..2 -> JobType]] /\ Asked' /\ Working'
<1>1. call[t] \in CallType /\ call[t].try \in 1..2 /\ Reviewed(call[t], shown) BY Facts
<1>2. jobs \in [Threads -> [1..2 -> JobType]] /\ call \in [Threads -> CallType]
  BY DEF IInv, Typed, TypeOK, JobType
<1>3. call' = [call EXCEPT ![t] = call[t]] BY <1>2
<1>4. Matched(call[t], jobs[t][call[t].try]) BY Facts
<1>5. Matched(call[t], jobs'[t][call[t].try])
  <2>1. CASE call[t].try = k BY <1>2, <1>4, <2>1 DEF Matched
  <2>2. CASE call[t].try # k
    <3>1. jobs'[t][call[t].try] = jobs[t][call[t].try] BY <1>1, <1>2, <2>2
    <3>2. QED BY <1>4, <3>1
  <2>3. QED BY <2>1, <2>2
<1>6. QED BY <1>1, <1>3, <1>5, ThreadKeeps

(* What an answer leaves of the work that gave it. *)
LEMMA Answered ==
  ASSUME IInv, NEW t \in Threads, NEW k \in 1..2, NEW st \in {"ok", "refused", "spent"},
         NEW i \in Ids \cup {"none"}, jobs[t][k].st # "none", Answers(t, k, st, i),
         st = "ok" /\ jobs[t][k].verb \in Modes => i \in Ids /\ moves'[i] = 1,
         st = "ok" /\ jobs[t][k].verb = "preview" => i \in Ids
  PROVE  \E j \in JobType :
           /\ jobs' = [jobs EXCEPT ![t][k] = j] /\ Works(j, shown, moves')
           /\ j.st # "none" => j.verb = jobs[t][k].verb
<1>1. jobs[t][k] \in JobType /\ jobs[t][k].b \in Backends BY Facts DEF Works
<1>2. jobs \in [Threads -> [1..2 -> JobType]] BY DEF IInv, Typed, TypeOK, JobType
<1>3. CASE Listens(t, k)
  <2> DEFINE j == [jobs[t][k] EXCEPT !.st = st, !.id = i]
  <2>1. jobs' = [jobs EXCEPT ![t][k] = j] BY <1>3 DEF Answers
  <2>2. j \in JobType /\ j.st = st /\ j.id = i /\ j.verb = jobs[t][k].verb
        /\ j.b = jobs[t][k].b
    BY <1>1 DEF JobType
  <2>3. Works(j, shown, moves') BY <1>1, <2>2 DEF Works
  <2>4. QED BY <2>1, <2>2, <2>3
<1>4. CASE ~Listens(t, k)
  <2>1. jobs' = [jobs EXCEPT ![t][k] = NoJob] BY <1>4 DEF Answers
  <2>2. Works(NoJob, shown, moves') BY NoJobType DEF Works
  <2>3. QED BY <2>1, <2>2, NoJobType
<1>5. QED BY <1>3, <1>4

LEMMA ServesRead ==
  ASSUME IInv, NEW t \in Threads, NEW k \in 1..2, ServeRead(t, k) PROVE IInv'
<1>1. jobs[t][k].st = "queued" /\ jobs[t][k].verb = "read" /\ Answers(t, k, "ok", "none")
  BY DEF ServeRead
<1>2. PICK j \in JobType :
        /\ jobs' = [jobs EXCEPT ![t][k] = j] /\ Works(j, shown, moves')
        /\ j.st # "none" => j.verb = jobs[t][k].verb
  BY <1>1, Answered
<1>3. Grows BY StillGrows DEF ServeRead, upstream, laptop
<1>4. jobs' \in [Threads -> [1..2 -> JobType]] /\ Asked' /\ Working'
  BY <1>1, <1>2, <1>3, WorkKeeps DEF ServeRead, laptop
<1>5. call' \in [Threads -> CallType] BY DEF ServeRead, IInv, Typed
<1>6. QED BY <1>4, <1>5, Rest DEF ServeRead

LEMMA ServesPreview ==
  ASSUME IInv, NEW t \in Threads, NEW k \in 1..2, ServePreview(t, k) PROVE IInv'
<1>1. jobs[t][k].st = "queued" /\ jobs[t][k].verb = "preview"
  BY DEF ServePreview
<1>2. Grows BY StillGrows DEF ServePreview, laptop
<1>3. PICK i \in Ids \cup {"none"}, st \in {"ok", "refused"} :
        /\ Answers(t, k, st, i) /\ (st = "ok" => i \in Ids)
        /\ \/ UNCHANGED plans
           \/ i \in Ids /\ plans[i].st = "new"
              /\ plans' = [plans EXCEPT ![i] = [st |-> "ready", b |-> jobs[t][k].b,
                                                life |-> life[jobs[t][k].b]]]
  BY DEF ServePreview
<1>4. PICK j \in JobType :
        /\ jobs' = [jobs EXCEPT ![t][k] = j] /\ Works(j, shown, moves')
        /\ j.st # "none" => j.verb = jobs[t][k].verb
  BY <1>1, <1>3, Answered
<1>5. jobs' \in [Threads -> [1..2 -> JobType]] /\ Asked' /\ Working'
  BY <1>1, <1>2, <1>4, WorkKeeps DEF ServePreview, laptop
<1>6. plans' \in [Ids -> PlanType] /\ Routed'
  <2>1. plans \in [Ids -> PlanType] BY DEF IInv, Typed, TypeOK, PlanType
  <2>2. jobs[t][k].b \in Backends BY <1>1, Facts DEF Works
  <2>3. life[jobs[t][k].b] \in 0..Lives
    BY <2>2, SessionAssumption DEF IInv, Typed, TypeOK
  <2>4. [st |-> "ready", b |-> jobs[t][k].b, life |-> life[jobs[t][k].b]] \in PlanType
    BY <2>2, <2>3 DEF PlanType, Pi
  <2>5. QED BY <1>3, <2>1, <2>4 DEF IInv, Routed, ServePreview
<1>7. call' \in [Threads -> CallType] BY DEF ServePreview, IInv, Typed
<1>8. Typed'
  BY <1>5, <1>6, <1>7 DEF IInv, Typed, TypeOK, JobType, PlanType, ServePreview, laptop
<1>9. QED BY <1>5, <1>6, <1>8 DEF IInv, Receipts, Bound, ServePreview, laptop

(* An execution that starts takes a plan that was ready: its route has not  *)
(* moved yet, and moves now.                                                *)
LEMMA MovesGrow ==
  ASSUME IInv, NEW i \in Ids, moves[i] = 0, moves' = [moves EXCEPT ![i] = @ + 1],
         UNCHANGED shown
  PROVE  Grows /\ moves'[i] = 1 /\ \A m \in Ids : m # i => moves'[m] = moves[m]
BY DEF Grows, IInv, Typed, TypeOK

LEMMA ServesExecute ==
  ASSUME IInv, NEW t \in Threads, NEW k \in 1..2, ServeExecute(t, k) PROVE IInv'
<1>1. jobs[t][k].st = "queued" /\ jobs[t][k].verb \in Modes
  BY DEF ServeExecute
<1> DEFINE r == jobs[t][k].id
           g == jobs[t][k].b
<1>2. jobs[t][k] \in JobType /\ r \in Ids /\ g \in Backends
  BY <1>1, Facts DEF Works, IInv, Typed, TypeOK
<1>3. plans \in [Ids -> PlanType] /\ moves \in [Ids -> 0..1]
  BY DEF IInv, Typed, TypeOK, PlanType
<1>4. call' \in [Threads -> CallType] BY DEF ServeExecute, IInv, Typed
<1>5. CASE UNCHANGED <<plans, moves>> /\ Kept(r, g)
           /\ (Answers(t, k, "ok", r) \/ Answers(t, k, "spent", r))
  <2>1. moves'[r] = 1 BY <1>5 DEF Kept, KeptIn, IInv, Receipts
  <2>2. Grows BY <1>5, StillGrows DEF ServeExecute, laptop
  <2>3. PICK j \in JobType :
          /\ jobs' = [jobs EXCEPT ![t][k] = j] /\ Works(j, shown, moves')
          /\ j.st # "none" => j.verb = jobs[t][k].verb
    BY <1>1, <1>2, <1>5, <2>1, Answered
  <2>4. jobs' \in [Threads -> [1..2 -> JobType]] /\ Asked' /\ Working'
    BY <1>1, <2>2, <2>3, WorkKeeps DEF ServeExecute, laptop
  <2>5. QED BY <1>4, <1>5, <2>4, Rest DEF ServeExecute, upstream
<1>6. CASE UNCHANGED moves /\ Answers(t, k, "refused", r)
           /\ (UNCHANGED plans \/ plans' = [plans EXCEPT ![r].st = "gone"])
  <2>1. Grows BY <1>6, StillGrows DEF ServeExecute, laptop
  <2>2. PICK j \in JobType :
          /\ jobs' = [jobs EXCEPT ![t][k] = j] /\ Works(j, shown, moves')
          /\ j.st # "none" => j.verb = jobs[t][k].verb
    BY <1>1, <1>2, <1>6, Answered
  <2>3. jobs' \in [Threads -> [1..2 -> JobType]] /\ Asked' /\ Working'
    BY <1>1, <2>1, <2>2, WorkKeeps DEF ServeExecute, laptop
  <2>4. plans' \in [Ids -> PlanType] /\ Routed'
    BY <1>2, <1>3, <1>6 DEF IInv, Routed, PlanType, Pi
  <2>5. Typed'
    BY <1>4, <1>6, <2>3, <2>4 DEF IInv, Typed, TypeOK, JobType, PlanType, ServeExecute, laptop
  <2>6. QED BY <1>6, <2>3, <2>4, <2>5 DEF IInv, Receipts, Bound, ServeExecute, laptop
<1>7. CASE Held(r, g) /\ plans' = [plans EXCEPT ![r].st = "gone"] /\ Starts(t, k)
  <2> DEFINE j == [jobs[t][k] EXCEPT !.st = "running"]
  <2>1. moves[r] = 0 BY <1>2, <1>7 DEF Held, IInv, Routed
  <2>2. moves' = [moves EXCEPT ![r] = @ + 1] /\ shown' = shown
    BY <1>7 DEF Starts, ServeExecute, laptop
  <2>3. Grows /\ moves'[r] = 1 /\ \A m \in Ids : m # r => moves'[m] = moves[m]
    BY <1>2, <2>1, <2>2, MovesGrow
  <2>4. jobs' = [jobs EXCEPT ![t][k] = j]
    <3>1. jobs \in [Threads -> [1..2 -> JobType]] BY DEF IInv, Typed, TypeOK, JobType
    <3>2. jobs' = [jobs EXCEPT ![t][k].st = "running"] BY <1>7 DEF Starts
    <3>3. QED BY <3>1, <3>2
  <2>5. /\ j \in JobType /\ j.st = "running" /\ j.verb \in Modes /\ j.id = r /\ j.b = g
        /\ j.verb = jobs[t][k].verb /\ jobs[t][k].st # "none"
    BY <1>1, <1>2 DEF JobType, Live
  <2>6. Works(j, shown, moves') BY <1>2, <2>3, <2>5 DEF Works
  <2>7. jobs' \in [Threads -> [1..2 -> JobType]] /\ Asked' /\ Working'
    BY <1>1, <2>2, <2>3, <2>4, <2>5, <2>6, WorkKeeps DEF ServeExecute
  <2>8. plans' \in [Ids -> PlanType] /\ Routed'
    BY <1>2, <1>3, <1>7, <2>3 DEF IInv, Routed, PlanType, Pi
  <2>9. moves' \in [Ids -> 0..1] /\ moves' \in [Ids -> 0..2] BY <2>3 DEF Grows
  <2>10. Typed'
    BY <1>4, <2>7, <2>8, <2>9 DEF IInv, Typed, TypeOK, JobType, PlanType, ServeExecute, laptop
  <2>11. Receipts' BY <2>3, SessionAssumption DEF IInv, Typed, TypeOK, Receipts, Grows, ServeExecute
  <2>12. QED BY <2>7, <2>8, <2>10, <2>11 DEF IInv, Bound, ServeExecute, laptop
<1>8. \/ UNCHANGED <<plans, moves>> /\ Kept(r, g)
           /\ (Answers(t, k, "ok", r) \/ Answers(t, k, "spent", r))
      \/ UNCHANGED moves /\ Answers(t, k, "refused", r)
           /\ (UNCHANGED plans \/ plans' = [plans EXCEPT ![r].st = "gone"])
      \/ Held(r, g) /\ plans' = [plans EXCEPT ![r].st = "gone"] /\ Starts(t, k)
  BY DEF ServeExecute, Replays
<1>9. QED BY <1>5, <1>6, <1>7, <1>8

LEMMA FinishStays ==
  ASSUME IInv, NEW t \in Threads, NEW k \in 1..2, Finish(t, k) PROVE IInv'
<1>1. /\ jobs[t][k].st = "running" /\ jobs[t][k].verb \in Modes
      /\ jobs[t][k].id \in Ids /\ moves[jobs[t][k].id] = 1
  BY Facts DEF Finish, Works
<1>2. Grows BY StillGrows DEF Finish, laptop
<1>3. PICK j \in JobType :
        /\ jobs' = [jobs EXCEPT ![t][k] = j] /\ Works(j, shown, moves')
        /\ j.st # "none" => j.verb = jobs[t][k].verb
  BY <1>1, Answered DEF Finish
<1>4. jobs' \in [Threads -> [1..2 -> JobType]] /\ Asked' /\ Working'
  BY <1>1, <1>2, <1>3, WorkKeeps DEF Finish, laptop
<1>5. receipts' \subseteq Sequences \X Modes /\ Receipts'
  BY <1>1 DEF Finish, Receipts, IInv, Typed, TypeOK
<1>6. Typed'
  BY <1>4, <1>5 DEF IInv, Typed, TypeOK, JobType, Finish, laptop
<1>7. QED BY <1>4, <1>5, <1>6 DEF IInv, Routed, Bound, Finish, laptop

LEMMA RestartStays == ASSUME IInv, NEW b \in Backends, Restart(b) PROVE IInv'
<1>1. jobs \in [Threads -> [1..2 -> JobType]] /\ call \in [Threads -> CallType]
  BY DEF IInv, Typed, TypeOK, JobType
<1>2. jobs' \in [Threads -> [1..2 -> JobType]] /\ UNCHANGED call
  BY <1>1, NoJobType DEF Restart
<1>3. \A t \in Threads, k \in 1..2 : jobs'[t][k] \in {jobs[t][k], NoJob}
  BY DEF Restart
<1>4. Asked'
  <2> SUFFICES ASSUME NEW t \in Threads
               PROVE  Reviewed(call[t], shown) /\ Matched(call[t], jobs'[t][call[t].try])
    BY <1>2 DEF Asked, Job, Restart, laptop
  <2>1. Reviewed(call[t], shown) /\ Matched(call[t], jobs[t][call[t].try])
    BY DEF IInv, Asked, Job
  <2>2. call[t].try \in 1..2 BY <1>1 DEF CallType
  <2>3. QED BY <1>3, <2>1, <2>2, NoJobType DEF Matched
<1>5. Working'
  <2> SUFFICES ASSUME NEW t \in Threads, NEW k \in 1..2
               PROVE  Works(jobs'[t][k], shown, moves)
    BY DEF Working, Restart, laptop
  <2>1. Works(NoJob, shown, moves) BY NoJobType DEF Works
  <2>2. QED BY <1>3, <2>1 DEF IInv, Working
<1>6. plans' \in [Ids -> PlanType] /\ Routed'
  <2>1. plans \in [Ids -> PlanType] BY DEF IInv, Typed, TypeOK, PlanType
  <2>2. QED BY <2>1 DEF Restart, Held, PlanType, Pi, IInv, Routed
<1>7. life' \in [Backends -> 1..Lives]
  BY SessionAssumption DEF Restart, IInv, Typed, TypeOK
<1>8. receipts' \subseteq receipts /\ forgotten' \subseteq forgotten BY DEF Restart
<1>9. Typed'
  BY <1>2, <1>6, <1>7, <1>8 DEF IInv, Typed, TypeOK, JobType, PlanType, Restart, laptop
<1>10. QED
  BY <1>4, <1>5, <1>6, <1>8, <1>9 DEF IInv, Receipts, Bound, Restart, laptop

(* Steps that touch neither calls nor work. *)
LEMMA AsideStays == ASSUME IInv, Expire \/ Reboot \/ Evict \/ UNCHANGED vars PROVE IInv'
<1>1. UNCHANGED <<life, native, plans, jobs, call, shown, moves, told>>
  BY DEF Expire, Reboot, Evict, vars, upstream, laptop
<1>2. /\ boot' \in 1..Boots /\ bindings' \subseteq bindings /\ receipts' \subseteq receipts
      /\ forgotten' \subseteq Sequences
  BY SessionAssumption DEF Expire, Reboot, Evict, vars, upstream, laptop, IInv, Typed, TypeOK
<1>3. Typed' BY <1>1, <1>2 DEF IInv, Typed, TypeOK
<1>4. QED
  BY <1>1, <1>2, <1>3
  DEF IInv, Asked, Job, Working, Routed, Receipts, Bound

-----------------------------------------------------------------------------
(* An answer is read: the call ends, or goes on to ask for the identity,    *)
(* and its piece of work is taken.                                          *)
LEMMA TakesKeeps ==
  ASSUME IInv, Grows, NEW t \in Threads, NEW c \in CallType, At(t, "sent"), Takes(t),
         call' = [call EXCEPT ![t] = c], c.pc \in {"idle", "done", "identify"},
         c.pc = "identify" => c.b \in Backends
  PROVE  /\ call' \in [Threads -> CallType]
         /\ jobs' \in [Threads -> [1..2 -> JobType]]
         /\ Asked' /\ Working'
<1>1. Reviewed(c, shown') BY DEF Reviewed
<1>2. Works(NoJob, shown', moves') BY NoJobType DEF Works
<1>3. jobs' = [jobs EXCEPT ![t][call[t].try] = NoJob] BY DEF Takes
<1>4. QED BY <1>1, <1>2, <1>3, NoJobType, AnswerKeeps

Label(pc, b, n, served) ==
  [NoCall EXCEPT !.pc = pc, !.b = b, !.name = n, !.served = served]

LEMMA LabelType ==
  ASSUME IInv, NEW t \in Threads, NEW pc \in {"done", "identify"},
         NEW b \in Backends \cup {"none"}, NEW n \in Nat
  PROVE  /\ Label(pc, b, n, Job(t).life) \in CallType
         /\ Label(pc, b, n, Job(t).life).pc = pc /\ Label(pc, b, n, Job(t).life).b = b
         /\ Label(pc, b, n, Job(t).life).name = n
         /\ Label(pc, b, n, Job(t).life).served = Job(t).life
<1>1. Job(t) \in JobType BY Facts
<1>2. Job(t).life \in Nat
  BY <1>1, SessionAssumption DEF JobType
<1>3. NoCall \in CallType BY NoCallType
<1>4. Label(pc, b, n, Job(t).life) \in CallType BY <1>2, <1>3 DEF Label, CallType
<1>5. /\ Label(pc, b, n, Job(t).life).pc = pc /\ Label(pc, b, n, Job(t).life).b = b
      /\ Label(pc, b, n, Job(t).life).name = n /\ Label(pc, b, n, Job(t).life).served = Job(t).life
  BY <1>3 DEF Label, CallType
<1>6. QED BY <1>4, <1>5

LEMMA RefusalStays == ASSUME IInv, NEW t \in Threads, Refusal(t) PROVE IInv'
<1>1. Grows BY StillGrows DEF Refusal, upstream, laptop
<1>2. /\ call' \in [Threads -> CallType] /\ jobs' \in [Threads -> [1..2 -> JobType]]
      /\ Asked' /\ Working'
  BY <1>1, NoCallType, TakesKeeps DEF Refusal, Fails
<1>3. QED BY <1>2, Rest DEF Refusal

LEMMA PreviewedStays == ASSUME IInv, NEW t \in Threads, Previewed(t) PROVE IInv'
<1>1. /\ call[t] \in CallType /\ Job(t) \in JobType /\ Job(t).st = "ok"
      /\ Job(t).verb = "preview" /\ Job(t).id \in Ids /\ call[t].b \in Backends
  BY Facts DEF Previewed, At, Matched, Works, Reviewed
<1>2. CASE Fails(t) /\ UNCHANGED <<bindings, shown>>
  <2>1. Grows BY <1>2, StillGrows DEF Previewed, upstream
  <2>2. /\ call' \in [Threads -> CallType] /\ jobs' \in [Threads -> [1..2 -> JobType]]
        /\ Asked' /\ Working'
    BY <1>2, <2>1, NoCallType, TakesKeeps DEF Previewed, Fails
  <2>3. QED BY <1>2, <2>2, Rest DEF Previewed, laptop
<1>3. CASE /\ Succeeds(t) /\ shown' = shown \cup {Job(t).id}
           /\ bindings' = bindings \cup {<<Job(t).id, call[t].b, call[t].name>>}
  <2> DEFINE n == call[t].name
             c == Label("done", call[t].b, n, Job(t).life)
  <2>1. n \in Nat BY <1>1 DEF CallType
  <2>2. c \in CallType /\ c.pc = "done" BY <1>1, <2>1, LabelType
  <2>3. call' = [call EXCEPT ![t] = c] BY <1>3 DEF Succeeds, Labelled, Label
  <2>4. Grows BY <1>1, <1>3 DEF Grows, IInv, Typed, TypeOK, Previewed, upstream
  <2>5. /\ call' \in [Threads -> CallType] /\ jobs' \in [Threads -> [1..2 -> JobType]]
        /\ Asked' /\ Working'
    BY <2>2, <2>3, <2>4, TakesKeeps DEF Previewed
  <2>6. Bound' BY <1>3 DEF IInv, Bound
  <2>7. \A x \in bindings' : x[1] \in Ids /\ x[2] \in Backends /\ x[3] \in Nat
    BY <1>1, <1>3, <2>1 DEF IInv, Typed, TypeOK
  <2>8. \A u \in Threads : call'[u].id \in Ids \cup {"none"} /\ call'[u].try \in 1..2
    BY <2>5 DEF CallType
  <2>9. Typed'
    BY <2>4, <2>5, <2>7, <2>8
    DEF IInv, Typed, TypeOK, JobType, Previewed, upstream, Grows
  <2>10. QED BY <2>5, <2>6, <2>9 DEF IInv, Routed, Receipts, Previewed, upstream
<1>4. QED BY <1>2, <1>3 DEF Previewed

(* A call of an execution that reads its answer reads of a route that moved.*)
LEMMA ExecutedMoved ==
  ASSUME IInv, NEW t \in Threads, Executed(t)
  PROVE  Job(t).id \in Ids /\ moves[Job(t).id] = 1
BY Facts DEF Executed, At, Matched, Works

LEMMA ExecutedStays == ASSUME IInv, NEW t \in Threads, Executed(t) PROVE IInv'
<1>1. call[t] \in CallType /\ Job(t).id \in Ids /\ call[t].b \in Backends
  BY Facts, ExecutedMoved DEF Executed, At, Reviewed
<1>2. Grows BY StillGrows DEF Executed, upstream
<1>3. CASE Fails(t) /\ UNCHANGED <<bindings, told>>
  <2>1. /\ call' \in [Threads -> CallType] /\ jobs' \in [Threads -> [1..2 -> JobType]]
        /\ Asked' /\ Working'
    BY <1>2, <1>3, NoCallType, TakesKeeps DEF Executed, Fails
  <2>2. QED BY <1>3, <2>1, Rest DEF Executed, laptop
<1>4. CASE /\ Succeeds(t) /\ told' = told \cup {Job(t).id} /\ bindings' \subseteq bindings
  <2> DEFINE n == call[t].name
             c == Label("done", call[t].b, n, Job(t).life)
  <2>1. n \in Nat BY <1>1 DEF CallType
  <2>2. c \in CallType /\ c.pc = "done" BY <1>1, <2>1, LabelType
  <2>3. call' = [call EXCEPT ![t] = c] BY <1>4 DEF Succeeds, Labelled, Label
  <2>4. /\ call' \in [Threads -> CallType] /\ jobs' \in [Threads -> [1..2 -> JobType]]
        /\ Asked' /\ Working'
    BY <1>2, <2>2, <2>3, TakesKeeps DEF Executed
  <2>5. \A u \in Threads : call'[u].id \in Ids \cup {"none"} /\ call'[u].try \in 1..2
    BY <2>4 DEF CallType
  <2>6. Typed'
    BY <1>1, <1>4, <2>4, <2>5 DEF IInv, Typed, TypeOK, JobType, Executed, upstream
  <2>7. QED BY <1>4, <2>4, <2>6 DEF IInv, Routed, Receipts, Bound, Executed, upstream
<1>5. QED BY <1>3, <1>4 DEF Executed

LEMMA ReadStays == ASSUME IInv, NEW t \in Threads, Read(t) PROVE IInv'
<1>1. call[t].b \in Backends /\ Job(t) \in JobType BY Facts DEF Read, At, Reviewed
<1>2. Grows BY StillGrows DEF Read, upstream, laptop
<1>3. PICK pc \in {"done", "identify"}, n \in Nat : Labelled(t, pc, n)
  <2>1. CASE AnswersNamed(call[t].b)
    <3>1. Job(t).life \in Nat BY <1>1, SessionAssumption DEF JobType
    <3>2. Labelled(t, "done", Job(t).life) BY <2>1 DEF Read, AnswersNamed
    <3>3. QED BY <3>1, <3>2
  <2>2. CASE ~AnswersNamed(call[t].b) /\ call[t].b = "sim"
    <3>1. Labelled(t, "identify", 0) BY <2>2 DEF Read
    <3>2. QED BY <3>1
  <2>3. CASE ~AnswersNamed(call[t].b) /\ call[t].b # "sim"
    <3>1. \A n \in 0..boot : n \in Nat BY Named
    <3>2. QED BY <2>3, <3>1 DEF Read
  <2>4. QED BY <2>1, <2>2, <2>3
<1> DEFINE c == Label(pc, call[t].b, n, Job(t).life)
<1>4. c \in CallType /\ c.pc = pc /\ c.b = call[t].b BY <1>1, LabelType
<1>5. call' = [call EXCEPT ![t] = c] BY <1>3 DEF Labelled, Label
<1>6. /\ call' \in [Threads -> CallType] /\ jobs' \in [Threads -> [1..2 -> JobType]]
      /\ Asked' /\ Working'
  BY <1>1, <1>2, <1>4, <1>5, TakesKeeps DEF Read
<1>7. QED BY <1>6, Rest DEF Read

LEMMA IdentifyStays == ASSUME IInv, NEW t \in Threads, Identify(t) PROVE IInv'
<1>1. CASE Fails(t) BY <1>1, FailsKeeps DEF Identify
<1>2. CASE ~Fails(t)
  <2> DEFINE c == [call[t] EXCEPT !.pc = "done", !.name = Identity(call[t].b)]
  <2>1. call' = [call EXCEPT ![t] = c] BY <1>2 DEF Identify
  <2>2. call[t] \in CallType /\ call[t].b \in Backends BY Facts DEF Reviewed, Identify, At
  <2>3. Identity(call[t].b) \in Nat
    BY <2>2, Named
  <2>4. c \in CallType /\ c.pc = "done" BY <2>2, <2>3 DEF CallType
  <2>5. QED BY <2>1, <2>4, CallKeeps DEF Identify, Reviewed, Matched
<1>3. QED BY <1>1, <1>2

-----------------------------------------------------------------------------
LEMMA InitHolds == Init => IInv
<1> SUFFICES ASSUME Init PROVE IInv OBVIOUS
<1>1. call \in [Threads -> CallType] /\ \A t \in Threads : call[t] = NoCall
  BY NoCallType DEF Init
<1>2. /\ jobs \in [Threads -> [1..2 -> JobType]]
      /\ \A t \in Threads, k \in 1..2 : jobs[t][k] = NoJob
  BY NoJobType DEF Init
<1>3. plans \in [Ids -> PlanType] /\ life \in [Backends -> 1..Lives] /\ boot \in 1..Boots
  BY SessionAssumption DEF Init, PlanType, Pi
<1>4. Typed
  BY <1>1, <1>2, <1>3, SessionAssumption
  DEF Init, Typed, TypeOK, JobType, CallType, PlanType
<1>5. Asked /\ Working
  BY <1>1, <1>2, NoCallType, NoJobType DEF Asked, Job, Working, Reviewed, Matched, Works
<1>6. QED BY <1>4, <1>5 DEF Init, IInv, Routed, Receipts, Bound

LEMMA StepStays == IInv /\ [Next]_vars => IInv'
<1> SUFFICES ASSUME IInv, [Next]_vars PROVE IInv' OBVIOUS
<1>1. ASSUME NEW t \in Threads, Thread(t) PROVE IInv'
  BY <1>1, AskKeeps, HealthKeeps, RequireKeeps, SendKeeps, BrokenKeeps, RefusalStays,
     PreviewedStays, ExecutedStays, ReadStays, IdentifyStays
  DEF Thread
<1>2. ASSUME NEW t \in Threads, NEW k \in 1..2, Gateway(t, k) PROVE IInv'
  BY <1>2, ServesRead, ServesPreview, ServesExecute, FinishStays DEF Gateway
<1>3. ASSUME NEW b \in Backends, Restart(b) PROVE IInv'
  BY <1>3, RestartStays
<1>4. CASE Expire \/ Reboot \/ Evict \/ UNCHANGED vars BY <1>4, AsideStays
<1>5. QED BY <1>1, <1>2, <1>3, <1>4 DEF Next

(* The inductive invariant holds in every reachable state of the web        *)
(* backend and its gateways.                                                *)
THEOREM Inductive == Spec => []IInv
<1>1. Init => IInv BY InitHolds
<1>2. IInv /\ [Next]_vars => IInv' BY StepStays
<1>3. QED BY <1>1, <1>2, PTL DEF Spec

(* Every variable of the session stays in its range. *)
THEOREM TypeCorrect == Spec => []TypeOK
<1>1. IInv => TypeOK BY DEF IInv, Typed
<1>2. QED BY <1>1, Inductive, PTL

-----------------------------------------------------------------------------
(* Steps that show no review, move nothing and report nothing are steps of  *)
(* ReviewedRoute that change nothing.                                       *)
LEMMA QuietSteps ==
  ASSUME NEW t \in Threads, NEW k \in 1..2,
         \/ Ask(t) \/ Health(t) \/ Require(t) \/ Send(t) \/ Broken(t) \/ Refusal(t)
         \/ Read(t) \/ Identify(t) \/ ServeRead(t, k) \/ ServePreview(t, k) \/ Finish(t, k)
         \/ Expire \/ Reboot \/ Evict \/ (\E b \in Backends : Restart(b))
         \/ UNCHANGED vars
  PROVE  UNCHANGED <<shown, moves, told>>
BY DEF Ask, Health, Require, Send, Broken, Refusal, Read, Identify, ServeRead, ServePreview,
       Finish, Expire, Reboot, Evict, Restart, vars, upstream, laptop

(* A review shown, a route started and a route reported are each one step   *)
(* of ReviewedRoute.                                                        *)
LEMMA ShowsReview ==
  ASSUME IInv, NEW t \in Threads, Previewed(t)
  PROVE  Promise!Next \/ UNCHANGED <<shown, moves, told>>
<1>1. CASE UNCHANGED shown BY <1>1 DEF Previewed, upstream
<1>2. CASE shown' = shown \cup {Job(t).id}
  <2>1. Job(t).id \in Ids BY Facts DEF Previewed, At, Matched, Works
  <2>2. Promise!Show(Job(t).id) BY <1>2 DEF Promise!Show, Previewed, upstream
  <2>3. QED BY <2>1, <2>2 DEF Promise!Next
<1>3. QED BY <1>1, <1>2 DEF Previewed

LEMMA MovesOnce ==
  ASSUME IInv, NEW t \in Threads, NEW k \in 1..2, ServeExecute(t, k)
  PROVE  Promise!Next \/ UNCHANGED <<shown, moves, told>>
<1> DEFINE r == jobs[t][k].id
<1>1. CASE UNCHANGED moves BY <1>1 DEF ServeExecute, laptop
<1>2. CASE Held(r, jobs[t][k].b) /\ Starts(t, k)
  <2>1. r \in shown /\ r \in Ids
    BY Facts DEF ServeExecute, Works, IInv, Typed, TypeOK
  <2>2. moves[r] = 0 BY <1>2, <2>1 DEF Held, IInv, Routed
  <2>3. moves' = [moves EXCEPT ![r] = 1]
    BY <1>2, <2>1, <2>2 DEF Starts, IInv, Typed, TypeOK
  <2>4. Promise!Move(r) BY <2>1, <2>2, <2>3 DEF Promise!Move, ServeExecute, laptop
  <2>5. QED BY <2>1, <2>4 DEF Promise!Next
<1>3. QED BY <1>1, <1>2 DEF ServeExecute, Replays

LEMMA TellsOfMoved ==
  ASSUME IInv, NEW t \in Threads, Executed(t)
  PROVE  Promise!Next \/ UNCHANGED <<shown, moves, told>>
<1>1. CASE UNCHANGED told BY <1>1 DEF Executed, upstream
<1>2. CASE told' = told \cup {Job(t).id}
  <2>1. Promise!Tell(Job(t).id)
    BY <1>2, ExecutedMoved DEF Promise!Tell, Executed, upstream
  <2>2. QED BY <2>1, ExecutedMoved DEF Promise!Next
<1>3. QED BY <1>1, <1>2 DEF Executed

LEMMA StepIsPromised ==
  IInv /\ [Next]_vars => [Promise!Next]_<<shown, moves, told>>
<1> SUFFICES ASSUME IInv, [Next]_vars
             PROVE  Promise!Next \/ UNCHANGED <<shown, moves, told>>
  OBVIOUS
<1>1. ASSUME NEW t \in Threads, Thread(t)
      PROVE  Promise!Next \/ UNCHANGED <<shown, moves, told>>
  BY <1>1, QuietSteps, ShowsReview, TellsOfMoved DEF Thread
<1>2. ASSUME NEW t \in Threads, NEW k \in 1..2, Gateway(t, k)
      PROVE  Promise!Next \/ UNCHANGED <<shown, moves, told>>
  BY <1>2, QuietSteps, MovesOnce DEF Gateway
<1>3. CASE Expire \/ Reboot \/ Evict \/ (\E b \in Backends : Restart(b)) \/ UNCHANGED vars
  BY <1>3 DEF Expire, Reboot, Evict, Restart, vars, upstream, laptop
<1>4. QED BY <1>1, <1>2, <1>3 DEF Next

(* What the laptop promises of reviewed motion is kept: at most one move of *)
(* a route, after its review, reported only when made; for every set of     *)
(* routes and threads, through lost answers, second attempts and restarts.  *)
THEOREM ImplementsReviewedRoute == Spec => KeepsPromise
<1>1. Init => Promise!Init BY DEF Init, Promise!Init
<1>2. IInv /\ [Next]_vars => [Promise!Next]_<<shown, moves, told>> BY StepIsPromised
<1>3. QED BY <1>1, <1>2, Inductive, PTL DEF Spec, KeepsPromise, Promise!Spec
-----------------------------------------------------------------------------
(* What the answers say is true (RouteAnswersAreTrue).  A binding is of the *)
(* process that stored its route, because the answer it was made from is    *)
(* (True).  A refused sequence did not run, because one its process moved   *)
(* is still running there, which keeps others out, or left its receipt,     *)
(* which would have been the answer or have said that it ran in the other   *)
(* mode, or was pushed out (Ran).                                           *)

(* A stored route has a backend and a process of it, the running one while  *)
(* it is ready; what was shown was stored.                                  *)
Stored ==
  /\ \A i \in Ids :
       /\ plans[i].st = "new" => plans[i].b = "none"
       /\ plans[i].st # "new" => plans[i].b \in Backends /\ plans[i].life <= life[plans[i].b]
       /\ plans[i].st = "ready" => plans[i].life = life[plans[i].b]
  /\ \A i \in shown : plans[i].st # "new"

(* The plan p was stored by the process that did the work j. *)
StoredBy(p, j) == p.st # "new" /\ p.b = j.b /\ p.life = j.life

(* Work under way is the running process's; a route that runs is taken; a   *)
(* preview names the route its process stored.  Of the plans p, the         *)
(* processes l and the reviews s.                                           *)
True(j, p, l, s) ==
  /\ j.st \in Live => j.life = l[j.b]
  /\ j.st # "none" /\ j.verb \in Modes => j.id \in s
  /\ j.st = "running" => p[j.id].st = "gone" /\ p[j.id].b = j.b
  /\ j.st = "ok" /\ j.verb = "preview" => StoredBy(p[j.id], j)

(* A sequence that its process moved is still running there, or has its     *)
(* receipt, unless that was pushed out.                                     *)
Lasting(i) == i \in forgotten \/ \E mode \in Modes : <<i, mode>> \in receipts
Runs(i) == \E t \in Threads, k \in 1..2 : jobs[t][k].st = "running" /\ jobs[t][k].id = i
Ran ==
  \A i \in Sequences :
    moves[i] = 1 /\ plans[i].life = life[plans[i].b] => Lasting(i) \/ Runs(i)

(* The work a call waits for is of its backend; a call not sent yet has no  *)
(* work, and one not asked again has no second; only the simulator is asked *)
(* for its name after its answer.                                           *)
Fits(c, j, second) ==
  /\ c.pc = "sent" /\ j.st # "none" => j.b = c.b
  /\ c.pc \in {"health", "require", "send"} => j.st = "none"
  /\ c.pc \in {"health", "require", "send", "sent"} /\ c.try = 1 => second.st = "none"
  /\ c.pc = "identify" => c.b = "sim"

(* An answer is named after the process that gave it. *)
Says(c) == c.pc = "done" /\ AnswersNamed(c.b) => c.name = c.served

Truth ==
  /\ Stored /\ Ran /\ BoundIsHeld /\ AnswersNameTheirProcess
  /\ \A t \in Threads, k \in 1..2 : True(jobs[t][k], plans, life, shown)
  /\ \A t \in Threads : Fits(call[t], Job(t), jobs[t][2])

-----------------------------------------------------------------------------
(* A stored plan keeps its process, a taken one stays taken and moves no    *)
(* more.                                                                    *)
PlansStay ==
  \A i \in Ids :
    /\ plans[i].st # "new" => /\ plans'[i].st # "new" /\ plans'[i].b = plans[i].b
                              /\ plans'[i].life = plans[i].life
    /\ plans[i].st = "gone" => plans'[i].st = "gone" /\ moves'[i] = moves[i]

LEMMA PlanFacts ==
  ASSUME IInv
  PROVE  /\ plans \in [Ids -> PlanType] /\ moves \in [Ids -> 0..1]
         /\ \A i \in Ids : plans[i].life \in Nat
<1>1. plans \in [Ids -> PlanType] /\ moves \in [Ids -> 0..1]
  BY DEF IInv, Typed, TypeOK, PlanType
<1>2. QED BY <1>1, SessionAssumption DEF PlanType

LEMMA TruthFacts ==
  ASSUME IInv, Truth, NEW t \in Threads, NEW k \in 1..2
  PROVE  /\ True(jobs[t][k], plans, life, shown) /\ Job(t) = jobs[t][call[t].try]
         /\ True(Job(t), plans, life, shown) /\ Fits(call[t], Job(t), jobs[t][2])
         /\ jobs \in [Threads -> [1..2 -> JobType]] /\ call \in [Threads -> CallType]
         /\ plans \in [Ids -> PlanType] /\ moves \in [Ids -> 0..1]
<1>1. call[t].try \in 1..2 BY Facts
<1>2. QED BY <1>1 DEF Truth, Job, IInv, Typed, TypeOK, JobType, PlanType

(* What is true of a piece of work stays true. *)
LEMMA TrueStays ==
  ASSUME IInv, Truth, PlansStay, shown \subseteq shown', NEW j \in JobType, j.st # "none",
         Works(j, shown, moves), True(j, plans, life, shown),
         j.st \in Live => life'[j.b] = life[j.b]
  PROVE  True(j, plans', life', shown')
<1>1. j.verb \in Modes => j.id \in Ids /\ j.id \in shown /\ plans[j.id].st # "new"
  BY DEF True, IInv, Typed, TypeOK, Truth, Stored
<1>2. j.st = "ok" /\ j.verb = "preview" => j.id \in Ids BY DEF Works
<1>3. j.st = "running" => j.verb \in Modes BY DEF Works
<1>4. j.st \in Live => j.life = life'[j.b] BY DEF True
<1>5. j.st = "running" => plans'[j.id].st = "gone" /\ plans'[j.id].b = j.b
  BY <1>1, <1>3 DEF True, PlansStay
<1>6. j.st = "ok" /\ j.verb = "preview" => StoredBy(plans'[j.id], j)
  BY <1>2 DEF True, PlansStay, StoredBy
<1>7. QED BY <1>1, <1>4, <1>5, <1>6 DEF True

LEMMA NoneIsTrue ==
  ASSUME NEW j, j.st = "none", NEW p, NEW l, NEW s PROVE True(j, p, l, s)
BY DEF True, Live

(* One thread's call and one piece of its work change. *)
LEMMA TruthKeeps ==
  ASSUME IInv, Truth, PlansStay, shown \subseteq shown', UNCHANGED <<life, native>>,
         NEW t \in Threads, NEW k \in 1..2, NEW c \in CallType, NEW j \in JobType,
         call' = [call EXCEPT ![t] = c], jobs' = [jobs EXCEPT ![t][k] = j],
         True(j, plans', life, shown'), Fits(c, jobs'[t][c.try], jobs'[t][2]), Says(c),
         Stored', Ran', BoundIsHeld'
  PROVE  Truth'
<1>1. jobs \in [Threads -> [1..2 -> JobType]] /\ call \in [Threads -> CallType]
  BY TruthFacts
<1>2. \A u \in Threads : call'[u] = IF u = t THEN c ELSE call[u] BY <1>1
<1>3. \A u \in Threads, n \in 1..2 :
        jobs'[u][n] = IF u = t /\ n = k THEN j ELSE jobs[u][n]
  BY <1>1
<1>4. ASSUME NEW u \in Threads, NEW n \in 1..2
      PROVE  True(jobs'[u][n], plans', life', shown')
  <2>1. CASE u = t /\ n = k BY <1>3, <2>1
  <2>2. CASE ~(u = t /\ n = k)
    <3>1. jobs'[u][n] = jobs[u][n] /\ jobs[u][n] \in JobType BY <1>1, <1>3, <2>2
    <3>2. CASE jobs[u][n].st = "none" BY <3>1, <3>2, NoneIsTrue
    <3>3. CASE jobs[u][n].st # "none" BY <3>1, <3>3, Facts, TruthFacts, TrueStays
    <3>4. QED BY <3>2, <3>3
  <2>3. QED BY <2>1, <2>2
<1>5. ASSUME NEW u \in Threads
      PROVE  Fits(call'[u], jobs'[u][call'[u].try], jobs'[u][2])
  <2>1. CASE u = t BY <1>2, <2>1
  <2>2. CASE u # t
    <3>1. call'[u] = call[u] /\ call[u].try \in 1..2 BY <1>2, <2>2, Facts
    <3>2. jobs'[u][call[u].try] = Job(u) /\ jobs'[u][2] = jobs[u][2]
      BY <1>3, <2>2, <3>1 DEF Job
    <3>3. QED BY <3>1, <3>2, TruthFacts
  <2>3. QED BY <2>1, <2>2
<1>6. AnswersNameTheirProcess'
  BY <1>2 DEF AnswersNameTheirProcess, AnswersNamed, At, Says, Truth
<1>7. QED BY <1>4, <1>5, <1>6 DEF Truth, Job

(* A sequence that moved is running or has its receipt, as long as what     *)
(* stops running leaves one.                                                *)
LEMMA RanStays ==
  ASSUME IInv, Truth, PlansStay, UNCHANGED life, receipts \subseteq receipts',
         forgotten \subseteq forgotten',
         NEW t \in Threads, NEW k \in 1..2, NEW j \in JobType,
         jobs' = [jobs EXCEPT ![t][k] = j],
         \A i \in Sequences : jobs[t][k].st = "running" /\ jobs[t][k].id = i
           => (j.st = "running" /\ j.id = i) \/ Lasting(i)',
         \A i \in Sequences : moves'[i] = moves[i] \/ (j.st = "running" /\ j.id = i)
  PROVE  Ran'
<1>1. jobs \in [Threads -> [1..2 -> JobType]] BY TruthFacts
<1>2. \A u \in Threads, n \in 1..2 :
        jobs'[u][n] = IF u = t /\ n = k THEN j ELSE jobs[u][n]
  BY <1>1
<1> SUFFICES ASSUME NEW i \in Sequences, moves'[i] = 1, plans'[i].life = life[plans'[i].b]
             PROVE  Lasting(i)' \/ Runs(i)'
  BY DEF Ran
<1>3. CASE j.st = "running" /\ j.id = i BY <1>2, <1>3 DEF Runs
<1>4. CASE moves[i] = 1
  <2>1. i \in Ids /\ plans[i].st = "gone"
    BY <1>4, SessionAssumption DEF IInv, Routed, Typed, TypeOK, Pi
  <2>2. plans'[i].b = plans[i].b /\ plans'[i].life = plans[i].life
    BY <2>1 DEF PlansStay
  <2>3. Lasting(i) \/ Runs(i) BY <1>4, <2>2 DEF Truth, Ran
  <2>4. CASE Runs(i)
    <3>1. PICK u \in Threads, n \in 1..2 : jobs[u][n].st = "running" /\ jobs[u][n].id = i
      BY <2>4 DEF Runs
    <3>2. CASE u = t /\ n = k
      <4>1. Lasting(i)' \/ (j.st = "running" /\ j.id = i) BY <3>1, <3>2
      <4>2. QED BY <1>3, <4>1
    <3>3. CASE ~(u = t /\ n = k) BY <1>2, <3>1, <3>3 DEF Runs
    <3>4. QED BY <3>2, <3>3
  <2>5. Lasting(i) => Lasting(i)' BY DEF Lasting
  <2>6. QED BY <2>3, <2>4, <2>5
<1>5. QED BY <1>3, <1>4

-----------------------------------------------------------------------------
(* The steps of a thread, where the gateways and the reviews stay as they   *)
(* are.                                                                     *)
LEMMA SameStays ==
  ASSUME IInv, Truth, UNCHANGED <<upstream, shown>>, bindings' \subseteq bindings
  PROVE  PlansStay /\ Stored' /\ BoundIsHeld'
<1>1. PlansStay BY DEF PlansStay, upstream
<1>2. Stored' BY DEF Truth, Stored, upstream
<1>3. BoundIsHeld' BY DEF Truth, BoundIsHeld, AnswersNamed, upstream
<1>4. QED BY <1>1, <1>2, <1>3

LEMMA QuietKeeps ==
  ASSUME IInv, Truth, UNCHANGED <<upstream, shown>>, bindings' \subseteq bindings,
         NEW t \in Threads, NEW k \in 1..2, NEW c \in CallType, NEW j \in JobType,
         call' = [call EXCEPT ![t] = c], jobs' = [jobs EXCEPT ![t][k] = j],
         True(j, plans, life, shown), jobs[t][k].st = "running" => j = jobs[t][k],
         Fits(c, jobs'[t][c.try], jobs'[t][2]), Says(c)
  PROVE  Truth'
<1>1. PlansStay /\ Stored' /\ BoundIsHeld' BY SameStays
<1>2. UNCHANGED <<life, native, plans, receipts, forgotten, moves, shown>> BY DEF upstream
<1>3. Ran' BY <1>1, <1>2, RanStays
<1>4. True(j, plans', life', shown') BY <1>2
<1>5. QED BY <1>1, <1>2, <1>3, <1>4, TruthKeeps

(* Only the call changes. *)
LEMMA CallTrue ==
  ASSUME IInv, Truth, UNCHANGED <<upstream, jobs, laptop>>,
         NEW t \in Threads, NEW c \in CallType, call' = [call EXCEPT ![t] = c],
         Fits(c, jobs[t][c.try], jobs[t][2]), Says(c)
  PROVE  Truth'
<1>1. 1 \in 1..2 OBVIOUS
<1>2. jobs \in [Threads -> [1..2 -> JobType]] /\ jobs[t][1] \in JobType
  BY <1>1, TruthFacts
<1>3. True(jobs[t][1], plans, life, shown) BY <1>1, TruthFacts
<1>4. jobs' = jobs /\ jobs' = [jobs EXCEPT ![t][1] = jobs[t][1]]
  BY <1>2
<1>5. shown' = shown /\ bindings' \subseteq bindings BY DEF laptop
<1>6. QED BY <1>1, <1>2, <1>3, <1>4, <1>5, QuietKeeps

LEMMA NoCallFits ==
  ASSUME NEW j, NEW s PROVE Fits(NoCall, j, s) /\ Says(NoCall)
BY DEF NoCall, Fits, Says

LEMMA FailsTrue ==
  ASSUME IInv, Truth, NEW t \in Threads, Fails(t), UNCHANGED <<upstream, jobs, laptop>>
  PROVE  Truth'
BY CallTrue, NoCallType, NoCallFits DEF Fails

LEMMA AskTrue == ASSUME IInv, Truth, NEW t \in Threads, Ask(t) PROVE Truth'
<1>1. PICK b \in Backends, v \in Verbs, i \in Ids :
        call' = [call EXCEPT ![t] = [NoCall EXCEPT !.pc = IF v = "read" THEN "send" ELSE "health",
                   !.verb = v, !.b = b, !.id = IF v \in Modes THEN i ELSE "none"]]
  BY DEF Ask
<1> DEFINE c == [NoCall EXCEPT !.pc = IF v = "read" THEN "send" ELSE "health",
                   !.verb = v, !.b = b, !.id = IF v \in Modes THEN i ELSE "none"]
<1>2. v \in {"read", "preview", "execute", "capture"} BY SessionAssumption
<1>3. c \in CallType BY <1>2, NoCallType DEF CallType
<1>4. c.pc \in {"send", "health"} /\ c.try = 1 BY <1>2 DEF NoCall
<1>5. jobs[t][1].st = "none" /\ jobs[t][2].st = "none" BY DEF Ask
<1>6. Fits(c, jobs[t][c.try], jobs[t][2]) /\ Says(c) BY <1>4, <1>5 DEF Fits, Says
<1>7. QED BY <1>1, <1>3, <1>6, CallTrue DEF Ask

LEMMA HealthTrue == ASSUME IInv, Truth, NEW t \in Threads, Health(t) PROVE Truth'
<1>1. call[t] \in CallType /\ Reviewed(call[t], shown) BY Facts
<1> DEFINE c == [call[t] EXCEPT !.name = Identity(call[t].b),
                                !.pc = IF call[t].verb = "preview" THEN "send" ELSE "require"]
<1>2. CASE Fails(t) BY <1>2, FailsTrue DEF Health
<1>3. CASE ~Fails(t)
  <2>1. call' = [call EXCEPT ![t] = c] BY <1>3 DEF Health
  <2>2. call[t].b \in Backends BY <1>1 DEF Reviewed, Health, At
  <2>3. Identity(call[t].b) \in Nat BY <2>2, Named
  <2>4. c \in CallType BY <1>1, <2>3 DEF CallType
  <2>5. c.pc \in {"send", "require"} /\ c.try = call[t].try BY <1>1 DEF CallType
  <2>6. Fits(call[t], jobs[t][c.try], jobs[t][2]) /\ call[t].pc = "health"
    BY <2>5, TruthFacts DEF Health, At
  <2>7. Fits(c, jobs[t][c.try], jobs[t][2]) /\ Says(c) BY <2>5, <2>6 DEF Fits, Says
  <2>8. QED BY <2>1, <2>4, <2>7, CallTrue DEF Health
<1>4. QED BY <1>2, <1>3

LEMMA RequireTrue == ASSUME IInv, Truth, NEW t \in Threads, Require(t) PROVE Truth'
<1>1. call[t] \in CallType BY Facts
<1> DEFINE c == [call[t] EXCEPT !.pc = "send"]
<1>2. CASE Fails(t) BY <1>2, FailsTrue DEF Require
<1>3. CASE ~Fails(t)
  <2>1. call' = [call EXCEPT ![t] = c] BY <1>3 DEF Require
  <2>2. c \in CallType /\ c.pc = "send" /\ c.try = call[t].try BY <1>1 DEF CallType
  <2>3. Fits(call[t], jobs[t][c.try], jobs[t][2]) /\ call[t].pc = "require"
    BY <2>2, TruthFacts DEF Require, At
  <2>4. Fits(c, jobs[t][c.try], jobs[t][2]) /\ Says(c) BY <2>2, <2>3 DEF Fits, Says
  <2>5. QED BY <2>1, <2>2, <2>4, CallTrue DEF Require
<1>4. QED BY <1>2, <1>3

LEMMA IdentifyTrue == ASSUME IInv, Truth, NEW t \in Threads, Identify(t) PROVE Truth'
<1>1. CASE Fails(t) BY <1>1, FailsTrue DEF Identify
<1>2. CASE ~Fails(t)
  <2> DEFINE c == [call[t] EXCEPT !.pc = "done", !.name = Identity(call[t].b)]
  <2>1. call' = [call EXCEPT ![t] = c] BY <1>2 DEF Identify
  <2>2. /\ call[t] \in CallType /\ call[t].b \in Backends
        /\ call[t].pc = "identify" /\ Fits(call[t], Job(t), jobs[t][2])
    BY Facts, TruthFacts DEF Reviewed, Identify, At
  <2>3. Identity(call[t].b) \in Nat BY <2>2, Named
  <2>4. c \in CallType /\ c.pc = "done" /\ c.b = "sim" BY <2>2, <2>3 DEF CallType, Fits
  <2>5. Fits(c, jobs[t][c.try], jobs[t][2]) /\ Says(c)
    BY <2>4 DEF Fits, Says, AnswersNamed
  <2>6. QED BY <2>1, <2>4, <2>5, CallTrue DEF Identify
<1>3. QED BY <1>1, <1>2

LEMMA SendTrue == ASSUME IInv, Truth, NEW t \in Threads, Send(t) PROVE Truth'
<1>1. CASE Fails(t) /\ UNCHANGED jobs BY <1>1, FailsTrue DEF Send
<1>2. CASE ~(Fails(t) /\ UNCHANGED jobs)
  <2> DEFINE c == [call[t] EXCEPT !.pc = "sent"]
             j == [st |-> "queued", verb |-> call[t].verb, id |-> call[t].id, b |-> call[t].b,
                   life |-> life[call[t].b]]
  <2>1. call' = [call EXCEPT ![t] = c] /\ jobs' = [jobs EXCEPT ![t][call[t].try] = j]
    BY <1>2 DEF Send
  <2>2. call[t] \in CallType /\ call[t].try \in 1..2 /\ Reviewed(call[t], shown)
        /\ call[t].pc = "send"
    BY Facts DEF Send, At
  <2>3. call[t].b \in Backends /\ (call[t].verb \in Modes => call[t].id \in shown)
    BY <2>2 DEF Reviewed
  <2>4. life[call[t].b] \in 0..Lives BY <2>3, Named
  <2>5. c \in CallType /\ j \in JobType BY <2>2, <2>4 DEF CallType, JobType, Live
  <2>6. c.pc = "sent" /\ c.try = call[t].try /\ c.b = call[t].b BY <2>2 DEF CallType
  <2>7. True(j, plans, life, shown) BY <2>3 DEF True
  <2>8. /\ jobs \in [Threads -> [1..2 -> JobType]] /\ Fits(call[t], Job(t), jobs[t][2])
        /\ Job(t) = jobs[t][call[t].try]
    BY <2>2, TruthFacts
  <2>9. jobs'[t][c.try] = j /\ (c.try = 1 => jobs'[t][2] = jobs[t][2])
    BY <2>1, <2>2, <2>6, <2>8
  <2>10. j.b = c.b BY <2>6
  <2>11. c.try = 1 => jobs'[t][2].st = "none" BY <2>2, <2>6, <2>8, <2>9 DEF Fits
  <2>12. Fits(c, jobs'[t][c.try], jobs'[t][2]) /\ Says(c)
    BY <2>6, <2>9, <2>10, <2>11 DEF Fits, Says
  <2>13. jobs[t][call[t].try].st # "running" BY <2>2, <2>8 DEF Fits
  <2>14. shown' = shown /\ bindings' \subseteq bindings /\ UNCHANGED upstream
    BY DEF Send, laptop
  <2>15. QED BY <2>1, <2>2, <2>5, <2>7, <2>12, <2>13, <2>14, QuietKeeps
<1>3. QED BY <1>1, <1>2

LEMMA BrokenTrue == ASSUME IInv, Truth, NEW t \in Threads, Broken(t) PROVE Truth'
<1>1. /\ call[t] \in CallType /\ call[t].pc = "sent" /\ call[t].try \in 1..2
      /\ Job(t) = jobs[t][call[t].try] /\ Job(t) \in JobType
      /\ True(Job(t), plans, life, shown) /\ Fits(call[t], Job(t), jobs[t][2])
  BY Facts, TruthFacts DEF Broken, At
<1> DEFINE c == IF Fails(t) THEN NoCall ELSE [call[t] EXCEPT !.pc = "send", !.try = 2]
           j == IF Job(t).st \in Live THEN Job(t) ELSE NoJob
<1>2. jobs \in [Threads -> [1..2 -> JobType]] BY TruthFacts
<1>3. call' = [call EXCEPT ![t] = c] BY DEF Broken, Fails
<1>4. jobs' = [jobs EXCEPT ![t][call[t].try] = j] BY <1>1, <1>2 DEF Broken
<1>5. j \in JobType /\ True(j, plans, life, shown) BY <1>1, NoJobType, NoneIsTrue
<1>6. jobs[t][call[t].try].st = "running" => j = jobs[t][call[t].try] BY <1>1 DEF Live
<1>7. c \in CallType /\ Fits(c, jobs'[t][c.try], jobs'[t][2]) /\ Says(c)
  <2>1. CASE Fails(t) BY <2>1, NoCallType, NoCallFits
  <2>2. CASE ~Fails(t)
    <3>1. c \in CallType /\ c.pc = "send" BY <1>1, <2>2, AskedAgain
    <3>2. c.try = 2 BY <1>1, <2>2 DEF CallType
    <3>3. call[t].try = 1 BY <2>2 DEF Broken
    <3>4. jobs[t][2].st = "none" BY <1>1, <3>3 DEF Fits
    <3>5. jobs'[t][2] = jobs[t][2] BY <1>2, <1>4, <3>3
    <3>6. QED BY <3>1, <3>2, <3>4, <3>5 DEF Fits, Says
  <2>3. QED BY <2>1, <2>2
<1>8. shown' = shown /\ bindings' \subseteq bindings /\ UNCHANGED upstream
  BY DEF Broken, laptop
<1>9. QED BY <1>1, <1>3, <1>4, <1>5, <1>6, <1>7, <1>8, QuietKeeps

(* An answer is read and its piece of work taken. *)
LEMMA TakesTrue ==
  ASSUME IInv, Truth, UNCHANGED <<upstream, shown>>, bindings' \subseteq bindings,
         NEW t \in Threads, NEW c \in CallType, call' = [call EXCEPT ![t] = c],
         Takes(t), Job(t).st \in {"ok", "refused", "spent"},
         c.pc \in {"idle", "done", "identify"}, c.pc = "identify" => c.b = "sim", Says(c)
  PROVE  Truth'
<1>1. call[t].try \in 1..2 /\ Job(t) = jobs[t][call[t].try] BY Facts
<1>2. jobs' = [jobs EXCEPT ![t][call[t].try] = NoJob] BY DEF Takes
<1>3. jobs[t][call[t].try].st # "running" BY <1>1
<1>4. Fits(c, jobs'[t][c.try], jobs'[t][2]) BY DEF Fits
<1>5. True(NoJob, plans, life, shown) BY NoJobType, NoneIsTrue
<1>6. QED BY <1>1, <1>2, <1>3, <1>4, <1>5, NoJobType, QuietKeeps

LEMMA RefusalTrue == ASSUME IInv, Truth, NEW t \in Threads, Refusal(t) PROVE Truth'
<1>1. shown' = shown /\ bindings' \subseteq bindings BY DEF Refusal, laptop
<1>2. QED BY <1>1, NoCallType, NoCallFits, TakesTrue DEF Refusal, Fails

LEMMA ReadTrue == ASSUME IInv, Truth, NEW t \in Threads, Read(t) PROVE Truth'
<1>1. call[t].b \in Backends /\ Job(t) \in JobType BY Facts DEF Read, At, Reviewed
<1>2. PICK pc \in {"done", "identify"}, n \in Nat :
        /\ Labelled(t, pc, n) /\ (pc = "identify" => call[t].b = "sim")
        /\ AnswersNamed(call[t].b) => n = Job(t).life
  <2>1. CASE AnswersNamed(call[t].b)
    <3>1. Job(t).life \in Nat BY <1>1, SessionAssumption DEF JobType
    <3>2. Labelled(t, "done", Job(t).life) BY <2>1 DEF Read, AnswersNamed
    <3>3. QED BY <3>1, <3>2
  <2>2. CASE ~AnswersNamed(call[t].b) /\ call[t].b = "sim"
    <3>1. Labelled(t, "identify", 0) BY <2>2 DEF Read
    <3>2. QED BY <2>2, <3>1
  <2>3. CASE ~AnswersNamed(call[t].b) /\ call[t].b # "sim"
    <3>1. \A n \in 0..boot : n \in Nat BY Named
    <3>2. QED BY <2>3, <3>1 DEF Read
  <2>4. QED BY <2>1, <2>2, <2>3
<1> DEFINE c == Label(pc, call[t].b, n, Job(t).life)
<1>3. /\ c \in CallType /\ c.pc = pc /\ c.b = call[t].b /\ c.name = n
      /\ c.served = Job(t).life
  BY <1>1, LabelType
<1>4. call' = [call EXCEPT ![t] = c] BY <1>2 DEF Labelled, Label
<1>5. Says(c) BY <1>2, <1>3 DEF Says
<1>6. shown' = shown /\ bindings' \subseteq bindings BY DEF Read, laptop
<1>7. QED BY <1>2, <1>3, <1>4, <1>5, <1>6, TakesTrue DEF Read

(* An answer that names a process is taken only from the one asked before.  *)
LEMMA SucceedsTrue ==
  ASSUME IInv, NEW t \in Threads, Succeeds(t), ~Changed(t), call[t].b \in Backends
  PROVE  \E c \in CallType : call' = [call EXCEPT ![t] = c] /\ c.pc = "done" /\ Says(c)
<1> DEFINE c == Label("done", call[t].b, call[t].name, Job(t).life)
<1>1. call[t].name \in Nat BY Facts DEF CallType
<1>2. /\ c \in CallType /\ c.pc = "done" /\ c.b = call[t].b /\ c.name = call[t].name
      /\ c.served = Job(t).life
  BY <1>1, LabelType
<1>3. call' = [call EXCEPT ![t] = c] BY DEF Succeeds, Labelled, Label
<1>4. Says(c) BY <1>2 DEF Says, Changed
<1>5. QED BY <1>2, <1>3, <1>4

LEMMA ExecutedTrue == ASSUME IInv, Truth, NEW t \in Threads, Executed(t) PROVE Truth'
<1>1. call[t].b \in Backends BY Facts DEF Executed, At, Reviewed
<1>2. PICK c \in CallType :
        call' = [call EXCEPT ![t] = c] /\ c.pc \in {"idle", "done"} /\ Says(c)
  <2>1. CASE Fails(t) BY <2>1, NoCallType, NoCallFits DEF Fails
  <2>2. CASE ~Changed(t) /\ Succeeds(t) BY <1>1, <2>2, SucceedsTrue
  <2>3. QED BY <2>1, <2>2 DEF Executed
<1>3. shown' = shown /\ bindings' \subseteq bindings BY DEF Executed
<1>4. QED BY <1>2, <1>3, TakesTrue DEF Executed

LEMMA PreviewedTrue == ASSUME IInv, Truth, NEW t \in Threads, Previewed(t) PROVE Truth'
<1>1. /\ call[t].b \in Backends /\ call[t].try \in 1..2 /\ Job(t) = jobs[t][call[t].try]
      /\ Job(t) \in JobType /\ Job(t).verb = "preview" /\ Job(t).id \in Ids
      /\ At(t, "sent") /\ Job(t).st = "ok" /\ Takes(t) /\ UNCHANGED upstream
  BY Facts DEF Previewed, At, Matched, Works, Reviewed
<1>2. CASE Fails(t) /\ UNCHANGED <<bindings, shown>>
  <2>1. bindings' \subseteq bindings BY <1>2
  <2>2. QED BY <1>1, <1>2, <2>1, NoCallType, NoCallFits, TakesTrue DEF Fails
<1>3. CASE /\ ~Changed(t) /\ Succeeds(t) /\ shown' = shown \cup {Job(t).id}
           /\ bindings' = bindings \cup {<<Job(t).id, call[t].b, call[t].name>>}
  <2>1. PICK c \in CallType : call' = [call EXCEPT ![t] = c] /\ c.pc = "done" /\ Says(c)
    BY <1>1, <1>3, SucceedsTrue
  <2>2. StoredBy(plans[Job(t).id], Job(t)) /\ Job(t).b = call[t].b
    BY <1>1, TruthFacts DEF True, Fits, At
  <2>3. UNCHANGED <<life, native, plans, receipts, forgotten, moves>> BY <1>1 DEF upstream
  <2>4. PlansStay BY <2>3 DEF PlansStay
  <2>5. Stored' BY <1>3, <2>2, <2>3 DEF Truth, Stored, StoredBy
  <2>6. BoundIsHeld'
    <3> SUFFICES ASSUME NEW x \in bindings', AnswersNamed(x[2])'
                 PROVE  plans[x[1]].b = x[2] /\ plans[x[1]].life = x[3]
      BY <2>3 DEF BoundIsHeld
    <3>1. AnswersNamed(x[2]) BY <2>3 DEF AnswersNamed
    <3>2. CASE x \in bindings BY <3>1, <3>2 DEF Truth, BoundIsHeld
    <3>3. CASE x = <<Job(t).id, call[t].b, call[t].name>>
      <4>1. x[1] = Job(t).id /\ x[2] = call[t].b /\ x[3] = call[t].name BY <3>3
      <4>2. QED BY <1>3, <2>2, <3>1, <4>1 DEF Changed, StoredBy
    <3>4. QED BY <1>3, <3>2, <3>3
  <2>7. jobs' = [jobs EXCEPT ![t][call[t].try] = NoJob] BY <1>1 DEF Takes
  <2>8. Ran' BY <1>1, <2>3, <2>4, <2>7, NoJobType, RanStays
  <2>9. Fits(c, jobs'[t][c.try], jobs'[t][2]) BY <2>1 DEF Fits
  <2>10. True(NoJob, plans', life', shown') BY NoJobType, NoneIsTrue
  <2>11. QED
    BY <1>1, <1>3, <2>1, <2>3, <2>4, <2>5, <2>6, <2>7, <2>8, <2>9, <2>10, NoJobType, TruthKeeps
<1>4. QED BY <1>2, <1>3 DEF Previewed

-----------------------------------------------------------------------------
(* The steps of the gateway. *)
LEMMA WorkTrue ==
  ASSUME IInv, Truth, PlansStay, UNCHANGED <<life, native, call, shown>>,
         NEW t \in Threads, NEW k \in 1..2, NEW j \in JobType,
         jobs' = [jobs EXCEPT ![t][k] = j], jobs[t][k].st # "none",
         j.st # "none" => j.b = jobs[t][k].b,
         True(j, plans', life', shown'), Stored', Ran', BoundIsHeld'
  PROVE  Truth'
<1>1. call[t] \in CallType /\ call[t].try \in 1..2 /\ call' = [call EXCEPT ![t] = call[t]]
  BY Facts, TruthFacts
<1>2. \A n \in 1..2 : jobs'[t][n] = IF n = k THEN j ELSE jobs[t][n] BY TruthFacts
<1>3. Fits(call[t], jobs[t][call[t].try], jobs[t][2]) BY TruthFacts
<1>4. Fits(call[t], jobs'[t][call[t].try], jobs'[t][2])
  BY <1>1, <1>2, <1>3 DEF Fits
<1>5. Says(call[t]) BY DEF Says, Truth, AnswersNameTheirProcess, At
<1>6. shown \subseteq shown' OBVIOUS
<1>7. QED BY <1>1, <1>4, <1>5, <1>6, TruthKeeps

(* What an answer leaves of the work that gave it. *)
LEMMA AnswerLeaves ==
  ASSUME IInv, NEW t \in Threads, NEW k \in 1..2, NEW st \in {"ok", "refused", "spent"},
         NEW i \in Ids \cup {"none"}, Answers(t, k, st, i)
  PROVE  \E j \in JobType :
           /\ jobs' = [jobs EXCEPT ![t][k] = j]
           /\ j.st # "none" => /\ j.st = st /\ j.id = i /\ j.verb = jobs[t][k].verb
                               /\ j.b = jobs[t][k].b /\ j.life = jobs[t][k].life
<1>1. jobs[t][k] \in JobType /\ jobs \in [Threads -> [1..2 -> JobType]]
  BY Facts DEF IInv, Typed, TypeOK, JobType
<1>2. CASE Listens(t, k)
  <2> DEFINE j == [jobs[t][k] EXCEPT !.st = st, !.id = i]
  <2>1. jobs' = [jobs EXCEPT ![t][k] = j] BY <1>2 DEF Answers
  <2>2. /\ j \in JobType /\ j.st = st /\ j.id = i /\ j.verb = jobs[t][k].verb
        /\ j.b = jobs[t][k].b /\ j.life = jobs[t][k].life
    BY <1>1 DEF JobType
  <2>3. QED BY <2>1, <2>2
<1>3. CASE ~Listens(t, k)
  <2>1. jobs' = [jobs EXCEPT ![t][k] = NoJob] BY <1>3 DEF Answers
  <2>2. QED BY <2>1, NoJobType
<1>4. QED BY <1>2, <1>3

LEMMA ServeReadTrue ==
  ASSUME IInv, Truth, NEW t \in Threads, NEW k \in 1..2, ServeRead(t, k) PROVE Truth'
<1>1. /\ jobs[t][k].st = "queued" /\ jobs[t][k].verb = "read" /\ Answers(t, k, "ok", "none")
      /\ UNCHANGED <<upstream, shown, call>> /\ bindings' \subseteq bindings
  BY DEF ServeRead, laptop
<1>2. PICK j \in JobType :
        /\ jobs' = [jobs EXCEPT ![t][k] = j]
        /\ j.st # "none" => /\ j.st = "ok" /\ j.id = "none" /\ j.verb = jobs[t][k].verb
                            /\ j.b = jobs[t][k].b /\ j.life = jobs[t][k].life
  BY <1>1, AnswerLeaves
<1>3. PlansStay /\ Stored' /\ BoundIsHeld' BY <1>1, SameStays
<1>4. UNCHANGED <<life, native, plans, receipts, forgotten, moves>> BY <1>1 DEF upstream
<1>5. Ran' BY <1>1, <1>2, <1>3, <1>4, RanStays
<1>6. True(j, plans', life', shown')
  <2>1. CASE j.st = "none" BY <2>1, NoneIsTrue
  <2>2. CASE j.st # "none" BY <1>1, <1>2, <2>2 DEF True, Live
  <2>3. QED BY <2>1, <2>2
<1>7. QED BY <1>1, <1>2, <1>3, <1>4, <1>5, <1>6, WorkTrue

LEMMA ServePreviewTrue ==
  ASSUME IInv, Truth, NEW t \in Threads, NEW k \in 1..2, ServePreview(t, k) PROVE Truth'
<1>1. /\ jobs[t][k].st = "queued" /\ jobs[t][k].verb = "preview"
      /\ UNCHANGED <<life, native, receipts, forgotten, moves, shown, call, bindings>>
  BY DEF ServePreview, laptop
<1> DEFINE g == jobs[t][k].b
<1>2. g \in Backends /\ jobs[t][k].life = life[g] /\ life[g] \in Nat
  <2>1. g \in Backends BY <1>1, Facts DEF Works
  <2>2. QED BY <1>1, <2>1, Named, TruthFacts DEF True, Live
<1>3. CASE \E i \in Ids :
             /\ plans[i].st = "new" /\ Answers(t, k, "ok", i)
             /\ plans' = [plans EXCEPT ![i] = [st |-> "ready", b |-> g, life |-> life[g]]]
  <2>1. PICK i \in Ids :
          /\ plans[i].st = "new" /\ Answers(t, k, "ok", i)
          /\ plans' = [plans EXCEPT ![i] = [st |-> "ready", b |-> g, life |-> life[g]]]
    BY <1>3
  <2>2. PICK j \in JobType :
          /\ jobs' = [jobs EXCEPT ![t][k] = j]
          /\ j.st # "none" => /\ j.st = "ok" /\ j.id = i /\ j.verb = jobs[t][k].verb
                              /\ j.b = g /\ j.life = jobs[t][k].life
    BY <2>1, AnswerLeaves
  <2>3. /\ plans'[i].st = "ready" /\ plans'[i].b = g /\ plans'[i].life = life[g]
        /\ \A n \in Ids : n # i => plans'[n] = plans[n]
    BY <2>1, TruthFacts
  <2>4. PlansStay BY <1>1, <2>1, <2>3 DEF PlansStay
  <2>5. Stored'
    BY <1>1, <1>2, <2>1, <2>3 DEF Truth, Stored
  <2>6. BoundIsHeld'
    <3>1. \A x \in bindings : x[1] \in Ids /\ plans[x[1]].st # "new"
      BY DEF IInv, Bound, Typed, TypeOK, Truth, Stored
    <3>2. \A x \in bindings : plans'[x[1]] = plans[x[1]] BY <2>1, <2>3, <3>1
    <3>3. QED BY <1>1, <3>2 DEF Truth, BoundIsHeld, AnswersNamed
  <2>7. Ran' BY <1>1, <2>2, <2>4, RanStays
  <2>8. True(j, plans', life', shown')
    <3>1. CASE j.st = "none" BY <3>1, NoneIsTrue
    <3>2. CASE j.st # "none"
      BY <1>1, <1>2, <2>2, <2>3, <3>2 DEF True, Live, StoredBy
    <3>3. QED BY <3>1, <3>2
  <2>9. QED BY <1>1, <2>2, <2>4, <2>5, <2>6, <2>7, <2>8, WorkTrue
<1>4. CASE Answers(t, k, "refused", "none") /\ UNCHANGED plans
  <2>1. PICK j \in JobType :
          /\ jobs' = [jobs EXCEPT ![t][k] = j]
          /\ j.st # "none" => /\ j.st = "refused" /\ j.id = "none" /\ j.verb = jobs[t][k].verb
                              /\ j.b = g /\ j.life = jobs[t][k].life
    BY <1>4, AnswerLeaves
  <2>2. PlansStay BY <1>1, <1>4 DEF PlansStay
  <2>3. Stored' BY <1>1, <1>4 DEF Truth, Stored
  <2>4. BoundIsHeld' BY <1>1, <1>4 DEF Truth, BoundIsHeld, AnswersNamed
  <2>5. Ran' BY <1>1, <2>1, <2>2, RanStays
  <2>6. True(j, plans', life', shown')
    <3>1. CASE j.st = "none" BY <3>1, NoneIsTrue
    <3>2. CASE j.st # "none" BY <1>1, <2>1, <3>2 DEF True, Live
    <3>3. QED BY <3>1, <3>2
  <2>7. QED BY <1>1, <2>1, <2>2, <2>3, <2>4, <2>5, <2>6, WorkTrue
<1>5. QED BY <1>3, <1>4 DEF ServePreview

(* A plan taken keeps its process. *)
LEMMA TakenStays ==
  ASSUME IInv, Truth, NEW r \in Ids, plans[r].st = "ready",
         plans' = [plans EXCEPT ![r].st = "gone"],
         \A i \in Ids : i # r => moves'[i] = moves[i],
         UNCHANGED <<life, native, bindings, shown>>
  PROVE  /\ PlansStay /\ Stored' /\ BoundIsHeld'
         /\ plans'[r].st = "gone" /\ plans'[r].b = plans[r].b
<1>1. /\ plans'[r].st = "gone" /\ plans'[r].b = plans[r].b /\ plans'[r].life = plans[r].life
      /\ \A i \in Ids : i # r => plans'[i] = plans[i]
  BY PlanFacts DEF PlanType
<1>2. PlansStay BY <1>1 DEF PlansStay
<1>3. Stored' BY <1>1 DEF Truth, Stored
<1>4. \A i \in Ids : plans'[i].b = plans[i].b /\ plans'[i].life = plans[i].life
  BY <1>1
<1>5. \A x \in bindings : x[1] \in Ids BY DEF IInv, Typed, TypeOK
<1>6. BoundIsHeld' BY <1>4, <1>5 DEF Truth, BoundIsHeld, AnswersNamed
<1>7. QED BY <1>1, <1>2, <1>3, <1>6

(* A sequence that is not kept where nothing runs has not been moved by the *)
(* process that stored it, or so many have run since that it forgot.        *)
LEMMA RefusedIsUnmoved ==
  ASSUME IInv, Truth, NEW t \in Threads, NEW k \in 1..2, jobs[t][k].st = "queued",
         jobs[t][k].verb \in Modes, ~Busy(jobs[t][k].b),
         ~Kept(jobs[t][k].id, jobs[t][k].b),
         jobs[t][k].id \in Sequences \ forgotten, StoredBy(plans[jobs[t][k].id], jobs[t][k])
  PROVE  moves[jobs[t][k].id] = 0
<1> DEFINE r == jobs[t][k].id
           g == jobs[t][k].b
<1>1. r \in Ids /\ plans[r].b = g /\ plans[r].st # "new" /\ plans[r].life = jobs[t][k].life
  BY SessionAssumption DEF StoredBy
<1>2. plans[r].life = life[plans[r].b]
  <2>1. True(jobs[t][k], plans, life, shown) BY TruthFacts
  <2>2. QED BY <1>1, <2>1 DEF True, Live
<1>3. CASE moves[r] = 1
  <2>1. ~Lasting(r) BY <1>1 DEF Kept, KeptIn, Lasting
  <2>2. Runs(r) BY <1>2, <1>3, <2>1 DEF Truth, Ran
  <2>3. PICK u \in Threads, n \in 1..2 : jobs[u][n].st = "running" /\ jobs[u][n].id = r
    BY <2>2 DEF Runs
  <2>4. True(jobs[u][n], plans, life, shown) BY <2>3, TruthFacts
  <2>5. jobs[u][n].b = g BY <1>1, <2>3, <2>4 DEF True
  <2>6. QED BY <2>3, <2>5 DEF Busy
<1>4. moves[r] \in 0..1 BY <1>1, PlanFacts
<1>5. QED BY <1>3, <1>4

LEMMA ServeExecuteTrue ==
  ASSUME IInv, Truth, NEW t \in Threads, NEW k \in 1..2, ServeExecute(t, k) PROVE Truth'
<1> DEFINE r == jobs[t][k].id
           g == jobs[t][k].b
<1>1. /\ jobs[t][k].st = "queued" /\ jobs[t][k].verb \in Modes /\ ~Busy(g)
      /\ UNCHANGED <<life, native, receipts, forgotten, shown, call, bindings>>
  BY DEF ServeExecute, laptop
<1>2. /\ jobs[t][k] \in JobType /\ r \in shown /\ r \in Ids /\ g \in Backends
      /\ jobs[t][k].life = life[g]
  <2>1. jobs[t][k] \in JobType /\ g \in Backends BY <1>1, Facts DEF Works
  <2>2. True(jobs[t][k], plans, life, shown) BY TruthFacts
  <2>3. r \in shown /\ jobs[t][k].life = life[g] BY <1>1, <2>2 DEF True, Live
  <2>4. QED BY <2>1, <2>3 DEF IInv, Typed, TypeOK
<1>3. ASSUME NEW st \in {"ok", "refused", "spent"}, Answers(t, k, st, r), UNCHANGED moves,
             PlansStay, Stored', BoundIsHeld'
      PROVE  Truth'
  <2>1. PICK j \in JobType :
          /\ jobs' = [jobs EXCEPT ![t][k] = j]
          /\ j.st # "none" => /\ j.st = st /\ j.id = r /\ j.verb = jobs[t][k].verb
                              /\ j.b = g /\ j.life = jobs[t][k].life
    BY <1>2, <1>3, AnswerLeaves
  <2>2. Ran' BY <1>1, <1>3, <2>1, RanStays
  <2>3. True(j, plans', life', shown')
    <3>1. CASE j.st = "none" BY <3>1, NoneIsTrue
    <3>2. CASE j.st # "none" BY <1>1, <1>2, <1>3, <2>1, <3>2 DEF True, Live
    <3>3. QED BY <3>1, <3>2
  <2>4. QED BY <1>1, <1>3, <2>1, <2>2, <2>3, WorkTrue
<1>4. CASE UNCHANGED <<plans, moves>> /\ \E st \in {"ok", "refused", "spent"} : Answers(t, k, st, r)
  <2>1. PlansStay BY <1>4 DEF PlansStay
  <2>2. Stored' BY <1>1, <1>4 DEF Truth, Stored
  <2>3. BoundIsHeld' BY <1>1, <1>4 DEF Truth, BoundIsHeld, AnswersNamed
  <2>4. QED BY <1>3, <1>4, <2>1, <2>2, <2>3
<1>5. CASE /\ Held(r, g) /\ plans' = [plans EXCEPT ![r].st = "gone"]
           /\ Starts(t, k) \/ (Answers(t, k, "refused", r) /\ UNCHANGED moves)
  <2>1. plans[r].st = "ready" /\ plans[r].b = g /\ moves[r] = 0
    BY <1>2, <1>5 DEF Held, IInv, Routed
  <2>2. CASE Answers(t, k, "refused", r) /\ UNCHANGED moves
    <3>1. PlansStay /\ Stored' /\ BoundIsHeld'
      BY <1>1, <1>2, <1>5, <2>1, <2>2, TakenStays
    <3>2. QED BY <1>3, <2>2, <3>1
  <2>3. CASE Starts(t, k)
    <3> DEFINE j == [jobs[t][k] EXCEPT !.st = "running"]
    <3>1. moves' = [moves EXCEPT ![r] = @ + 1] BY <2>3 DEF Starts
    <3>2. \A i \in Ids : i # r => moves'[i] = moves[i] BY <1>2, <3>1, TruthFacts
    <3>3. PlansStay /\ Stored' /\ BoundIsHeld' /\ plans'[r].st = "gone" /\ plans'[r].b = g
      BY <1>1, <1>2, <1>5, <2>1, <3>2, TakenStays
    <3>4. jobs' = [jobs EXCEPT ![t][k] = j] BY <2>3, TruthFacts DEF Starts
    <3>5. /\ j \in JobType /\ j.st = "running" /\ j.verb \in Modes /\ j.id = r /\ j.b = g
          /\ j.life = life[g]
      BY <1>1, <1>2 DEF JobType, Live
    <3>6. \A i \in Sequences : moves'[i] = moves[i] \/ i = r
      BY <3>2, SessionAssumption
    <3>7. Ran' BY <1>1, <3>3, <3>4, <3>5, <3>6, RanStays
    <3>8. True(j, plans', life', shown')
      BY <1>1, <1>2, <3>3, <3>5 DEF True
    <3>9. QED BY <1>1, <3>3, <3>4, <3>5, <3>7, <3>8, WorkTrue
  <2>4. QED BY <1>5, <2>2, <2>3
<1>6. QED BY <1>4, <1>5 DEF ServeExecute, Replays

LEMMA FinishTrue ==
  ASSUME IInv, Truth, NEW t \in Threads, NEW k \in 1..2, Finish(t, k) PROVE Truth'
<1> DEFINE r == jobs[t][k].id
<1>1. /\ jobs[t][k].st = "running" /\ jobs[t][k].verb \in Modes /\ r \in Ids /\ r \in shown
      /\ Answers(t, k, "ok", r)
  BY Facts, TruthFacts DEF Finish, Works, True
<1>2. /\ UNCHANGED <<life, native, plans, moves, shown, call, bindings>>
      /\ receipts \subseteq receipts' /\ forgotten' = forgotten
      /\ \A i \in Sequences : jobs[t][k].id = i => Lasting(i)'
  BY <1>1 DEF Finish, laptop, Lasting
<1>3. PICK j \in JobType :
        /\ jobs' = [jobs EXCEPT ![t][k] = j]
        /\ j.st # "none" => /\ j.st = "ok" /\ j.id = r /\ j.verb = jobs[t][k].verb
                            /\ j.b = jobs[t][k].b /\ j.life = jobs[t][k].life
  BY <1>1, AnswerLeaves
<1>4. PlansStay BY <1>2 DEF PlansStay
<1>5. Stored' BY <1>2 DEF Truth, Stored
<1>6. BoundIsHeld' BY <1>2 DEF Truth, BoundIsHeld, AnswersNamed
<1>7. Ran' BY <1>2, <1>3, <1>4, RanStays
<1>8. True(j, plans', life', shown')
  <2>1. CASE j.st = "none" BY <2>1, NoneIsTrue
  <2>2. CASE j.st # "none" BY <1>1, <1>2, <1>3, <2>2 DEF True, Live
  <2>3. QED BY <2>1, <2>2
<1>9. QED BY <1>1, <1>2, <1>3, <1>4, <1>5, <1>6, <1>7, <1>8, WorkTrue

(* A process that ends takes its work with it, and what it stored is of a   *)
(* process that is no more.                                                 *)
LEMMA RestartTrue == ASSUME IInv, Truth, NEW b \in Backends, Restart(b) PROVE Truth'
<1>1. /\ UNCHANGED <<native, moves, shown, call, bindings>> /\ shown \subseteq shown'
      /\ receipts' = {x \in receipts : plans[x[1]].b # b}
      /\ forgotten' = {i \in forgotten : plans[i].b # b}
  BY DEF Restart, laptop
<1>2. /\ \A g \in Backends : life[g] \in Nat /\ (g # b => life'[g] = life[g])
      /\ life'[b] = life[b] + 1
  BY Named DEF Restart, IInv, Typed, TypeOK
<1>3. \A i \in Ids :
        /\ plans'[i].b = plans[i].b /\ plans'[i].life = plans[i].life
        /\ plans'[i].st = IF Held(i, b) THEN "gone" ELSE plans[i].st
        /\ plans[i].life \in Nat
  BY PlanFacts DEF Restart, PlanType
<1>4. \A t \in Threads, k \in 1..2 :
        jobs'[t][k] = IF jobs[t][k].b = b /\ jobs[t][k].st \in Live THEN NoJob ELSE jobs[t][k]
  BY DEF Restart
<1>5. PlansStay BY <1>1, <1>3 DEF PlansStay, Held
<1>6. Stored'
  <2>1. ASSUME NEW i \in Ids, plans'[i].st # "new"
        PROVE  plans'[i].b \in Backends /\ plans'[i].life <= life'[plans'[i].b]
    BY <1>2, <1>3, <2>1 DEF Truth, Stored, Held
  <2>2. ASSUME NEW i \in Ids, plans'[i].st = "ready"
        PROVE  plans'[i].life = life'[plans'[i].b]
    BY <1>2, <1>3, <2>1, <2>2 DEF Truth, Stored, Held
  <2>3. \A i \in Ids : plans'[i].st = "new" => plans'[i].b = "none"
    BY <1>3 DEF Truth, Stored
  <2>4. \A i \in shown' : plans'[i].st # "new"
    BY <1>1, <1>5 DEF Truth, Stored, PlansStay, IInv, Typed, TypeOK
  <2>5. QED BY <2>1, <2>2, <2>3, <2>4 DEF Stored
<1>7. Ran'
  <2> SUFFICES ASSUME NEW i \in Sequences, moves[i] = 1, plans'[i].life = life'[plans'[i].b]
               PROVE  Lasting(i)' \/ Runs(i)'
    BY <1>1 DEF Ran
  <2>1. i \in Ids /\ plans[i].st = "gone" /\ plans[i].b \in Backends
        /\ plans[i].life <= life[plans[i].b]
    BY SessionAssumption DEF IInv, Routed, Typed, TypeOK, Pi, Truth, Stored
  <2>2. plans[i].b # b BY <1>2, <1>3, <2>1
  <2>3. Lasting(i) \/ Runs(i) BY <1>2, <1>3, <2>1, <2>2 DEF Truth, Ran
  <2>4. CASE Lasting(i) BY <1>1, <2>2, <2>4 DEF Lasting
  <2>5. CASE Runs(i)
    <3>1. PICK u \in Threads, n \in 1..2 : jobs[u][n].st = "running" /\ jobs[u][n].id = i
      BY <2>5 DEF Runs
    <3>2. jobs[u][n].b = plans[i].b BY <3>1, TruthFacts DEF True
    <3>3. QED BY <1>4, <2>2, <3>1, <3>2 DEF Runs
  <2>6. QED BY <2>3, <2>4, <2>5
<1>8. BoundIsHeld'
  <2>1. \A x \in bindings : x[1] \in Ids BY DEF IInv, Typed, TypeOK
  <2>2. QED BY <1>1, <1>3, <2>1 DEF Truth, BoundIsHeld, AnswersNamed
<1>9. AnswersNameTheirProcess'
  BY <1>1 DEF Truth, AnswersNameTheirProcess, AnswersNamed, At
<1>10. ASSUME NEW t \in Threads, NEW k \in 1..2
       PROVE  True(jobs'[t][k], plans', life', shown')
  <2>1. CASE jobs'[t][k].st = "none" BY <2>1, NoneIsTrue
  <2>2. CASE jobs'[t][k].st # "none"
    <3>1. jobs'[t][k] = jobs[t][k] /\ (jobs[t][k].st \in Live => jobs[t][k].b # b)
      BY <1>4, <2>2, NoJobType
    <3>2. jobs[t][k] \in JobType /\ Works(jobs[t][k], shown, moves) BY Facts
    <3>3. jobs[t][k].b \in Backends BY <2>2, <3>1, <3>2 DEF Works
    <3>4. jobs[t][k].st \in Live => life'[jobs[t][k].b] = life[jobs[t][k].b]
      BY <1>2, <3>1, <3>3
    <3>5. QED BY <1>1, <1>5, <2>2, <3>1, <3>2, <3>4, TruthFacts, TrueStays
  <2>3. QED BY <2>1, <2>2
<1>11. ASSUME NEW t \in Threads
       PROVE  Fits(call'[t], jobs'[t][call'[t].try], jobs'[t][2])
  <2>1. call[t].try \in 1..2 /\ Fits(call[t], jobs[t][call[t].try], jobs[t][2])
    BY Facts, TruthFacts
  <2>2. \A k \in 1..2 : jobs'[t][k] = jobs[t][k] \/ jobs'[t][k].st = "none"
    BY <1>4, NoJobType
  <2>3. QED BY <1>1, <2>1, <2>2 DEF Fits
<1>12. QED BY <1>6, <1>7, <1>8, <1>9, <1>10, <1>11 DEF Truth, Job

LEMMA AsideTrue ==
  ASSUME IInv, Truth, Expire \/ Reboot \/ Evict \/ UNCHANGED vars PROVE Truth'
<1>1. /\ UNCHANGED <<life, native, plans, jobs, call, shown, moves>>
      /\ bindings' \subseteq bindings
  BY DEF Expire, Reboot, Evict, vars, upstream, laptop
<1>2. Stored' BY <1>1 DEF Truth, Stored
<1>3. Ran'
  <2>1. ASSUME NEW i, Lasting(i) PROVE Lasting(i)'
    <3>1. CASE UNCHANGED <<receipts, forgotten>> BY <2>1, <3>1 DEF Lasting
    <3>2. CASE Evict
      <4>1. PICK x \in receipts :
              receipts' = receipts \ {x} /\ forgotten' = forgotten \cup {x[1]}
        BY <3>2 DEF Evict
      <4>2. CASE i \in forgotten BY <4>1, <4>2 DEF Lasting
      <4>3. ASSUME NEW mode \in Modes, <<i, mode>> \in receipts PROVE Lasting(i)'
        <5>1. CASE x = <<i, mode>> BY <4>1, <5>1 DEF Lasting
        <5>2. CASE x # <<i, mode>> BY <4>1, <4>3, <5>2 DEF Lasting
        <5>3. QED BY <5>1, <5>2
      <4>4. QED BY <2>1, <4>2, <4>3 DEF Lasting
    <3>3. QED BY <3>1, <3>2 DEF Expire, Reboot, vars, upstream
  <2>2. QED BY <1>1, <2>1 DEF Truth, Ran, Runs
<1>4. BoundIsHeld' /\ AnswersNameTheirProcess'
  BY <1>1 DEF Truth, BoundIsHeld, AnswersNameTheirProcess, AnswersNamed, At
<1>5. QED BY <1>1, <1>2, <1>3, <1>4 DEF Truth, Job

-----------------------------------------------------------------------------
LEMMA InitTrue == Init => Truth
<1> SUFFICES ASSUME Init PROVE Truth OBVIOUS
<1>1. /\ \A t \in Threads : call[t].pc = "idle" /\ call[t].try = 1
      /\ \A t \in Threads, k \in 1..2 : jobs[t][k].st = "none"
  BY DEF Init, NoCall, NoJob
<1>2. Stored /\ Ran BY SessionAssumption DEF Init, Stored, Ran
<1>3. BoundIsHeld /\ AnswersNameTheirProcess
  BY <1>1 DEF Init, BoundIsHeld, AnswersNameTheirProcess, At
<1>4. QED BY <1>1, <1>2, <1>3, NoneIsTrue DEF Truth, Fits, Job

LEMMA StepTrue == IInv /\ Truth /\ [Next]_vars => Truth'
<1> SUFFICES ASSUME IInv, Truth, [Next]_vars PROVE Truth' OBVIOUS
<1>1. ASSUME NEW t \in Threads, Thread(t) PROVE Truth'
  BY <1>1, AskTrue, HealthTrue, RequireTrue, SendTrue, BrokenTrue, RefusalTrue,
     PreviewedTrue, ExecutedTrue, ReadTrue, IdentifyTrue
  DEF Thread
<1>2. ASSUME NEW t \in Threads, NEW k \in 1..2, Gateway(t, k) PROVE Truth'
  BY <1>2, ServeReadTrue, ServePreviewTrue, ServeExecuteTrue, FinishTrue DEF Gateway
<1>3. ASSUME NEW b \in Backends, Restart(b) PROVE Truth'
  BY <1>3, RestartTrue
<1>4. CASE Expire \/ Reboot \/ Evict \/ UNCHANGED vars BY <1>4, AsideTrue
<1>5. QED BY <1>1, <1>2, <1>3, <1>4 DEF Next

(* Only the gateway answers work that is queued, and only an execution is   *)
(* answered that it did not run or ran elsewhere.                           *)
LEMMA OthersAnswerOtherwise ==
  ASSUME IInv, NEW t \in Threads, NEW k \in 1..2, jobs[t][k].st = "queued",
         jobs[t][k].verb \in Modes, [Next]_vars, ~ServeExecute(t, k)
  PROVE  jobs'[t][k].st \notin {"refused", "spent"}
<1>1. jobs \in [Threads -> [1..2 -> JobType]] BY DEF IInv, Typed, TypeOK, JobType
<1>2. ASSUME NEW u \in Threads, NEW n \in 1..2, NEW j, j.st \notin {"refused", "spent"},
             jobs' = [jobs EXCEPT ![u][n] = j]
      PROVE  jobs'[t][k].st \notin {"refused", "spent"}
  BY <1>1, <1>2
<1>3. CASE UNCHANGED jobs BY <1>3
<1>4. ASSUME NEW u \in Threads, Send(u) PROVE jobs'[t][k].st \notin {"refused", "spent"}
  <2>1. call[u].try \in 1..2 BY Facts
  <2>2. QED BY <1>2, <1>3, <1>4, <2>1 DEF Send
<1>5. ASSUME NEW u \in Threads, Broken(u) PROVE jobs'[t][k].st \notin {"refused", "spent"}
  <2>1. call[u].try \in 1..2 BY Facts
  <2>2. jobs' = [jobs EXCEPT ![u][call[u].try] =
                   IF jobs[u][call[u].try].st \in Live THEN jobs[u][call[u].try] ELSE NoJob]
    BY <1>1, <1>5, <2>1 DEF Broken
  <2>3. (IF jobs[u][call[u].try].st \in Live THEN jobs[u][call[u].try] ELSE NoJob).st
          \notin {"refused", "spent"}
    BY NoJobType DEF Live
  <2>4. QED BY <1>2, <2>1, <2>2, <2>3
<1>6. ASSUME NEW u \in Threads, Takes(u) PROVE jobs'[t][k].st \notin {"refused", "spent"}
  <2>1. call[u].try \in 1..2 BY Facts
  <2>2. QED BY <1>2, <1>6, <2>1, NoJobType DEF Takes
<1>7. ASSUME NEW u \in Threads, Thread(u) PROVE jobs'[t][k].st \notin {"refused", "spent"}
  BY <1>3, <1>4, <1>5, <1>6, <1>7
  DEF Thread, Ask, Health, Require, Refusal, Previewed, Executed, Read, Identify
<1>8. ASSUME NEW u \in Threads, NEW n \in 1..2, Gateway(u, n)
      PROVE  jobs'[t][k].st \notin {"refused", "spent"}
  <2>1. \E j : jobs' = [jobs EXCEPT ![u][n] = j]
    <3>1. \A st, i : Answers(u, n, st, i) => \E j : jobs' = [jobs EXCEPT ![u][n] = j]
      BY <1>1 DEF Answers
    <3>2. Starts(u, n) => \E j : jobs' = [jobs EXCEPT ![u][n] = j] BY <1>1 DEF Starts
    <3>3. QED
      BY <1>8, <3>1, <3>2
      DEF Gateway, ServeRead, ServePreview, ServeExecute, Replays, Finish
  <2>2. CASE ~(u = t /\ n = k) BY <1>1, <2>1, <2>2
  <2>3. CASE u = t /\ n = k
    BY <1>8, <2>3 DEF Gateway, ServeRead, ServePreview, Finish
  <2>4. QED BY <2>2, <2>3
<1>9. ASSUME NEW b \in Backends, Restart(b) PROVE jobs'[t][k].st \notin {"refused", "spent"}
  BY <1>9, NoJobType DEF Restart
<1>10. CASE Expire \/ Reboot \/ Evict \/ UNCHANGED vars
  BY <1>3, <1>10 DEF Expire, Reboot, Evict, vars
<1>11. QED BY <1>7, <1>8, <1>9, <1>10 DEF Next

LEMMA StepRefusesTruly == IInv /\ Truth /\ [Next]_vars => RefusalIsTrue
<1> SUFFICES ASSUME IInv, Truth, [Next]_vars PROVE RefusalIsTrue OBVIOUS
<1> SUFFICES ASSUME NEW t \in Threads, NEW k \in 1..2,
                    jobs[t][k].st = "queued", jobs[t][k].verb \in Modes,
                    jobs[t][k].id \in Sequences \ forgotten,
                    plans[jobs[t][k].id].b = jobs[t][k].b,
                    plans[jobs[t][k].id].life = jobs[t][k].life
             PROVE  /\ jobs'[t][k].st = "refused" => moves[jobs[t][k].id] = 0 /\ moves' = moves
                    /\ jobs'[t][k].st = "spent" => moves[jobs[t][k].id] = 1
  BY DEF RefusalIsTrue
<1> DEFINE r == jobs[t][k].id
           g == jobs[t][k].b
<1>1. CASE ~ServeExecute(t, k) BY <1>1, OthersAnswerOtherwise
<1>2. CASE ServeExecute(t, k)
  <2>1. jobs \in [Threads -> [1..2 -> JobType]] /\ jobs[t][k] \in JobType
    BY Facts, TruthFacts
  <2>2. r \in Ids /\ ~Busy(g) BY <1>2, SessionAssumption DEF ServeExecute
  <2>3. StoredBy(plans[r], jobs[t][k])
    <3>1. True(jobs[t][k], plans, life, shown) BY TruthFacts
    <3>2. r \in shown BY <3>1 DEF True
    <3>3. QED BY <3>2 DEF StoredBy, Truth, Stored
  <2>4. \A st : Answers(t, k, st, r) => jobs'[t][k].st \in {st, "none"}
    BY <2>1, NoJobType DEF Answers, JobType
  <2>5. CASE Replays(t, k)
    <3>1. jobs'[t][k].st \in {"ok", "spent", "none"} BY <2>4, <2>5 DEF Replays
    <3>2. moves[r] = 1 BY <2>5 DEF Replays, Kept, KeptIn, IInv, Receipts
    <3>3. QED BY <3>1, <3>2
  <2>6. CASE ~Kept(r, g) /\ UNCHANGED moves /\ Answers(t, k, "refused", r)
    <3>1. moves[r] = 0 BY <2>2, <2>3, <2>6, RefusedIsUnmoved
    <3>2. QED BY <2>4, <2>6, <3>1
  <2>7. CASE Starts(t, k)
    <3>1. jobs'[t][k].st = "running" BY <2>1, <2>7 DEF Starts, JobType
    <3>2. QED BY <3>1
  <2>8. QED BY <1>2, <2>5, <2>6, <2>7 DEF ServeExecute
<1>3. QED BY <1>1, <1>2

(* A binding names the process that holds its route, a gateway that refuses *)
(* a sequence it reviewed did not run it, or ran it in the mode it says, or *)
(* pushed its receipt out since, and an answer is named after the process   *)
(* that gave it; on every number of threads and backends, whichever of them *)
(* name their process, through restarts, reboots, lost answers and second   *)
(* attempts.                                                                *)
THEOREM AnswersAreTrue == Spec => RouteAnswersAreTrue
<1>1. Init => IInv /\ Truth BY InitHolds, InitTrue
<1>2. IInv /\ Truth /\ [Next]_vars => (IInv /\ Truth)' BY StepStays, StepTrue
<1>3. IInv /\ Truth => Labels BY DEF Labels, IInv, Typed, Truth
<1>4. IInv /\ Truth /\ [Next]_vars => RefusalIsTrue BY StepRefusesTruly
<1>5. QED BY <1>1, <1>2, <1>3, <1>4, PTL DEF Spec, RouteAnswersAreTrue
-----------------------------------------------------------------------------
(* Simulator and gateway.  A request the server has and whose caller waits  *)
(* is the last in the queue, and is the call; an answer the caller has not  *)
(* read yet finds the queue empty and, unless a drive pulls, the arm where  *)
(* the answer says.                                                         *)
Commands == {"health", "state", "move", "reset", "capture"}
SimAsking == {"health", "starting", "status", "report", "move", "reset"}
SimOps == {"none", "reconnect"} \cup SimAsking
StopPlaces == {"idle", "waits", "latched", "reads"}
Entry == [cmd : Commands, goal : Goals, live : BOOLEAN]
SimCallType ==
  [who : {"none", "arm", "camera"}, cmd : Commands \cup {"none"},
   st : {"none", "waits", "ok", "error"}, from : Nat, at : Goals]

SimTyped ==
  /\ process \in 1..Processes /\ engine \in Goals /\ settled \in BOOLEAN
  /\ queue \in Seq(Entry) /\ Len(queue) <= Queued
  /\ pin \in 0..process /\ simCall \in SimCallType /\ op \in SimOps
  /\ started \in BOOLEAN /\ stopped \in BOOLEAN /\ lease \in BOOLEAN
  /\ last \in [from : Nat, at : Goals] /\ last.from <= process
  /\ stopPc \in StopPlaces /\ (stopPc = "reads" <=> op = "report") /\ clean \in BOOLEAN

(* The call is the operation's, or the camera's. *)
Owned(c, o) ==
  /\ c.who = "none" <=> c.st = "none"
  /\ c.who = "none" => c = Simulator!NoCall
  /\ c.who = "arm" => o \in SimAsking /\ c.cmd = Simulator!Command[o]
  /\ c.who = "camera" => c.cmd = "capture"

Pending(c, q) ==
  /\ \A i \in 1..Len(q) : q[i].live => i = Len(q) /\ c.st = "waits" /\ q[i].cmd = c.cmd
  /\ c.st = "waits" => q # <<>> /\ q[Len(q)].live
  /\ c.st \in {"ok", "error"} => q = <<>>

(* The commands that move the arm, and those whose positions count. *)
Moving == {"move", "reset"}
Reporting == {"state"} \cup Moving

Answering(c, p, e, s) ==
  c.st \in {"ok", "error"} =>
    /\ c.from \in 1..p
    /\ c.from = p /\ s /\ c.st = "ok" /\ c.cmd \in Reporting => c.at = e
    /\ c.from = p /\ c.st = "error" /\ c.cmd \in Moving => ~s

Moved(c) == c.st \in {"ok", "error"} /\ c.cmd \in Moving

Shown ==
  /\ started => pin # 0 /\ last.from = pin
  /\ clean => \A i \in 1..Len(queue) : queue[i].live
  /\ clean /\ simCall.st \in {"ok", "error"} => simCall.from = process
  /\ clean /\ settled /\ last.from = process /\ ~Moved(simCall) => last.at = engine
  /\ stopped => op # "move"

SimInv ==
  /\ SimTyped /\ Owned(simCall, op) /\ Pending(simCall, queue)
  /\ Answering(simCall, process, engine, settled) /\ Shown

LEMMA SimCommand ==
  /\ DOMAIN Simulator!Command = SimAsking
  /\ Simulator!Command["health"] = "health" /\ Simulator!Command["starting"] = "state"
  /\ Simulator!Command["status"] = "state" /\ Simulator!Command["report"] = "state"
  /\ Simulator!Command["move"] = "move" /\ Simulator!Command["reset"] = "reset"
BY DEF Simulator!Command, SimAsking

(* A request is added behind those of nobody, and becomes the call. *)
LEMMA SimSends ==
  ASSUME SimInv, NEW who \in {"arm", "camera"}, NEW cmd \in Commands, NEW g \in Goals,
         Simulator!Sends(who, cmd, g)
  PROVE  /\ simCall' \in SimCallType /\ simCall'.who = who /\ simCall'.cmd = cmd
         /\ simCall'.st = "waits" /\ simCall.who = "none" /\ simCall.st = "none"
         /\ queue' \in Seq(Entry) /\ Len(queue') <= Queued
         /\ Pending(simCall', queue')
         /\ (\A i \in 1..Len(queue) : queue[i].live) => \A i \in 1..Len(queue') : queue'[i].live
<1> DEFINE e == [cmd |-> cmd, goal |-> g, live |-> TRUE]
<1>1. /\ simCall = Simulator!NoCall /\ Len(queue) < Queued
      /\ simCall' = [Simulator!NoCall EXCEPT !.who = who, !.cmd = cmd, !.st = "waits"]
      /\ queue' = Append(queue, e)
  BY DEF Simulator!Sends
<1>2. /\ simCall' = [who |-> who, cmd |-> cmd, st |-> "waits", from |-> 0, at |-> Home]
      /\ simCall.who = "none" /\ simCall.st = "none"
  BY <1>1 DEF Simulator!NoCall
<1>3. simCall' \in SimCallType BY <1>2, LaptopAssumption DEF SimCallType
<1>4. e \in Entry /\ e.live = TRUE /\ e.cmd = cmd BY DEF Entry
<1>5. queue \in Seq(Entry) /\ Len(queue) \in Nat BY LenProperties DEF SimInv, SimTyped
<1> HIDE DEF e
<1>6. /\ queue' \in Seq(Entry) /\ Len(queue') = Len(queue) + 1
      /\ \A i \in 1..Len(queue) : queue'[i] = queue[i]
      /\ queue'[Len(queue) + 1] = e
  BY <1>1, <1>4, <1>5, AppendProperties
<1>7. Len(queue') <= Queued BY <1>1, <1>5, <1>6, LaptopAssumption
<1>8. \A i \in 1..Len(queue) : ~queue[i].live BY <1>2 DEF SimInv, Pending
<1>9. Pending(simCall', queue')
  <2>1. \A i \in 1..Len(queue') : queue'[i].live =>
          i = Len(queue') /\ simCall'.st = "waits" /\ queue'[i].cmd = simCall'.cmd
    <3> SUFFICES ASSUME NEW i \in 1..Len(queue'), queue'[i].live
                 PROVE  i = Len(queue') /\ queue'[i].cmd = simCall'.cmd
      BY <1>2
    <3>1. i = Len(queue') BY <1>5, <1>6, <1>8
    <3>2. QED BY <1>2, <1>4, <1>5, <1>6, <3>1
  <2>2. queue' # <<>> /\ queue'[Len(queue')].live BY <1>4, <1>5, <1>6
  <2>3. QED BY <1>2, <2>1, <2>2 DEF Pending
<1>10. (\A i \in 1..Len(queue) : queue[i].live) => \A i \in 1..Len(queue') : queue'[i].live
  BY <1>4, <1>5, <1>6
<1>11. QED BY <1>2, <1>3, <1>6, <1>7, <1>9, <1>10

(* What a command leaves behind. *)
LEMMA SimEffect ==
  ASSUME SimInv, NEW h \in Entry, NEW st \in {"ok", "error"}, Simulator!Effect(h, st)
  PROVE  /\ engine' \in Goals /\ settled' \in BOOLEAN
         /\ h.cmd \notin Moving => settled' = settled /\ (settled => engine' = engine)
         /\ h.cmd \in Moving /\ st = "error" => settled' = FALSE
         /\ Simulator!Positions(h.cmd, st) \in Goals
         /\ h.cmd \in Reporting /\ st = "ok" => Simulator!Positions(h.cmd, st) = engine'
<1>1. engine \in Goals /\ settled \in BOOLEAN /\ Home \in Goals /\ h.goal \in Goals
      /\ h.cmd \in Commands
  BY LaptopAssumption DEF SimInv, SimTyped, Entry
<1>2. CASE h.cmd \in {"health", "state"}
  BY <1>1, <1>2 DEF Simulator!Effect, Simulator!Positions, Simulator!arm, Moving, Reporting
<1>3. CASE h.cmd = "capture"
  BY <1>1, <1>3 DEF Simulator!Effect, Simulator!Positions,
     Simulator!Drifts, Moving, Reporting
<1>4. CASE h.cmd \in Moving
  BY <1>1, <1>4 DEF Simulator!Effect, Simulator!Positions, Moving, Reporting
<1>5. QED BY <1>1, <1>2, <1>3, <1>4 DEF Commands, Moving

LEMMA SimServes == ASSUME SimInv, Simulator!Serves PROVE SimInv'
<1> DEFINE h == Head(queue)
<1>1. /\ queue # <<>> /\ queue' = Tail(queue)
      /\ UNCHANGED <<process, pin, op, started, stopped, lease, last, stopPc, clean>>
  BY DEF Simulator!Serves, Simulator!controller
<1>2. PICK st \in {"ok", "error"} :
        /\ Simulator!Effect(h, st)
        /\ simCall' = IF ~h.live THEN simCall
                      ELSE [simCall EXCEPT !.st = st, !.from = process,
                                           !.at = Simulator!Positions(h.cmd, st)]
  BY DEF Simulator!Serves
<1>3. queue \in Seq(Entry) /\ Len(queue) \in Nat /\ Len(queue) <= Queued
  BY LenProperties DEF SimInv, SimTyped
<1>4. /\ h \in Entry /\ h = queue[1] /\ Len(queue) >= 1
      /\ queue' \in Seq(Entry) /\ Len(queue') = Len(queue) - 1
      /\ \A i \in 1..Len(queue') : queue'[i] = queue[i + 1]
  BY <1>1, <1>3, HeadTailProperties, EmptySeq
<1>5. simCall \in SimCallType /\ process \in Nat /\ process \in 1..Processes
  BY LaptopAssumption DEF SimInv, SimTyped
<1> DEFINE a == Simulator!Positions(h.cmd, st)
<1>6. /\ engine' \in Goals /\ settled' \in BOOLEAN /\ a \in Goals
      /\ h.cmd \notin Moving => settled' = settled /\ (settled => engine' = engine)
      /\ h.cmd \in Moving /\ st = "error" => settled' = FALSE
      /\ h.cmd \in Reporting /\ st = "ok" => a = engine'
  BY <1>2, <1>4, SimEffect
<1>7. simCall' = IF ~h.live THEN simCall
                 ELSE [simCall EXCEPT !.st = st, !.from = process, !.at = a]
  BY <1>2
<1> HIDE DEF h, a
<1>8. CASE h.live
  <2>1. Len(queue) = 1 /\ simCall.st = "waits" /\ h.cmd = simCall.cmd
    BY <1>3, <1>4, <1>8 DEF SimInv, Pending
  <2>2. Len(queue') = 0 /\ queue' = <<>> BY <1>4, <2>1, EmptySeq
  <2>3. /\ simCall' \in SimCallType /\ simCall'.who = simCall.who /\ simCall'.cmd = h.cmd
        /\ simCall'.st = st /\ simCall'.from = process /\ simCall'.at = a
    BY <1>5, <1>6, <1>7, <1>8, <2>1, ZenonT(40) DEF SimCallType
  <2>4. SimTyped' BY <1>1, <1>3, <1>4, <1>6, <2>3, LaptopAssumption DEF SimInv, SimTyped
  <2>5. Owned(simCall, op) BY DEF SimInv
  <2>6. simCall.who # "none" BY <2>1, <2>5 DEF Owned
  <2>7. Owned(simCall', op') BY <1>1, <2>1, <2>3, <2>5, <2>6 DEF Owned
  <2>8. Pending(simCall', queue') BY <2>2, <2>3 DEF Pending
  <2>9. Answering(simCall', process', engine', settled')
    BY <1>1, <1>5, <1>6, <2>3 DEF Answering
  <2>10. Shown' 
    <3>1. h.cmd \in Moving <=> Moved(simCall') BY <2>3 DEF Moved
    <3>2. ~Moved(simCall) BY <2>1 DEF Moved
    <3>3. QED BY <1>1, <1>6, <2>2, <2>3, <3>1, <3>2 DEF SimInv, Shown
  <2>11. QED BY <2>4, <2>7, <2>8, <2>9, <2>10 DEF SimInv
<1>9. CASE ~h.live
  <2>1. simCall' = simCall BY <1>7, <1>9
  <2>2. SimTyped' BY <1>1, <1>3, <1>4, <1>6, <2>1, LaptopAssumption DEF SimInv, SimTyped
  <2>3. Owned(simCall', op') BY <1>1, <2>1 DEF SimInv
  <2>4. simCall.st = "waits" => Len(queue) > 1
    BY <1>3, <1>4, <1>9 DEF SimInv, Pending
  <2>5. Pending(simCall', queue')
    <3>1. simCall.st \notin {"ok", "error"} BY <1>1 DEF SimInv, Pending
    <3>2. ASSUME NEW i \in 1..Len(queue'), queue'[i].live
          PROVE  i = Len(queue') /\ simCall.st = "waits" /\ queue'[i].cmd = simCall.cmd
      <4>1. i + 1 \in 1..Len(queue) /\ queue[i + 1].live BY <1>3, <1>4, <3>2
      <4>2. i + 1 = Len(queue) /\ simCall.st = "waits" /\ queue[i + 1].cmd = simCall.cmd
        BY <4>1 DEF SimInv, Pending
      <4>3. QED BY <1>3, <1>4, <4>2
    <3>3. simCall.st = "waits" => queue' # <<>> /\ queue'[Len(queue')].live
      <4>1. HAVE simCall.st = "waits"
      <4>2. Len(queue') \in 1..Len(queue') /\ Len(queue') + 1 = Len(queue)
        BY <1>3, <1>4, <2>4, <4>1
      <4>3. queue[Len(queue)].live BY <4>1 DEF SimInv, Pending
      <4>4. QED BY <1>4, <4>2, <4>3, EmptySeq
    <3>4. QED BY <2>1, <3>1, <3>2, <3>3 DEF Pending
  <2>6. simCall.st \notin {"ok", "error"} BY <1>1 DEF SimInv, Pending
  <2>7. Answering(simCall', process', engine', settled') BY <2>1, <2>6 DEF Answering
  <2>8. ~clean BY <1>3, <1>4, <1>9 DEF SimInv, Shown
  <2>9. Shown' BY <1>1, <2>8 DEF SimInv, Shown
  <2>10. QED BY <2>2, <2>3, <2>5, <2>7, <2>9 DEF SimInv
<1>10. QED BY <1>8, <1>9

LEMMA SimNoCall ==
  /\ Simulator!NoCall \in SimCallType /\ Simulator!NoCall.who = "none" /\ Simulator!NoCall.st = "none"
  /\ \A q \in Seq(Entry) : (\A i \in 1..Len(q) : ~q[i].live) => Pending(Simulator!NoCall, q)
  /\ \A p, e, s : Answering(Simulator!NoCall, p, e, s)
  /\ \A o \in SimOps : Owned(Simulator!NoCall, o)
  /\ ~Moved(Simulator!NoCall)
BY LaptopAssumption DEF Simulator!NoCall, SimCallType, Pending, Answering, Owned, Moved

(* An operation that ends, its report of a STOP with it. *)
LEMMA SimEnding ==
  ASSUME SimTyped, NEW who, Simulator!EndsFor(who), who # "arm" \/ op # "none"
  PROVE  /\ op' \in {op, "none"} /\ (who = "arm" => op' = "none")
         /\ stopPc' \in StopPlaces /\ (stopPc' = "reads" <=> op' = "report")
BY DEF SimTyped, SimOps, StopPlaces, Simulator!EndsFor, Simulator!Ends

(* Nobody waits for what is left in the queue. *)
LEMMA SimTimesOut == ASSUME SimInv, Simulator!TimesOut PROVE SimInv'
<1>1. /\ simCall.st = "waits" /\ simCall' = Simulator!NoCall /\ clean' = FALSE
      /\ Simulator!EndsFor(simCall.who)
      /\ queue' = [i \in 1..Len(queue) |-> [queue[i] EXCEPT !.live = FALSE]]
      /\ UNCHANGED <<process, engine, settled, pin, started, stopped, lease, last>>
  BY DEF Simulator!TimesOut, Simulator!controller, Simulator!arm
<1>2. /\ queue \in [1..Len(queue) -> Entry] /\ Len(queue) \in Nat /\ Len(queue) <= Queued
  BY LenProperties DEF SimInv, SimTyped
<1>3. \A i \in 1..Len(queue) : /\ [queue[i] EXCEPT !.live = FALSE] \in Entry
                               /\ [queue[i] EXCEPT !.live = FALSE].live = FALSE
  BY <1>2 DEF Entry
<1>4. queue' \in [1..Len(queue) -> Entry] BY <1>1, <1>3
<1>5. queue' \in Seq(Entry) /\ Len(queue') = Len(queue)
  BY <1>2, <1>4, SeqDef, LenProperties
<1>6. \A i \in 1..Len(queue') : ~queue'[i].live BY <1>1, <1>3, <1>5
<1>7. simCall.who # "arm" \/ op # "none" BY DEF SimInv, Owned, SimAsking
<1>8. /\ op' \in {op, "none"} /\ op' \in SimOps
      /\ stopPc' \in StopPlaces /\ (stopPc' = "reads" <=> op' = "report")
  BY <1>1, <1>7, SimEnding DEF SimInv, SimTyped, SimOps
<1>9. SimTyped' BY <1>1, <1>2, <1>5, <1>8, SimNoCall DEF SimInv, SimTyped
<1>10. /\ Owned(simCall', op') /\ Pending(simCall', queue')
       /\ Answering(simCall', process', engine', settled')
  BY <1>1, <1>5, <1>6, <1>8, SimNoCall
<1>11. Shown' BY <1>1, <1>8 DEF SimInv, Shown
<1>12. QED BY <1>9, <1>10, <1>11 DEF SimInv

LEMMA SimRestarts == ASSUME SimInv, Simulator!Restarts PROVE SimInv'
<1>1. /\ process < Processes /\ process' = process + 1 /\ engine' = Home /\ queue' = <<>>
      /\ settled' = TRUE
      /\ simCall' = IF simCall.st = "waits" THEN Simulator!NoCall ELSE simCall
      /\ Simulator!EndsFor(IF simCall.st = "waits" THEN simCall.who ELSE "none")
      /\ clean' = FALSE /\ UNCHANGED <<pin, started, stopped, lease, last>>
  BY DEF Simulator!Restarts, Simulator!controller
<1>2. /\ process \in Nat /\ process' \in 1..Processes /\ pin \in 0..process' /\ last.from <= process'
  BY <1>1, LaptopAssumption DEF SimInv, SimTyped
<1>3. queue' \in Seq(Entry) /\ Len(queue') = 0 /\ Len(queue') <= Queued
  BY <1>1, EmptySeq, LaptopAssumption
<1>4. op \in SimOps /\ Owned(simCall, op) BY DEF SimInv, SimTyped
<1>5. simCall.who # "arm" \/ op # "none" BY <1>4 DEF Owned, SimAsking
<1>6. /\ op' \in {op, "none"} /\ op' \in SimOps
      /\ stopPc' \in StopPlaces /\ (stopPc' = "reads" <=> op' = "report")
  BY <1>1, <1>4, <1>5, SimEnding DEF SimInv, SimOps
<1>7. simCall.st # "waits" => op' = op BY <1>1 DEF Simulator!EndsFor
<1>8. simCall' \in SimCallType BY <1>1, SimNoCall DEF SimInv, SimTyped
<1>9. SimTyped' BY <1>1, <1>2, <1>3, <1>6, <1>8, LaptopAssumption DEF SimInv, SimTyped
<1>10. Owned(simCall', op') BY <1>1, <1>4, <1>6, <1>7, SimNoCall
<1>11. Pending(simCall', queue') BY <1>1, <1>3, SimNoCall DEF Pending
<1>12. Answering(simCall', process', engine', settled')
  BY <1>1, <1>2, SimNoCall DEF SimInv, Answering
<1>13. Shown' BY <1>1, <1>6 DEF SimInv, Shown
<1>14. QED BY <1>9, <1>10, <1>11, <1>12, <1>13 DEF SimInv

(* A step that sends the command of the operation, or of the camera. *)
LEMMA SimBegins ==
  ASSUME SimInv, NEW who \in {"arm", "camera"}, NEW cmd \in Commands, NEW g \in Goals,
         Simulator!Sends(who, cmd, g),
         who = "arm" => op \in SimAsking /\ cmd = Simulator!Command[op],
         who = "camera" => cmd = "capture",
         UNCHANGED <<process, engine, settled, pin, op, started, stopped, lease, last, stopPc, clean>>
  PROVE  SimInv'
<1>1. SimTyped' BY SimSends DEF SimInv, SimTyped
<1>2. Owned(simCall', op') BY SimSends DEF Owned
<1>3. Pending(simCall', queue') BY SimSends
<1>4. Answering(simCall', process', engine', settled') BY SimSends DEF Answering
<1>5. ~Moved(simCall) BY SimSends DEF Moved
<1>6. Shown' BY <1>5, SimSends DEF SimInv, Shown
<1>7. QED BY <1>1, <1>2, <1>3, <1>4, <1>6 DEF SimInv

LEMMA SimSending == ASSUME SimInv, Simulator!Asks \/ Simulator!Photo PROVE SimInv'
<1> USE DEF Simulator!controller, Simulator!arm
<1>1. CASE Simulator!Asks
  <2>1. op \in SimAsking /\ Simulator!Command[op] \in Commands
    BY <1>1, SimCommand DEF Simulator!Asks, SimAsking, Commands
  <2>2. PICK g \in Goals : Simulator!Sends("arm", Simulator!Command[op], g)
    BY <1>1, LaptopAssumption DEF Simulator!Asks
  <2>3. QED BY <1>1, <2>1, <2>2, SimBegins DEF Simulator!Asks
<1>2. CASE Simulator!Photo
  BY <1>2, SimBegins, LaptopAssumption DEF Simulator!Photo, Commands
<1>3. QED BY <1>1, <1>2

(* What the return of a call leaves. *)
LEMMA SimReturns ==
  ASSUME SimInv, NEW who \in {"arm", "camera"}, Simulator!Returns(who)
  PROVE  /\ simCall.who = who /\ simCall.st \in {"ok", "error"} /\ simCall \in SimCallType
         /\ simCall.from \in 1..process /\ (clean => simCall.from = process)
         /\ queue = <<>> /\ simCall' = Simulator!NoCall
         /\ UNCHANGED <<process, engine, settled, queue>>
         /\ pin' \in 0..process /\ (started => pin' = pin)
         /\ Simulator!Trusted => pin' = simCall.from
<1>1. /\ simCall.who = who /\ simCall.st \in {"ok", "error"} /\ simCall' = Simulator!NoCall
      /\ pin' = IF Simulator!Trusted THEN simCall.from ELSE pin
      /\ UNCHANGED <<process, engine, settled, queue>>
  BY DEF Simulator!Returns, Simulator!server, Simulator!arm
<1>2. simCall.from \in 1..process /\ (clean => simCall.from = process)
  BY <1>1 DEF SimInv, Answering, Shown
<1>3. queue = <<>> BY <1>1 DEF SimInv, Pending
<1>4. process \in Nat /\ pin \in 0..process /\ simCall \in SimCallType
  BY LaptopAssumption DEF SimInv, SimTyped
<1>5. pin' \in 0..process BY <1>1, <1>2, <1>4
<1>6. started => pin' = pin BY <1>1 DEF SimInv, Shown, Simulator!Trusted
<1>7. QED BY <1>1, <1>2, <1>3, <1>4, <1>5, <1>6

(* A step in which a call returns. *)
LEMMA SimEnds ==
  ASSUME SimInv, NEW who \in {"arm", "camera"}, Simulator!Returns(who),
         op' \in SimOps, stopPc' \in StopPlaces, stopPc' = "reads" <=> op' = "report",
         started' \in BOOLEAN, stopped' \in BOOLEAN, lease' \in BOOLEAN, clean' \in BOOLEAN,
         last' \in [from : Nat, at : Goals], last'.from <= process,
         started' => pin' # 0 /\ last'.from = pin',
         clean' /\ settled /\ last'.from = process => last'.at = engine,
         stopped' => op' # "move"
  PROVE  SimInv'
<1>1. Owned(simCall', op') BY SimReturns, SimNoCall
<1>2. queue' = <<>> /\ queue' \in Seq(Entry) /\ Len(queue') = 0 BY SimReturns, EmptySeq
<1>3. Pending(simCall', queue') /\ Answering(simCall', process', engine', settled')
  BY <1>2, SimReturns, SimNoCall DEF Pending
<1>4. SimTyped' BY <1>2, SimReturns, SimNoCall, LaptopAssumption DEF SimInv, SimTyped
<1>5. Shown' BY <1>2, SimReturns, SimNoCall DEF Shown
<1>6. QED BY <1>1, <1>3, <1>4, <1>5 DEF SimInv

LEMMA SimHealthAnswered == ASSUME SimInv, Simulator!HealthAnswered PROVE SimInv'
<1>1. /\ op = "health" /\ Simulator!Returns("arm") /\ op' \in {"none", "starting"}
      /\ UNCHANGED <<started, stopped, lease, last, clean, stopPc>>
  BY DEF Simulator!HealthAnswered, Simulator!controller
<1>2. simCall.who = "arm" /\ simCall.cmd = "health"
  BY <1>1, SimReturns, SimCommand DEF SimInv, Owned
<1>3. ~Moved(simCall) BY <1>2 DEF Moved, Moving
<1>4. op' \in SimOps BY <1>1 DEF SimOps, SimAsking
<1>5. QED BY <1>1, <1>3, <1>4, SimEnds, SimReturns DEF SimInv, SimTyped, Shown

LEMMA SimPhotoAnswered == ASSUME SimInv, Simulator!PhotoAnswered PROVE SimInv'
<1>1. /\ Simulator!Returns("camera")
      /\ UNCHANGED <<op, started, stopped, lease, last, clean, stopPc>>
  BY DEF Simulator!PhotoAnswered, Simulator!controller
<1>2. simCall.who = "camera" /\ simCall.cmd = "capture" BY <1>1, SimReturns DEF SimInv, Owned
<1>3. ~Moved(simCall) BY <1>2 DEF Moved, Moving
<1>4. QED BY <1>1, <1>3, SimEnds, SimReturns DEF SimInv, SimTyped, Shown

LEMMA SimAnswered == ASSUME SimInv, Simulator!Answered PROVE SimInv'
<1>1. /\ op \in SimAsking \ {"health"} /\ Simulator!Returns("arm") /\ Simulator!Ends
      /\ op' = "none"
  BY SimCommand DEF Simulator!Answered, Simulator!Ends
<1>2. op' \in SimOps /\ stopPc' \in StopPlaces /\ (stopPc' = "reads" <=> op' = "report")
  BY <1>1 DEF SimInv, SimTyped, SimOps, StopPlaces, Simulator!Ends
<1>3. simCall.who = "arm" /\ simCall.cmd = Simulator!Command[op]
  BY <1>1, SimReturns DEF SimInv, Owned
<1>4. simCall.cmd \in Reporting
  BY <1>1, <1>3, SimCommand DEF SimAsking, Reporting, Moving
<1>5. CASE Simulator!Trusted /\ simCall.st = "ok"
  <2>1. /\ last' = [from |-> simCall.from, at |-> simCall.at] /\ clean' = TRUE
        /\ started' = (started \/ op = "starting")
        /\ stopped' = (stopped /\ op # "reset") /\ lease' = (lease /\ op # "reset")
    BY <1>5 DEF Simulator!Answered
  <2>2. /\ simCall.from \in 1..process /\ simCall.from \in Nat /\ simCall.at \in Goals
        /\ pin' = simCall.from
    BY <1>1, <1>5, SimReturns DEF SimCallType
  <2>3. simCall.from = process /\ settled => simCall.at = engine
    BY <1>4, <1>5 DEF SimInv, Answering
  <2>4. /\ last' \in [from : Nat, at : Goals] /\ last'.from = pin' /\ last'.at = simCall.at
        /\ pin' # 0 /\ last'.from <= process /\ last'.from = simCall.from
    BY <2>1, <2>2, LaptopAssumption DEF SimInv, SimTyped
  <2>5. /\ started' \in BOOLEAN /\ stopped' \in BOOLEAN /\ lease' \in BOOLEAN /\ clean' \in BOOLEAN
    BY <2>1 DEF SimInv, SimTyped
  <2>6. QED BY <1>1, <1>2, <2>3, <2>4, <2>5, SimEnds
<1>6. CASE ~(Simulator!Trusted /\ simCall.st = "ok")
  <2>1. clean' = (clean /\ Simulator!Trusted) /\ UNCHANGED <<started, stopped, lease, last>>
    BY <1>6 DEF Simulator!Answered, Simulator!controller
  <2>2. clean' \in BOOLEAN BY <2>1 DEF SimInv, SimTyped, Simulator!Trusted
  <2>3. ASSUME clean', settled, last.from = process PROVE last.at = engine
    <3>1. clean /\ simCall.st = "error" /\ simCall.from = process
      BY <1>1, <1>6, <2>1, <2>3, SimReturns
    <3>2. simCall.cmd \notin Moving BY <2>3, <3>1 DEF SimInv, Answering
    <3>3. QED BY <2>3, <3>1, <3>2 DEF SimInv, Shown, Moved
  <2>4. QED BY <1>1, <1>2, <2>1, <2>2, <2>3, SimEnds, SimReturns DEF SimInv, SimTyped, Shown
<1>7. QED BY <1>5, <1>6

(* Steps beside the calls: a drive may pull, an operation takes or leaves   *)
(* its lock, a STOP goes on.                                                *)
LEMMA SimStays ==
  ASSUME SimInv, UNCHANGED <<process, settled, queue, simCall, last, clean>>,
         engine' \in Goals, settled => engine' = engine,
         op' \in SimOps, simCall.who = "arm" => op' = op,
         stopPc' \in StopPlaces, stopPc' = "reads" <=> op' = "report",
         (pin' = pin /\ started' = started) \/ (pin' = 0 /\ started' = FALSE),
         stopped' \in BOOLEAN, lease' \in BOOLEAN, stopped' => op' # "move"
  PROVE  SimInv'
<1>1. process \in Nat /\ pin' \in 0..process BY LaptopAssumption DEF SimInv, SimTyped
<1>2. SimTyped' BY <1>1 DEF SimInv, SimTyped
<1>3. Owned(simCall', op') BY DEF SimInv, Owned
<1>4. Pending(simCall', queue') BY DEF SimInv
<1>5. Answering(simCall', process', engine', settled') BY DEF SimInv, Answering
<1>6. Shown' BY DEF SimInv, Shown
<1>7. QED BY <1>2, <1>3, <1>4, <1>5, <1>6 DEF SimInv

(* An operation takes the lock of the controller. *)
LEMMA SimLocks ==
  ASSUME SimInv, Simulator!Start \/ Simulator!Status \/ Simulator!Reset \/ Simulator!Move
                 \/ Simulator!Reconnect
  PROVE  SimInv'
<1>1. PICK o \in SimOps \ {"none", "report"} :
        Simulator!Begins(o) /\ (o = "move" => ~stopped)
  BY DEF Simulator!Start, Simulator!Status, Simulator!Reset, Simulator!Move,
     Simulator!Reconnect, SimOps, SimAsking
<1>2. /\ op = "none" /\ op' = o
      /\ UNCHANGED <<process, engine, settled, queue, pin, simCall, started, stopped, lease,
                     last, stopPc, clean>>
  BY <1>1 DEF Simulator!Begins, Simulator!Free, Simulator!server, Simulator!arm,
     Simulator!controller
<1>3. simCall.who # "arm" BY <1>2 DEF SimInv, Owned, SimAsking
<1>4. engine \in Goals /\ stopPc \in StopPlaces /\ stopPc # "reads"
      /\ stopped \in BOOLEAN /\ lease \in BOOLEAN
  BY <1>2 DEF SimInv, SimTyped
<1>5. QED BY <1>1, <1>2, <1>3, <1>4, SimStays

LEMMA SimAside ==
  ASSUME SimInv, Simulator!Idles \/ Simulator!Unreached \/ Simulator!Hold
                 \/ Simulator!LeaseEnds \/ Simulator!StopCalled \/ Simulator!Stop
                 \/ Simulator!StopReads \/ Simulator!Forgets \/ UNCHANGED simulator
  PROVE  SimInv'
<1> USE DEF Simulator!server, Simulator!arm, Simulator!controller, Simulator!Free
<1>1. /\ engine \in Goals /\ settled \in BOOLEAN /\ op \in SimOps /\ stopPc \in StopPlaces
      /\ (stopPc = "reads" <=> op = "report") /\ stopped \in BOOLEAN /\ lease \in BOOLEAN
      /\ (stopped => op # "move") /\ {"none", "report"} \subseteq SimOps
      /\ {"idle", "waits", "latched", "reads"} \subseteq StopPlaces
  BY DEF SimInv, SimTyped, Shown, SimOps, SimAsking, StopPlaces
<1>2. op \in {"none", "reconnect"} => simCall.who # "arm" BY DEF SimInv, Owned, SimAsking
<1>3. simCall = Simulator!NoCall => simCall.who # "arm" BY SimNoCall
<1>4. CASE Simulator!Idles
  BY <1>1, <1>4, SimStays DEF Simulator!Idles, Simulator!Drifts
<1>5. CASE Simulator!Unreached
  BY <1>1, <1>3, <1>5, SimStays DEF Simulator!Unreached, Simulator!Ends
<1>6. CASE Simulator!Hold BY <1>1, <1>6, SimStays DEF Simulator!Hold
<1>7. CASE Simulator!LeaseEnds BY <1>1, <1>7, SimStays DEF Simulator!LeaseEnds
<1>8. CASE Simulator!StopCalled BY <1>1, <1>8, SimStays DEF Simulator!StopCalled
<1>9. CASE Simulator!Stop BY <1>1, <1>9, SimStays DEF Simulator!Stop
<1>10. CASE Simulator!StopReads
  BY <1>1, <1>2, <1>10, SimStays DEF Simulator!StopReads
<1>11. CASE Simulator!Forgets BY <1>1, <1>2, <1>11, SimStays DEF Simulator!Forgets
<1>12. CASE UNCHANGED simulator BY <1>1, <1>12, SimStays DEF simulator
<1>13. QED BY <1>4, <1>5, <1>6, <1>7, <1>8, <1>9, <1>10, <1>11, <1>12

LEMMA SimInit == Simulator!Init => SimInv
<1> SUFFICES ASSUME Simulator!Init PROVE SimInv OBVIOUS
<1>1. /\ process = 1 /\ engine = Home /\ settled = TRUE /\ queue = <<>> /\ pin = 0
      /\ simCall = Simulator!NoCall
      /\ op = "none" /\ started = FALSE /\ stopped = FALSE /\ lease = FALSE
      /\ last = [from |-> 0, at |-> Home] /\ stopPc = "idle" /\ clean = TRUE
  BY DEF Simulator!Init, Simulator!NoState
<1>2. queue \in Seq(Entry) /\ Len(queue) = 0 BY <1>1, EmptySeq
<1>3. op \in SimOps /\ stopPc \in StopPlaces BY <1>1 DEF SimOps, StopPlaces
<1>4. SimTyped
  <2>1. last \in [from : Nat, at : Goals] /\ last.from = 0 BY <1>1, LaptopAssumption
  <2>2. process \in 1..Processes /\ pin \in 0..process /\ last.from <= process
    BY <1>1, <2>1, LaptopAssumption
  <2>3. engine \in Goals /\ Len(queue) <= Queued /\ simCall \in SimCallType
    BY <1>1, <1>2, SimNoCall, LaptopAssumption
  <2>4. QED BY <1>1, <1>2, <1>3, <2>1, <2>2, <2>3 DEF SimTyped
<1>5. Owned(simCall, op) BY <1>1, <1>3, SimNoCall
<1>6. Pending(simCall, queue) /\ Answering(simCall, process, engine, settled)
  <2>1. \A i \in 1..Len(queue) : ~queue[i].live BY <1>2
  <2>2. QED BY <1>1, <1>2, <2>1, SimNoCall
<1>7. Shown BY <1>1, <1>2, SimNoCall DEF Shown
<1>8. QED BY <1>4, <1>5, <1>6, <1>7 DEF SimInv

LEMMA SimStep == SimInv /\ (Simulator!Next \/ UNCHANGED simulator) => SimInv'
BY SimServes, SimTimesOut, SimRestarts, SimLocks, SimSending, SimHealthAnswered, SimAnswered,
   SimPhotoAnswered, SimAside
DEF Simulator!Next

LEMMA SimImplies == SimInv => SimulatorIsShownTrue
<1> SUFFICES ASSUME SimInv PROVE SimulatorIsShownTrue OBVIOUS
<1>1. queue \in Seq(Entry) /\ Len(queue) \in Nat /\ (queue # <<>> => Len(queue) >= 1)
  BY LenProperties, EmptySeq DEF SimInv, SimTyped
<1>2. simCall.st = "waits" <=> \E i \in 1..Len(queue) : queue[i].live
  BY <1>1 DEF SimInv, Pending
<1>3. simCall.who = "arm" => op # "none" BY DEF SimInv, Owned, SimAsking
<1>4. Simulator!TypeOK
  <2>1. /\ process \in 1..Processes /\ engine \in Goals /\ settled \in BOOLEAN
        /\ Len(queue) <= Queued /\ last.at \in Goals /\ simCall.st \in {"none", "waits", "ok", "error"}
        /\ op \in {"none", "reconnect"} \cup DOMAIN Simulator!Command
        /\ (stopPc = "reads" <=> op = "report")
    BY SimCommand DEF SimInv, SimTyped, SimCallType, SimOps
  <2>2. pin \in 0..Processes /\ last.from \in 0..Processes
    BY LaptopAssumption DEF SimInv, SimTyped
  <2>3. QED BY <1>2, <1>3, <2>1, <2>2 DEF Simulator!TypeOK
<1>5. Simulator!ShownIsReal
  <2>1. ASSUME op = "none" PROVE ~Moved(simCall)
    BY <2>1 DEF SimInv, Owned, SimAsking, Moved, Moving, SimTyped, SimCallType
  <2>2. QED BY <2>1 DEF SimInv, Shown, Simulator!ShownIsReal
<1>6. QED BY <1>4, <1>5
  DEF SimulatorIsShownTrue, SimInv, Shown, Simulator!ShownIsPinned, Simulator!NoMoveUnderStop

(* Every step of the simulator and its gateway keeps the invariant. *)
LEMMA SimInductive == MCSpec => []SimInv
<1>1. MCInit => SimInv BY SimInit DEF MCInit
<1>2. SimInv /\ [MCNext]_<<bench, vars, assistant, simulator>> => SimInv'
  BY SimStep DEF MCNext
<1>3. QED BY <1>1, <1>2, PTL DEF MCSpec

(* The state the gateway shows is of the process it is pinned to and, while *)
(* every request is answered and the last move or reset settled, the        *)
(* simulator's own, though photographs step its physics; no move of the     *)
(* gateway is under way when a STOP latches, nor until the latch is         *)
(* released; for any goals, restarts and length of the server's queue.      *)
THEOREM SimulatorShown == MCSpec => []SimulatorIsShownTrue
BY SimImplies, SimInductive, PTL

-----------------------------------------------------------------------------
(* The tool server.  A script writes once, at its first step, arm_move at   *)
(* its second; what it read back, and what became of a route, stays so.     *)
Router == {"run", "shoot", "apply"}
Outs == {"none", "accepted", "completed", "captured", "fault"}
RouteType ==
  [st : {"none", "ready", "spent", "gone"}, mode : {"none", "run", "shoot", "apply"}, out : Outs,
   frame : 0..Shots]
ToolNames == DOMAIN Mcp!Script
ToolType ==
  [pc : {"idle", "verify", "send", "finish", "crop"}, name : ToolNames \cup {"none"}, step : 1..3,
   again : BOOLEAN, from : 0..Reach, route : 0..Routes, frame : Nat, image : Nat,
   out : Outs \cup {"capture_unavailable", "proved", "unproved"}, did : {0, 1}, life : Nat]
ResultType ==
  [name : ToolNames \cup {"none"}, ok : BOOLEAN, retry : BOOLEAN, label : Nat, life : Nat,
   want : Nat, image : Nat, route : 0..Routes]

ShotTyped(s) ==
  /\ s = [n |-> s.n, history |-> s.history, transfers |-> s.transfers]
  /\ s.n \in 0..Shots /\ s.history \subseteq 1..s.n /\ s.transfers \subseteq 1..s.n

KeptTyped(q, n) ==
  /\ q \in Seq([id : Nat, life : Nat]) /\ Len(q) <= KeptFrames
  /\ \A k \in 1..Len(q) : q[k].id \in 1..n

ToolTyped ==
  /\ toolLife \in 1..ToolLives /\ at \in 0..Reach /\ route \in [1..Routes -> RouteType]
  /\ ShotTyped(shot) /\ verified \in 0..ToolLives /\ KeptTyped(kept, shot.n)
  /\ tool \in ToolType /\ result \in ResultType
  /\ toolTold \in [route : 0..Routes, frame : Nat] /\ effects \in 0..2

Requests(c) == c.pc \in {"verify", "send"}
Early(c) == Requests(c) /\ (c.step = 1 \/ c.name = "shift")

(* A call under way: nothing is written before its time, and what it shows  *)
(* is the photograph it asked for, of the n taken.                          *)
Scripted(c, n) ==
  /\ c.pc # "idle" => c.name \in ToolNames
  /\ c.pc = "crop" => c.name = "detail"
  /\ Requests(c) => c.step <= Len(Mcp!Script[c.name])
  /\ Early(c) => c.did = 0 /\ c.image = 0
  /\ c.image # 0 => c.image = c.frame /\ c.image <= n
  /\ c.pc = "finish" /\ c.name = "shoot" => c.image = c.frame

(* Route i is used, and came to this. *)
Used(i, r) == i # 0 /\ r[i].st \in {"spent", "gone"}
CameTo(i, r, out, frame) ==
  /\ Used(i, r) /\ out \in {r[i].out, "capture_unavailable"}
  /\ out = "captured" => frame = r[i].frame

Settled(c, r) ==
  c.name \in {"run", "shoot"} /\ (c.pc = "finish" \/ (Requests(c) /\ c.step > 1))
    => CameTo(c.route, r, c.out, c.frame)

(* The moves e made for an intention, of which route i was run. *)
MovedBy(name, i, r, e) ==
  /\ name \notin {"shift"} \cup Router => e = 0
  /\ name \in Router /\ e # 0 => e = 1 /\ Used(i, r)

Intended ==
  /\ tool.pc = "idle" => /\ tool.name = "none" /\ MovedBy(result.name, result.route, route, effects)
                         /\ result.name \in Router => result.route = toolTold.route
  /\ tool.pc # "idle" => /\ MovedBy(tool.name, tool.route, route, effects)
                         /\ tool.name # "plan" => tool.route = toolTold.route
                         /\ Early(tool) => effects <= 1

Reported(t, r) ==
  t.ok => /\ t.name = "run" => CameTo(t.route, r, "completed", 0)
          /\ t.name = "shoot" => CameTo(t.route, r, "captured", t.image)
          /\ t.image # 0 => t.image = t.want

ToolInv ==
  ToolTyped /\ Scripted(tool, shot.n) /\ Settled(tool, route) /\ Intended /\ Reported(result, route)

(* The scripts, request by request. *)
LEMMA ToolScripts ==
  /\ ToolNames = {"state", "plan", "shift", "run", "shoot", "apply", "look", "detail", "zero",
                  "release"}
  /\ \A n \in ToolNames :
       /\ n \in {"state", "plan", "run", "apply", "zero", "release"} =>
            /\ Len(Mcp!Script[n]) = 1
            /\ Mcp!Script[n][1] = IF n = "state" THEN "read" ELSE IF n = "plan" THEN "preview" ELSE n
       /\ n = "shift" => /\ Len(Mcp!Script[n]) = 2
                         /\ Mcp!Script[n][1] = "read" /\ Mcp!Script[n][2] = "move"
       /\ n = "shoot" => /\ Len(Mcp!Script[n]) = 2
                         /\ Mcp!Script[n][1] = "shoot" /\ Mcp!Script[n][2] = "transfer"
       /\ n = "look" => /\ Len(Mcp!Script[n]) = 3 /\ Mcp!Script[n][1] = "capture"
                        /\ Mcp!Script[n][2] = "frame" /\ Mcp!Script[n][3] = "read"
       /\ n = "detail" => Len(Mcp!Script[n]) = 0
       /\ Mcp!Script[n] = <<>> <=> n = "detail"
<1>1. ToolNames = {"state", "plan", "shift", "run", "shoot", "apply", "look", "detail", "zero",
                  "release"}
  BY DEF ToolNames, Mcp!Script
<1>2. /\ Mcp!Script["detail"] = <<>> /\ Mcp!Script["state"] = <<"read">>
      /\ Mcp!Script["plan"] = <<"preview">> /\ Mcp!Script["shift"] = <<"read", "move">>
      /\ Mcp!Script["run"] = <<"run">> /\ Mcp!Script["shoot"] = <<"shoot", "transfer">>
      /\ Mcp!Script["apply"] = <<"apply">> /\ Mcp!Script["look"] = <<"capture", "frame", "read">>
      /\ Mcp!Script["zero"] = <<"zero">> /\ Mcp!Script["release"] = <<"release">>
  BY DEF Mcp!Script
<1>3. \A n \in ToolNames :
        /\ n = "detail" => Mcp!Script[n] = <<>>
        /\ n = "state" => Mcp!Script[n] = <<"read">>
        /\ n = "plan" => Mcp!Script[n] = <<"preview">>
        /\ n = "shift" => Mcp!Script[n] = <<"read", "move">>
        /\ n = "shoot" => Mcp!Script[n] = <<"shoot", "transfer">>
        /\ n = "look" => Mcp!Script[n] = <<"capture", "frame", "read">>
        /\ n \in {"run", "apply", "zero", "release"} => Mcp!Script[n] = <<n>>
  BY <1>2, Zenon
<1>4. \A a : Len(<<a>>) = 1 /\ <<a>>[1] = a OBVIOUS
<1>7. Len(<<>>) = 0 OBVIOUS
<1> SUFFICES ASSUME NEW n \in ToolNames
             PROVE  /\ n \in {"state", "plan", "run", "apply", "zero", "release"} =>
                         /\ Len(Mcp!Script[n]) = 1
                         /\ Mcp!Script[n][1] =
                              IF n = "state" THEN "read" ELSE IF n = "plan" THEN "preview" ELSE n
                    /\ n = "shift" => /\ Len(Mcp!Script[n]) = 2
                                      /\ Mcp!Script[n][1] = "read" /\ Mcp!Script[n][2] = "move"
                    /\ n = "shoot" => /\ Len(Mcp!Script[n]) = 2
                                      /\ Mcp!Script[n][1] = "shoot" /\ Mcp!Script[n][2] = "transfer"
                    /\ n = "look" => /\ Len(Mcp!Script[n]) = 3 /\ Mcp!Script[n][1] = "capture"
                                     /\ Mcp!Script[n][2] = "frame" /\ Mcp!Script[n][3] = "read"
                    /\ n = "detail" => Len(Mcp!Script[n]) = 0
                    /\ Mcp!Script[n] = <<>> <=> n = "detail"
  BY <1>1
<1>8. n \in {"state", "plan", "run", "apply", "zero", "release"} =>
        /\ Len(Mcp!Script[n]) = 1
        /\ Mcp!Script[n][1] = IF n = "state" THEN "read" ELSE IF n = "plan" THEN "preview" ELSE n
  BY <1>3, <1>4
<1>9. n = "shift" => /\ Len(Mcp!Script[n]) = 2
                     /\ Mcp!Script[n][1] = "read" /\ Mcp!Script[n][2] = "move"
  <2>1. n = "shift" => Mcp!Script[n] = <<"read", "move">> BY <1>3
  <2>2. QED BY <2>1
<1>10. n = "shoot" => /\ Len(Mcp!Script[n]) = 2
                      /\ Mcp!Script[n][1] = "shoot" /\ Mcp!Script[n][2] = "transfer"
  <2>1. n = "shoot" => Mcp!Script[n] = <<"shoot", "transfer">> BY <1>3
  <2>2. QED BY <2>1
<1>11. n = "look" => /\ Len(Mcp!Script[n]) = 3 /\ Mcp!Script[n][1] = "capture"
                     /\ Mcp!Script[n][2] = "frame" /\ Mcp!Script[n][3] = "read"
  <2>1. n = "look" => Mcp!Script[n] = <<"capture", "frame", "read">> BY <1>3
  <2>2. QED BY <2>1
<1>12. n = "detail" => Mcp!Script[n] = <<>> /\ Len(Mcp!Script[n]) = 0
  BY <1>3, <1>7
<1>13. n # "detail" => Mcp!Script[n] # <<>>
  BY <1>1, <1>7, <1>8, <1>9, <1>10, <1>11
<1>14. QED BY <1>8, <1>9, <1>10, <1>11, <1>12, <1>13

(* The request that is next. *)
LEMMA ToolRequest ==
  ASSUME ToolInv, Requests(tool)
  PROVE  /\ tool.name \in ToolNames /\ tool.step \in 1..3
         /\ tool.step <= Len(Mcp!Script[tool.name]) /\ tool.name # "detail"
         /\ Len(Mcp!Script[tool.name]) \in 1..3
         /\ Mcp!Request \in {"read", "preview", "move", "run", "shoot", "transfer", "apply",
                             "capture", "frame", "zero", "release"}
         /\ tool.name = "run" => Mcp!Request = "run" /\ tool.step = Len(Mcp!Script[tool.name])
         /\ tool.name = "shoot" => \/ Mcp!Request = "shoot" /\ tool.step = 1
                                   \/ Mcp!Request = "transfer" /\ tool.step = 2
                                      /\ tool.step = Len(Mcp!Script[tool.name])
         /\ Mcp!Request = "move" => tool.name = "shift" /\ tool.step = 2
                                    /\ tool.step = Len(Mcp!Script[tool.name])
         /\ Mcp!Request = "preview" => tool.name = "plan"
         /\ Mcp!Request \in {"run", "shoot", "apply"} => tool.name = Mcp!Request
         /\ Mcp!Request = "capture" => tool.name = "look"
         /\ Mcp!Request \in {"zero", "release"} => tool.name = Mcp!Request
         /\ Mcp!Request \in {"transfer", "frame"} => tool.name \in {"shoot", "look"} /\ tool.step = 2
         /\ Mcp!Request = "read" => \/ tool.name \in {"state", "shift"} /\ tool.step = 1
                                    \/ tool.name = "look" /\ tool.step = 3
         /\ Mcp!Request \notin Mcp!Reads => Early(tool)
         /\ Mcp!Request \notin Mcp!Reads /\ tool.name # "shift" => tool.step = 1
         /\ Mcp!AtLastRead => Mcp!Request = "read"
<1>1. /\ tool.name \in ToolNames /\ tool.step \in 1..3 /\ tool.step <= Len(Mcp!Script[tool.name])
  BY DEF ToolInv, ToolTyped, ToolType, Scripted, Requests
<1> USE ToolScripts DEF Mcp!Request, Mcp!Reads, Mcp!AtLastRead, Early
<1>2. tool.name # "detail" BY <1>1
<1>3. CASE tool.name \in {"state", "plan", "run", "apply", "zero", "release"}
  <2>1. Len(Mcp!Script[tool.name]) = 1 BY <1>1, <1>3
  <2>2. tool.step = 1 BY <1>1, <2>1
  <2>3. Mcp!Script[tool.name][1] =
          IF tool.name = "state" THEN "read" ELSE IF tool.name = "plan" THEN "preview" ELSE tool.name
    BY <1>1, <1>3
  <2>4. QED BY <1>1, <1>3, <2>1, <2>2, <2>3
<1>4. CASE tool.name = "shift"
  <2>1. Len(Mcp!Script[tool.name]) = 2
    <3>1. \A n \in ToolNames : n = "shift" => Len(Mcp!Script[n]) = 2 BY ToolScripts
    <3>2. QED BY <1>1, <1>4, <3>1
  <2>2. tool.step \in {1, 2} BY <1>1, <2>1
  <2>3. QED BY <1>1, <1>4, <2>1, <2>2
<1>5. CASE tool.name = "shoot"
  <2>1. Len(Mcp!Script[tool.name]) = 2
    <3>1. \A n \in ToolNames : n = "shoot" => Len(Mcp!Script[n]) = 2 BY ToolScripts
    <3>2. QED BY <1>1, <1>5, <3>1
  <2>2. tool.step \in {1, 2} BY <1>1, <2>1
  <2>3. QED BY <1>1, <1>5, <2>1, <2>2
<1>6. CASE tool.name = "look"
  <2>1. Len(Mcp!Script[tool.name]) = 3
    <3>1. \A n \in ToolNames : n = "look" => Len(Mcp!Script[n]) = 3 BY ToolScripts
    <3>2. QED BY <1>1, <1>6, <3>1
  <2>2. tool.step \in {1, 2, 3} BY <1>1, <2>1
  <2>3. QED BY <1>1, <1>6, <2>1, <2>2
<1>7. QED BY <1>1, <1>2, <1>3, <1>4, <1>5, <1>6

(* What an answer leaves of the call t. *)
LEMMA ToolReplies ==
  ASSUME ToolInv, Mcp!At("send"), NEW t \in ToolType, t.name = tool.name, t.step = tool.step,
         Mcp!Replies(t)
  PROVE  /\ tool' \in ToolType /\ tool'.name = t.name /\ tool'.route = t.route
         /\ tool'.frame = t.frame /\ tool'.image = t.image /\ tool'.out = t.out
         /\ tool'.did = t.did
         /\ \/ tool.step < Len(Mcp!Script[tool.name]) /\ tool'.step = tool.step + 1
               /\ tool'.pc = "verify"
            \/ tool.step = Len(Mcp!Script[tool.name]) /\ tool'.step = tool.step
               /\ tool'.pc = "finish"
<1>1. Requests(tool) BY DEF Requests, Mcp!At
<1>2. /\ tool.step \in 1..3 /\ tool.step <= Len(Mcp!Script[tool.name])
      /\ Len(Mcp!Script[tool.name]) \in 1..3
  BY <1>1, ToolRequest
<1>3. toolLife \in Nat BY LaptopAssumption DEF ToolInv, ToolTyped
<1> DEFINE l == IF Mcp!AtLastRead THEN t.life ELSE toolLife
           u == [t EXCEPT !.again = FALSE, !.life = l]
<1>4. l \in Nat BY <1>3 DEF ToolType
<1>5. tool' = IF tool.step < Len(Mcp!Script[tool.name])
              THEN [u EXCEPT !.step = u.step + 1, !.pc = "verify"] ELSE [u EXCEPT !.pc = "finish"]
  BY DEF Mcp!Replies
<1> HIDE DEF l
<1>6. /\ u \in ToolType /\ u.name = t.name /\ u.route = t.route /\ u.frame = t.frame
      /\ u.image = t.image /\ u.out = t.out /\ u.did = t.did /\ u.step = t.step
  BY <1>4, ZenonT(40) DEF ToolType
<1> HIDE DEF u
<1>7. CASE tool.step < Len(Mcp!Script[tool.name])
  <2>1. tool.step + 1 \in 1..3
    <3>1. \A a, b \in 1..3 : a < b => a + 1 \in 1..3 OBVIOUS
    <3>2. QED BY <1>2, <1>7, <3>1
  <2> DEFINE v == [u EXCEPT !.step = tool.step + 1]
  <2>2. /\ v \in ToolType /\ v.name = u.name /\ v.route = u.route /\ v.frame = u.frame
        /\ v.image = u.image /\ v.out = u.out /\ v.did = u.did /\ v.step = tool.step + 1
    BY <1>6, <2>1, ZenonT(40) DEF ToolType
  <2>3. tool' = [v EXCEPT !.pc = "verify"] BY <1>5, <1>6, <1>7
  <2> HIDE DEF v
  <2>4. /\ tool' \in ToolType /\ tool'.name = v.name /\ tool'.route = v.route /\ tool'.frame = v.frame
        /\ tool'.image = v.image /\ tool'.out = v.out /\ tool'.did = v.did /\ tool'.step = v.step
        /\ tool'.pc = "verify"
    BY <2>2, <2>3, ZenonT(40) DEF ToolType
  <2>5. QED BY <1>6, <1>7, <2>2, <2>4
<1>8. CASE ~(tool.step < Len(Mcp!Script[tool.name]))
  <2>1. tool' = [u EXCEPT !.pc = "finish"] BY <1>5, <1>8
  <2>2. /\ tool' \in ToolType /\ tool'.name = u.name /\ tool'.route = u.route /\ tool'.frame = u.frame
        /\ tool'.image = u.image /\ tool'.out = u.out /\ tool'.did = u.did /\ tool'.step = u.step
        /\ tool'.pc = "finish"
    BY <1>6, <2>1, ZenonT(40) DEF ToolType
  <2>3. tool.step = Len(Mcp!Script[tool.name]) BY <1>2, <1>8
  <2>4. QED BY <1>6, <2>2, <2>3
<1>9. QED BY <1>7, <1>8

(* What became of a route stays so. *)
RoutesStay(r, s) ==
  \A i \in 1..Routes : r[i].st \in {"spent", "gone"} =>
    s[i].st \in {"spent", "gone"} /\ s[i].out = r[i].out /\ s[i].frame = r[i].frame

LEMMA ToolStays ==
  ASSUME NEW r, NEW s, RoutesStay(r, s)
  PROVE  /\ \A i \in 0..Routes : Used(i, r) => Used(i, s)
         /\ \A i \in 0..Routes : \A out, frame : CameTo(i, r, out, frame) => CameTo(i, s, out, frame)
<1>1. Routes \in Nat BY LaptopAssumption
<1>2. \A i \in 0..Routes : i # 0 => i \in 1..Routes BY <1>1
<1>3. \A i \in 0..Routes : Used(i, r) =>
        Used(i, s) /\ s[i].out = r[i].out /\ s[i].frame = r[i].frame
  BY <1>2 DEF Used, RoutesStay
<1>4. QED BY <1>3 DEF CameTo

(* What a write leaves at the gateway; the routes and photographs are more. *)
Served ==
  /\ at' \in 0..Reach /\ route' \in [1..Routes -> RouteType] /\ ShotTyped(shot')
  /\ shot.n <= shot'.n /\ RoutesStay(route, route')

LEMMA ToolUnserved == ASSUME ToolInv, UNCHANGED <<at, route, shot>> PROVE Served
BY LaptopAssumption DEF ToolInv, ToolTyped, Served, RoutesStay, ShotTyped

LEMMA ToolPhotographs ==
  ASSUME ToolInv, Mcp!Photographs \/ Mcp!PhotographsFor
  PROVE  ShotTyped(shot') /\ shot'.n = shot.n + 1 /\ shot.n \in Nat /\ shot'.n \in 0..Shots
<1>1. /\ shot = [n |-> shot.n, history |-> shot.history, transfers |-> shot.transfers]
      /\ shot.n \in 0..Shots /\ shot.n < Shots
      /\ shot.history \subseteq 1..shot.n /\ shot.transfers \subseteq 1..shot.n
  BY DEF ToolInv, ToolTyped, ShotTyped, Mcp!Photographs, Mcp!PhotographsFor
<1>2. shot.n \in Nat /\ shot.n + 1 \in 0..Shots /\ 1..shot.n \subseteq 1..(shot.n + 1)
      /\ shot.n + 1 \in 1..(shot.n + 1)
  BY <1>1, LaptopAssumption
<1>3. CASE Mcp!Photographs
  <2> DEFINE h == {x \in shot.history \cup {shot.n + 1} : x > shot.n + 1 - History}
  <2>1. shot' = [n |-> shot.n + 1, history |-> h, transfers |-> shot.transfers]
    BY <1>1, <1>3 DEF Mcp!Photographs
  <2>2. h \subseteq 1..(shot.n + 1) BY <1>1, <1>2
  <2> HIDE DEF h
  <2>3. QED BY <1>1, <1>2, <2>1, <2>2 DEF ShotTyped
<1>4. CASE Mcp!PhotographsFor
  <2>1. shot' = [n |-> shot.n + 1, history |-> shot.history,
                 transfers |-> shot.transfers \cup {shot.n + 1}]
    BY <1>1, <1>4 DEF Mcp!PhotographsFor
  <2>2. QED BY <1>1, <1>2, <2>1 DEF ShotTyped
<1>5. QED BY <1>3, <1>4

(* A route that is run is spent. *)
LEMMA ToolRuns ==
  ASSUME ToolInv, NEW mode \in Router, NEW out \in Outs, NEW frame \in 0..Shots,
         Mcp!Runs(mode, out, frame)
  PROVE  /\ tool.route \in 1..Routes /\ route[tool.route].st = "ready"
         /\ route' \in [1..Routes -> RouteType] /\ RoutesStay(route, route')
         /\ Used(tool.route, route')
         /\ route'[tool.route].out = out /\ route'[tool.route].frame = frame
<1> DEFINE x == [st |-> "spent", mode |-> mode, out |-> out, frame |-> frame]
<1>1. /\ tool.route # 0 /\ route[tool.route].st = "ready"
      /\ route' = [route EXCEPT ![tool.route] = x]
  BY DEF Mcp!Runs
<1>2. route \in [1..Routes -> RouteType] /\ tool.route \in 1..Routes
  BY <1>1, LaptopAssumption DEF ToolInv, ToolTyped, ToolType
<1>3. x \in RouteType /\ x.st = "spent" /\ x.out = out /\ x.frame = frame
  BY DEF RouteType, Router
<1> HIDE DEF x
<1>4. /\ route' \in [1..Routes -> RouteType] /\ route'[tool.route] = x
      /\ \A i \in 1..Routes : i # tool.route => route'[i] = route[i]
  BY <1>1, <1>2, <1>3
<1>5. RoutesStay(route, route') BY <1>1, <1>4 DEF RoutesStay
<1>6. QED BY <1>1, <1>2, <1>3, <1>4, <1>5 DEF Used

LEMMA ToolPreview ==
  ASSUME ToolInv, Mcp!Preview
  PROVE  /\ route' \in [1..Routes -> RouteType] /\ RoutesStay(route, route')
         /\ \E r \in 1..Routes : route'[r] # route[r]
<1>1. PICK r \in 1..Routes : route[r].st = "none" /\ route' = [route EXCEPT ![r].st = "ready"]
  BY DEF Mcp!Preview
<1>2. route \in [1..Routes -> RouteType] BY DEF ToolInv, ToolTyped
<1> DEFINE x == [route[r] EXCEPT !.st = "ready"]
<1>3. x \in RouteType /\ x.st = "ready" BY <1>2 DEF RouteType
<1>4. route' = [route EXCEPT ![r] = x] BY <1>1
<1> HIDE DEF x
<1>5. /\ route' \in [1..Routes -> RouteType] /\ route'[r] = x
      /\ \A i \in 1..Routes : i # r => route'[i] = route[i]
  BY <1>2, <1>3, <1>4
<1>6. QED BY <1>1, <1>3, <1>5 DEF RoutesStay

(* A write, done. *)
LEMMA ToolDoes ==
  ASSUME ToolInv, Mcp!At("send"), Mcp!Request \notin Mcp!Reads, Mcp!Does
  PROVE  /\ Served /\ Early(tool) /\ tool.did = 0 /\ tool.image = 0
         /\ effects' \in 0..2 /\ MovedBy(tool.name, tool.route, route', effects')
         /\ Mcp!Request = "preview" => \E r \in 1..Routes : route'[r] # route[r]
         /\ Mcp!Request \in {"run", "shoot"} =>
              Used(tool.route, route') /\ route'[tool.route] \in RouteType
<1>1. Requests(tool) /\ tool.pc # "idle" BY DEF Requests, Mcp!At
<1>2. Early(tool) /\ tool.did = 0 /\ tool.image = 0
  BY <1>1, ToolRequest DEF ToolInv, Scripted
<1>3. /\ effects \in {0, 1} /\ MovedBy(tool.name, tool.route, route, effects)
      /\ effects' = effects + (IF Mcp!Request \in Mcp!Moves THEN 1 ELSE 0)
  BY <1>1, <1>2 DEF ToolInv, ToolTyped, Intended, Mcp!Does
<1>4. effects' \in 0..2 BY <1>3
<1>5. /\ at \in 0..Reach /\ route \in [1..Routes -> RouteType] /\ ShotTyped(shot) /\ shot.n \in Nat
      /\ tool.from \in 0..Reach /\ RoutesStay(route, route) /\ Reach \in 0..Reach
      /\ 0 \in 0..Shots
  <2>1. /\ at \in 0..Reach /\ route \in [1..Routes -> RouteType] /\ ShotTyped(shot)
        /\ tool.from \in 0..Reach
    BY DEF ToolInv, ToolTyped, ToolType
  <2>2. shot.n \in Nat BY <2>1, LaptopAssumption DEF ShotTyped
  <2>3. Reach \in 0..Reach /\ 0 \in 0..Shots BY LaptopAssumption
  <2>4. RoutesStay(route, route) BY DEF RoutesStay
  <2>5. QED BY <2>1, <2>2, <2>3, <2>4
<1>6. CASE Mcp!Request = "move"
  <2>1. /\ at' = (IF tool.from < Reach THEN tool.from + 1 ELSE Reach) /\ UNCHANGED <<route, shot>>
    BY <1>6 DEF Mcp!Does
  <2>2. at' \in 0..Reach BY <2>1, <1>5, LaptopAssumption
  <2>3. Served BY <1>5, <2>1, <2>2 DEF Served
  <2>4. tool.name = "shift" BY <1>1, <1>6, ToolRequest
  <2>5. QED BY <1>2, <1>4, <1>6, <2>3, <2>4 DEF MovedBy, Router
<1>7. CASE Mcp!Request \in {"run", "shoot", "apply"}
  <2>1. tool.name = Mcp!Request BY <1>1, <1>7, ToolRequest
  <2>2. /\ at' \in {at, Reach}
        /\ \E mode \in Router, out \in Outs, frame \in 0..Shots : Mcp!Runs(mode, out, frame)
        /\ shot' = shot \/ Mcp!PhotographsFor
    <3>1. CASE Mcp!Request = "run" BY <3>1, <1>5 DEF Mcp!Does, Router, Outs
    <3>2. CASE Mcp!Request = "apply" BY <3>2, <1>5 DEF Mcp!Does, Router, Outs
    <3>3. CASE Mcp!Request = "shoot"
      <4>1. /\ at' \in {at, Reach}
            /\ \/ Mcp!Runs("shoot", "captured", shot.n + 1) /\ Mcp!PhotographsFor
               \/ Mcp!Runs("shoot", "fault", 0) /\ UNCHANGED shot
        BY <3>3 DEF Mcp!Does
      <4>2. Mcp!PhotographsFor => shot.n + 1 \in 0..Shots BY ToolPhotographs
      <4>3. QED BY <1>5, <4>1, <4>2 DEF Router, Outs
    <3>4. QED BY <1>7, <3>1, <3>2, <3>3
  <2>3. /\ route' \in [1..Routes -> RouteType] /\ RoutesStay(route, route')
        /\ route[tool.route].st = "ready" /\ Used(tool.route, route')
        /\ tool.route \in 1..Routes
    BY <2>2, ToolRuns
  <2>4. ShotTyped(shot') /\ shot.n <= shot'.n BY <1>5, <2>2, ToolPhotographs
  <2>5. Served BY <1>5, <2>2, <2>3, <2>4 DEF Served
  <2>6. effects = 0 BY <1>3, <1>7, <2>1, <2>3 DEF MovedBy, Router, Used
  <2>7. MovedBy(tool.name, tool.route, route', effects')
    BY <1>3, <1>7, <2>1, <2>3, <2>6 DEF MovedBy, Router, Mcp!Moves
  <2>8. QED BY <1>2, <1>4, <1>7, <2>3, <2>5, <2>7
<1>8. CASE Mcp!Request \notin {"move", "run", "shoot", "apply"}
  <2>1. effects' = effects BY <1>3, <1>8 DEF Mcp!Moves
  <2>2. tool.name \notin Router /\ tool.name # "shift"
    BY <1>1, <1>2, <1>8, ToolRequest DEF Router, Early, Mcp!Reads
  <2>3. MovedBy(tool.name, tool.route, route', effects') BY <1>3, <2>1, <2>2 DEF MovedBy
  <2>4. Served /\ (Mcp!Request = "preview" => \E r \in 1..Routes : route'[r] # route[r])
    <3>1. CASE Mcp!Request = "capture"
      <4>1. Mcp!Photographs /\ UNCHANGED <<at, route>> BY <3>1 DEF Mcp!Does
      <4>2. QED BY <1>5, <3>1, <4>1, ToolPhotographs DEF Served
    <3>2. CASE Mcp!Request \in {"zero", "release"}
      <4>1. UNCHANGED <<at, route, shot>> BY <3>2 DEF Mcp!Does
      <4>2. QED BY <3>2, <4>1, ToolUnserved
    <3>3. CASE Mcp!Request = "preview"
      <4>1. Mcp!Preview /\ UNCHANGED <<at, shot>> BY <3>3 DEF Mcp!Does
      <4>2. QED BY <1>5, <4>1, ToolPreview DEF Served
    <3>4. QED BY <1>1, <1>8, <3>1, <3>2, <3>3, ToolRequest DEF Mcp!Reads
  <2>5. QED BY <1>2, <1>4, <1>8, <2>3, <2>4
<1>9. QED BY <1>6, <1>7, <1>8

(* What is kept of a state when photographs and routes are added.           *)
LEMMA ToolKeeps ==
  ASSUME ToolInv, Served
  PROVE  /\ KeptTyped(kept, shot'.n)
         /\ Reported(result, route') /\ Settled(tool, route') /\ Scripted(tool, shot'.n)
         /\ \A name, e : \A i \in 0..Routes : MovedBy(name, i, route, e) => MovedBy(name, i, route', e)
<1>1. /\ shot.n \in Nat /\ shot'.n \in Nat /\ shot.n <= shot'.n /\ RoutesStay(route, route')
  BY LaptopAssumption DEF ToolInv, ToolTyped, ShotTyped, Served
<1>2. KeptTyped(kept, shot'.n)
  <2>1. \A x \in 1..shot.n : x \in 1..shot'.n BY <1>1
  <2>2. QED BY <2>1 DEF ToolInv, ToolTyped, KeptTyped
<1>3. tool.route \in 0..Routes /\ result.route \in 0..Routes
  BY DEF ToolInv, ToolTyped, ToolType, ResultType
<1>4. Reported(result, route') BY <1>1, <1>3, ToolStays DEF ToolInv, Reported
<1>5. Settled(tool, route') BY <1>1, <1>3, ToolStays DEF ToolInv, Settled
<1>6. Scripted(tool, shot'.n)
  <2>1. tool.image \in Nat BY DEF ToolInv, ToolTyped, ToolType
  <2>2. QED BY <1>1, <2>1 DEF ToolInv, Scripted
<1>7. \A name, e : \A i \in 0..Routes : MovedBy(name, i, route, e) => MovedBy(name, i, route', e)
  BY <1>1, ToolStays DEF MovedBy
<1>8. QED BY <1>2, <1>4, <1>5, <1>6, <1>7

(* A step of somebody else. *)
LEMMA ToolBeside ==
  ASSUME ToolInv, Served, toolLife' \in 1..ToolLives,
         UNCHANGED <<verified, kept, tool, result, toolTold, effects>>
  PROVE  ToolInv'
<1>1. ToolTyped' BY ToolKeeps DEF ToolInv, ToolTyped, Served
<1>2. tool.route \in 0..Routes /\ result.route \in 0..Routes
  BY DEF ToolInv, ToolTyped, ToolType, ResultType
<1>3. Intended' BY <1>2, ToolKeeps DEF ToolInv, Intended
<1>4. QED BY <1>1, <1>3, ToolKeeps DEF ToolInv

LEMMA ToolOthers ==
  ASSUME ToolInv, Mcp!Hand \/ Mcp!Dashboard \/ Mcp!Expires \/ Mcp!Restart \/ UNCHANGED assistant
  PROVE  ToolInv'
<1>1. /\ at \in 0..Reach /\ route \in [1..Routes -> RouteType] /\ ShotTyped(shot)
      /\ toolLife \in 1..ToolLives
  BY DEF ToolInv, ToolTyped
<1>2. shot.n \in Nat /\ RoutesStay(route, route) BY <1>1, LaptopAssumption DEF ShotTyped, RoutesStay
<1>3. CASE Mcp!Hand
  <2>1. at' \in 0..Reach /\ UNCHANGED <<toolLife, route, shot, verified, kept, tool, result, toolTold, effects>>
    BY <1>3 DEF Mcp!Hand, Mcp!client
  <2>2. Served BY <1>1, <1>2, <2>1 DEF Served
  <2>3. QED BY <1>1, <2>1, <2>2, ToolBeside
<1>4. CASE Mcp!Dashboard
  <2>1. Mcp!Photographs /\ UNCHANGED <<toolLife, at, route, verified, kept, tool, result, toolTold, effects>>
    BY <1>4 DEF Mcp!Dashboard, Mcp!client
  <2>2. Served BY <1>1, <1>2, <2>1, ToolPhotographs DEF Served
  <2>3. QED BY <1>1, <2>1, <2>2, ToolBeside
<1>5. CASE Mcp!Expires
  <2>1. PICK x \in shot.transfers : shot' = [shot EXCEPT !.transfers = shot.transfers \ {x}]
    BY <1>5 DEF Mcp!Expires
  <2>2. UNCHANGED <<toolLife, at, route, verified, kept, tool, result, toolTold, effects>>
    BY <1>5 DEF Mcp!Expires, Mcp!client
  <2>3. shot' = [n |-> shot.n, history |-> shot.history, transfers |-> shot.transfers \ {x}]
    BY <1>1, <2>1 DEF ShotTyped
  <2>4. ShotTyped(shot') /\ shot'.n = shot.n BY <1>1, <2>3 DEF ShotTyped
  <2>5. Served BY <1>1, <1>2, <2>2, <2>4 DEF Served
  <2>6. QED BY <1>1, <2>2, <2>5, ToolBeside
<1>6. CASE Mcp!Restart
  <2>1. /\ toolLife < ToolLives /\ toolLife' = toolLife + 1
        /\ route' = [r \in 1..Routes |-> IF route[r].st = "none" THEN route[r]
                                         ELSE [route[r] EXCEPT !.st = "gone"]]
        /\ shot' = [shot EXCEPT !.history = {}, !.transfers = {}]
        /\ UNCHANGED <<at, verified, kept, tool, result, toolTold, effects>>
    BY <1>6 DEF Mcp!Restart, Mcp!client
  <2>2. toolLife' \in 1..ToolLives BY <1>1, <2>1, LaptopAssumption
  <2>3. \A r \in 1..Routes : /\ [route[r] EXCEPT !.st = "gone"] \in RouteType
                             /\ [route[r] EXCEPT !.st = "gone"].st = "gone"
                             /\ [route[r] EXCEPT !.st = "gone"].out = route[r].out
                             /\ [route[r] EXCEPT !.st = "gone"].frame = route[r].frame
    BY <1>1 DEF RouteType
  <2>4. route' \in [1..Routes -> RouteType] /\ RoutesStay(route, route')
    BY <1>1, <2>1, <2>3 DEF RoutesStay
  <2>5. shot' = [n |-> shot.n, history |-> {}, transfers |-> {}] BY <1>1, <2>1 DEF ShotTyped
  <2>6. ShotTyped(shot') /\ shot'.n = shot.n BY <1>1, <2>5 DEF ShotTyped
  <2>7. Served BY <1>1, <1>2, <2>1, <2>4, <2>6 DEF Served
  <2>8. QED BY <2>1, <2>2, <2>7, ToolBeside
<1>7. CASE UNCHANGED assistant
  <2>1. /\ UNCHANGED <<at, route, shot>>
        /\ UNCHANGED <<toolLife, verified, kept, tool, result, toolTold, effects>>
    BY <1>7 DEF assistant
  <2>2. QED BY <1>1, <2>1, ToolUnserved, ToolBeside
<1>8. QED BY <1>3, <1>4, <1>5, <1>6, <1>7

LEMMA ToolNoTool ==
  /\ Mcp!NoTool \in ToolType /\ Mcp!NoTool.pc = "idle" /\ Mcp!NoTool.name = "none"
  /\ \A n : Scripted(Mcp!NoTool, n)
  /\ \A r : Settled(Mcp!NoTool, r)
<1>1. 0 \in 0..Reach /\ 0 \in 0..Routes BY LaptopAssumption
<1>2. QED BY <1>1
  DEF Mcp!NoTool, ToolType, Outs, Scripted, Settled, Requests, Early

(* The call is answered, and what was done for it stays done. *)
LEMMA ToolAnswers ==
  ASSUME ToolInv, tool.pc # "idle", Served, toolLife' = toolLife,
         NEW ok \in BOOLEAN, NEW retry \in BOOLEAN, Mcp!Answer(ok, retry),
         verified' \in 0..ToolLives, KeptTyped(kept', shot'.n),
         effects' \in 0..2, MovedBy(tool.name, tool.route, route', effects'),
         toolTold' \in [route : 0..Routes, frame : Nat],
         tool.name \in Router => toolTold'.route = tool.route,
         ok => /\ tool.name = "run" => CameTo(tool.route, route', "completed", 0)
               /\ tool.name = "shoot" => CameTo(tool.route, route', "captured", tool.image)
  PROVE  ToolInv'
<1> DEFINE a == [name |-> tool.name, ok |-> ok, retry |-> retry, label |-> verified,
                 life |-> tool.life, want |-> tool.frame, image |-> tool.image, route |-> tool.route]
<1>1. result' = a /\ tool' = Mcp!NoTool BY DEF Mcp!Answer
<1>2. tool \in ToolType /\ verified \in Nat BY LaptopAssumption DEF ToolInv, ToolTyped
<1>3. a \in ResultType BY <1>2 DEF ToolType, ResultType
<1>4. /\ a.name = tool.name /\ a.ok = ok /\ a.want = tool.frame /\ a.image = tool.image
      /\ a.route = tool.route
  OBVIOUS
<1> HIDE DEF a
<1>5. ToolTyped' BY <1>1, <1>3, ToolNoTool DEF ToolInv, ToolTyped, Served
<1>6. Intended' BY <1>1, <1>4, ToolNoTool DEF Intended
<1>7. tool.image # 0 => tool.image = tool.frame BY DEF ToolInv, Scripted
<1>8. Reported(result', route') BY <1>1, <1>4, <1>7 DEF Reported
<1>9. Scripted(tool', shot'.n) /\ Settled(tool', route') BY <1>1, ToolNoTool
<1>10. QED BY <1>5, <1>6, <1>8, <1>9 DEF ToolInv

(* An error result; or the pose arm_look reads last stays empty. *)
LEMMA ToolFails ==
  ASSUME ToolInv, tool.pc # "idle", Served, toolLife' = toolLife, NEW retry \in BOOLEAN,
         Mcp!Fails(retry), verified' \in 0..ToolLives, kept' = kept,
         effects' \in 0..2, MovedBy(tool.name, tool.route, route', effects')
  PROVE  ToolInv'
<1>1. /\ tool \in ToolType /\ toolTold \in [route : 0..Routes, frame : Nat]
      /\ tool.route \in 0..Routes
  BY DEF ToolInv, ToolTyped, ToolType
<1>2. tool.name # "plan" => tool.route = toolTold.route BY DEF ToolInv, Intended
<1>3. CASE Mcp!AtLastRead
  <2>1. tool' = [tool EXCEPT !.pc = "finish"] /\ UNCHANGED <<result, toolTold>>
    BY <1>3 DEF Mcp!Fails
  <2>2. /\ tool' \in ToolType /\ tool'.name = tool.name /\ tool'.route = tool.route
        /\ tool'.frame = tool.frame /\ tool'.image = tool.image /\ tool'.pc = "finish"
    BY <1>1, <2>1, ZenonT(40) DEF ToolType
  <2>3. tool.name = "look" BY <1>3 DEF Mcp!AtLastRead
  <2>4. ToolTyped' BY <2>1, <2>2, ToolKeeps DEF ToolInv, ToolTyped, Served
  <2>5. Scripted(tool', shot'.n) BY <2>2, <2>3, ToolKeeps DEF Scripted, Requests, Early
  <2>6. Settled(tool', route') BY <2>2, <2>3 DEF Settled
  <2>7. Intended' BY <1>2, <2>1, <2>2, <2>3 DEF Intended, Early, Requests
  <2>8. Reported(result', route') BY <2>1, ToolKeeps
  <2>9. QED BY <2>4, <2>5, <2>6, <2>7, <2>8 DEF ToolInv
<1>4. CASE ~Mcp!AtLastRead
  <2>1. Mcp!Answer(FALSE, retry) /\ UNCHANGED toolTold BY <1>4 DEF Mcp!Fails
  <2>2. tool.name \in Router => tool.route = toolTold.route BY <1>2 DEF Router
  <2>3. KeptTyped(kept', shot'.n) BY ToolKeeps
  <2>4. QED BY <1>1, <2>1, <2>2, <2>3, ToolAnswers
<1>5. QED BY <1>3, <1>4

LEMMA ToolUnmoved ==
  ASSUME ToolInv, tool.pc # "idle", UNCHANGED <<at, route, shot, effects>>
  PROVE  Served /\ effects' \in 0..2 /\ MovedBy(tool.name, tool.route, route', effects')
BY ToolUnserved DEF ToolInv, ToolTyped, Intended

(* An answer that came: the call goes on with t. *)
LEMMA ToolGoesOn ==
  ASSUME ToolInv, Mcp!At("send"), Served, UNCHANGED <<toolLife, verified, kept, result, toolTold>>,
         NEW t \in ToolType, t.name = tool.name, t.step = tool.step, Mcp!Replies(t),
         effects' \in 0..2, MovedBy(tool.name, t.route, route', effects'),
         tool.name # "plan" => t.route = tool.route,
         t.image # 0 => t.image = t.frame /\ t.image <= shot'.n,
         tool.name = "shoot" /\ tool.step = 2 => t.image = t.frame,
         tool.name = "shift" /\ tool.step = 1 => t.did = 0 /\ t.image = 0 /\ effects' <= 1,
         tool.name \in {"run", "shoot"} => CameTo(t.route, route', t.out, t.frame)
  PROVE  ToolInv'
<1>1. Requests(tool) /\ tool.pc # "idle" BY DEF Requests, Mcp!At
<1>2. /\ tool' \in ToolType /\ tool'.name = tool.name /\ tool'.route = t.route
      /\ tool'.frame = t.frame /\ tool'.image = t.image /\ tool'.out = t.out /\ tool'.did = t.did
      /\ \/ tool.step < Len(Mcp!Script[tool.name]) /\ tool'.step = tool.step + 1
            /\ tool'.pc = "verify"
         \/ tool.step = Len(Mcp!Script[tool.name]) /\ tool'.step = tool.step
            /\ tool'.pc = "finish"
  BY ToolReplies
<1>3. /\ tool.name \in ToolNames /\ tool.step \in 1..3 /\ tool.step <= Len(Mcp!Script[tool.name])
      /\ Len(Mcp!Script[tool.name]) \in 1..3
      /\ tool.name = "shoot" => Len(Mcp!Script[tool.name]) = 2
      /\ tool.name = "shift" => Len(Mcp!Script[tool.name]) = 2
  BY <1>1, ToolRequest, ToolScripts
<1>4. ToolTyped' BY <1>2, ToolKeeps DEF ToolInv, ToolTyped, Served
<1>5. /\ tool'.pc \in {"verify", "finish"}
      /\ tool'.pc = "verify" =>
           /\ tool'.step <= Len(Mcp!Script[tool.name]) /\ tool'.step # 1
           /\ tool'.name = "shift" => tool.step = 1
      /\ tool'.pc = "finish" /\ tool.name = "shoot" => tool.step = 2
  <2>1. CASE tool'.pc = "verify"
    <3>1. tool'.step = tool.step + 1 /\ tool.step < Len(Mcp!Script[tool.name]) BY <1>2, <2>1
    <3>2. \A a, b \in 1..3 : a < b => a + 1 <= b /\ a + 1 # 1 /\ (b = 2 => a = 1) OBVIOUS
    <3>3. QED BY <1>2, <1>3, <2>1, <3>1, <3>2
  <2>2. CASE tool'.pc = "finish" BY <1>2, <1>3, <2>2
  <2>3. QED BY <1>2, <2>1, <2>2
<1>6. Early(tool') => tool.name = "shift" /\ tool.step = 1 BY <1>2, <1>5 DEF Early, Requests
<1>7. Scripted(tool', shot'.n) BY <1>2, <1>3, <1>5, <1>6 DEF Scripted, Requests
<1>8. Settled(tool', route') BY <1>2 DEF Settled
<1>9. Intended' BY <1>1, <1>2, <1>5, <1>6 DEF ToolInv, Intended
<1>10. QED BY <1>4, <1>7, <1>8, <1>9, ToolKeeps DEF ToolInv

LEMMA ToolCall == ASSUME ToolInv, Mcp!Call PROVE ToolInv'
<1>1. PICK n \in Tools :
        /\ tool.pc = "idle"
        /\ tool' = [Mcp!NoTool EXCEPT !.name = n, !.route = toolTold.route, !.frame = toolTold.frame,
                                      !.pc = IF Mcp!Script[n] = <<>> THEN "crop" ELSE "verify"]
        /\ \/ effects' = 0
           \/ ~result.ok /\ result.retry /\ result.name = n /\ effects < 2 /\ UNCHANGED effects
        /\ UNCHANGED <<toolLife, at, route, shot, verified, kept, result, toolTold>>
  BY DEF Mcp!Call, Mcp!At, Mcp!gateway
<1>2. n \in ToolNames BY LaptopAssumption DEF ToolNames
<1>3. /\ toolTold \in [route : 0..Routes, frame : Nat] /\ effects \in 0..2
      /\ MovedBy(result.name, result.route, route, effects)
      /\ result.name \in Router => result.route = toolTold.route
  BY <1>1 DEF ToolInv, ToolTyped, Intended
<1> DEFINE p == IF Mcp!Script[n] = <<>> THEN "crop" ELSE "verify"
<1>4. tool' = [pc |-> p, name |-> n, step |-> 1, again |-> FALSE, from |-> 0,
               route |-> toolTold.route, frame |-> toolTold.frame, image |-> 0, out |-> "none",
               did |-> 0, life |-> 0]
  BY <1>1 DEF Mcp!NoTool
<1>5. /\ p \in {"crop", "verify"} /\ (p = "verify" => Len(Mcp!Script[n]) \in 1..3)
      /\ p = "crop" => n = "detail"
  <2>1. (p = "verify" => n # "detail") /\ (p = "crop" => n = "detail") BY <1>2, ToolScripts
  <2>2. n # "detail" => Len(Mcp!Script[n]) \in {1, 2, 3} BY <1>2, ToolScripts
  <2>3. QED BY <2>1, <2>2
<1> HIDE DEF p
<1>6. 0 \in 0..Reach /\ toolTold.route \in 0..Routes /\ toolTold.frame \in Nat
  BY <1>3, LaptopAssumption
<1>7. tool' \in ToolType BY <1>2, <1>4, <1>5, <1>6 DEF ToolType, Outs
<1>8. /\ tool'.pc = p /\ tool'.name = n /\ tool'.step = 1 /\ tool'.route = toolTold.route
      /\ tool'.image = 0 /\ tool'.did = 0
  BY <1>4
<1>9. effects' \in {0, 1} /\ MovedBy(n, toolTold.route, route, effects')
  <2>1. CASE effects' = 0 BY <2>1 DEF MovedBy
  <2>2. CASE result.name = n /\ effects < 2 /\ effects' = effects BY <1>3, <2>2 DEF MovedBy
  <2>3. QED BY <1>1, <2>1, <2>2
<1>10. ToolTyped' BY <1>1, <1>7, <1>9 DEF ToolInv, ToolTyped
<1>11. Scripted(tool', shot'.n)
  <2>1. p = "verify" => 1 <= Len(Mcp!Script[n]) BY <1>5
  <2>2. QED BY <1>2, <1>5, <1>8, <2>1 DEF Scripted, Requests
<1>12. Settled(tool', route') BY <1>5, <1>8 DEF Settled
<1>13. Intended' BY <1>1, <1>5, <1>8, <1>9 DEF Intended
<1>14. Reported(result', route') BY <1>1 DEF ToolInv
<1>15. QED BY <1>10, <1>11, <1>12, <1>13, <1>14 DEF ToolInv

LEMMA ToolVerify == ASSUME ToolInv, Mcp!Verify PROVE ToolInv'
<1>1. tool.pc = "verify" /\ UNCHANGED <<toolLife, at, route, shot, kept, effects>>
  BY DEF Mcp!Verify, Mcp!At, Mcp!gateway
<1>2. toolLife \in 0..ToolLives /\ verified \in 0..ToolLives
  BY LaptopAssumption DEF ToolInv, ToolTyped
<1>3. CASE verified' = toolLife /\ tool' = [tool EXCEPT !.pc = "send"] /\ UNCHANGED <<result, toolTold>>
  <2>1. /\ tool' \in ToolType /\ tool'.name = tool.name /\ tool'.route = tool.route
        /\ tool'.frame = tool.frame /\ tool'.image = tool.image /\ tool'.pc = "send"
        /\ tool'.out = tool.out /\ tool'.did = tool.did /\ tool'.step = tool.step
    <3>1. tool \in ToolType BY DEF ToolInv, ToolTyped
    <3>2. QED BY <1>3, <3>1, ZenonT(40) DEF ToolType
  <2>2. ToolTyped' BY <1>1, <1>2, <1>3, <2>1 DEF ToolInv, ToolTyped
  <2>3. Scripted(tool', shot'.n) BY <1>1, <2>1 DEF ToolInv, Scripted, Requests, Early
  <2>4. Settled(tool', route') BY <1>1, <2>1 DEF ToolInv, Settled, Requests
  <2>5. Intended' BY <1>1, <1>3, <2>1 DEF ToolInv, Intended, Early, Requests
  <2>6. Reported(result', route') BY <1>1, <1>3 DEF ToolInv
  <2>7. QED BY <2>2, <2>3, <2>4, <2>5, <2>6 DEF ToolInv
<1>4. CASE Mcp!Fails(TRUE) /\ UNCHANGED verified
  BY <1>1, <1>2, <1>4, ToolUnmoved, ToolFails
<1>5. QED BY <1>3, <1>4 DEF Mcp!Verify

LEMMA ToolRefused == ASSUME ToolInv, Mcp!Refused PROVE ToolInv'
<1>1. /\ tool.pc = "send" /\ Mcp!Fails(FALSE)
      /\ UNCHANGED <<toolLife, at, route, shot, verified, kept, effects>>
  BY DEF Mcp!Refused, Mcp!At, Mcp!gateway
<1>2. verified' \in 0..ToolLives BY <1>1 DEF ToolInv, ToolTyped
<1>3. QED BY <1>1, <1>2, ToolUnmoved, ToolFails

LEMMA ToolMayBeDone ==
  ASSUME ToolInv, Mcp!At("send"), Mcp!MayBeDone
  PROVE  Served /\ effects' \in 0..2 /\ MovedBy(tool.name, tool.route, route', effects')
<1>1. tool.pc # "idle" BY DEF Mcp!At
<1>2. QED BY <1>1, ToolUnmoved, ToolDoes DEF Mcp!MayBeDone

LEMMA ToolBroken == ASSUME ToolInv, Mcp!Broken PROVE ToolInv'
<1>1. /\ Mcp!At("send") /\ tool.pc # "idle" /\ Mcp!Fails(TRUE) /\ Mcp!MayBeDone
      /\ UNCHANGED <<toolLife, verified, kept>>
  BY DEF Mcp!Broken, Mcp!At
<1>2. verified' \in 0..ToolLives BY <1>1 DEF ToolInv, ToolTyped
<1>3. QED BY <1>1, <1>2, ToolMayBeDone, ToolFails

(* A read is asked again; a write is not. *)
LEMMA ToolUnanswered == ASSUME ToolInv, Mcp!Unanswered PROVE ToolInv'
<1>1. /\ Mcp!At("send") /\ tool.pc = "send" /\ Mcp!MayBeDone
      /\ UNCHANGED <<toolLife, verified, kept>>
  BY DEF Mcp!Unanswered, Mcp!At
<1>2. verified' \in 0..ToolLives BY <1>1 DEF ToolInv, ToolTyped
<1>3. CASE Mcp!Request = "read" /\ tool' = [tool EXCEPT !.again = TRUE] /\ UNCHANGED <<result, toolTold>>
  <2>1. UNCHANGED <<at, route, shot, effects>>
    BY <1>1, <1>3 DEF Mcp!MayBeDone, Mcp!Reads
  <2>2. /\ tool' \in ToolType /\ tool'.name = tool.name /\ tool'.route = tool.route
        /\ tool'.frame = tool.frame /\ tool'.image = tool.image /\ tool'.pc = tool.pc
        /\ tool'.out = tool.out /\ tool'.did = tool.did /\ tool'.step = tool.step
    <3>1. tool \in ToolType BY DEF ToolInv, ToolTyped
    <3>2. QED BY <1>3, <3>1, ZenonT(40) DEF ToolType
  <2>3. ToolTyped' BY <1>1, <1>3, <2>1, <2>2 DEF ToolInv, ToolTyped
  <2>4. Scripted(tool', shot'.n) BY <2>1, <2>2 DEF ToolInv, Scripted, Requests, Early
  <2>5. Settled(tool', route') BY <2>1, <2>2 DEF ToolInv, Settled, Requests
  <2>6. Intended' BY <1>3, <2>1, <2>2 DEF ToolInv, Intended, Early, Requests
  <2>7. Reported(result', route') BY <1>3, <2>1 DEF ToolInv
  <2>8. QED BY <2>3, <2>4, <2>5, <2>6, <2>7 DEF ToolInv
<1>4. CASE Mcp!Fails(Mcp!Request \in Mcp!Reads)
  <2>1. (Mcp!Request \in Mcp!Reads) \in BOOLEAN OBVIOUS
  <2>2. QED BY <1>1, <1>2, <1>4, <2>1, ToolMayBeDone, ToolFails
<1>5. QED BY <1>3, <1>4 DEF Mcp!Unanswered

(* The answer of a write. *)
LEMMA ToolWritten == ASSUME ToolInv, Mcp!Written PROVE ToolInv'
<1>1. /\ Mcp!At("send") /\ Requests(tool) /\ Mcp!Request \notin Mcp!Reads /\ Mcp!Does
      /\ UNCHANGED <<toolLife, verified, kept, result, toolTold>>
  BY DEF Mcp!Written, Mcp!At, Requests
<1>2. /\ Served /\ Early(tool) /\ tool.did = 0 /\ tool.image = 0
      /\ effects' \in 0..2 /\ MovedBy(tool.name, tool.route, route', effects')
      /\ Mcp!Request = "preview" => \E r \in 1..Routes : route'[r] # route[r]
      /\ Mcp!Request \in {"run", "shoot"} =>
           Used(tool.route, route') /\ route'[tool.route] \in RouteType
  BY <1>1, ToolDoes
<1>3. /\ tool \in ToolType /\ shot'.n \in Nat /\ 0 <= shot'.n
      /\ tool.name = "shift" => tool.step = 2
      /\ tool.name = "shoot" => tool.step = 1
      /\ tool.name \in {"run", "shoot"} <=> Mcp!Request \in {"run", "shoot"}
      /\ Mcp!Request = "preview" <=> tool.name = "plan"
  <2>1. tool \in ToolType BY DEF ToolInv, ToolTyped
  <2>2. shot'.n \in Nat /\ 0 <= shot'.n BY <1>2, LaptopAssumption DEF Served, ShotTyped
  <2>3. Mcp!Request \in {"move", "run", "shoot", "apply", "capture", "zero", "release", "preview"}
    BY <1>1, ToolRequest DEF Mcp!Reads
  <2>4. QED BY <1>1, <2>1, <2>2, <2>3, ToolRequest DEF Mcp!Reads
<1> DEFINE d == [tool EXCEPT !.did = tool.did + 1]
<1>4. /\ d \in ToolType /\ d.name = tool.name /\ d.step = tool.step /\ d.route = tool.route
      /\ d.frame = tool.frame /\ d.image = tool.image /\ d.out = tool.out
  <2>1. tool.did + 1 \in {0, 1} BY <1>2
  <2>2. QED BY <1>3, <2>1, ZenonT(40) DEF ToolType
<1>5. d = Mcp!Done BY DEF Mcp!Done
<1> HIDE DEF d
<1>6. CASE Mcp!Request \in {"run", "shoot"}
  <2> DEFINE o == route'[tool.route].out
             f == route'[tool.route].frame
             t == [d EXCEPT !.out = o, !.frame = f]
  <2>1. Mcp!Replies(t) BY <1>5, <1>6 DEF Mcp!Written
  <2>2. o \in Outs /\ f \in Nat BY <1>2, <1>6, LaptopAssumption DEF RouteType
  <2>3. CameTo(tool.route, route', o, f) BY <1>2, <1>6 DEF CameTo
  <2> HIDE DEF o, f
  <2>4. /\ t \in ToolType /\ t.name = d.name /\ t.step = d.step /\ t.route = d.route
        /\ t.image = d.image /\ t.out = o /\ t.frame = f
    BY <1>4, <2>2, ZenonT(40) DEF ToolType
  <2> HIDE DEF t
  <2>5. tool.name \notin {"plan", "shift"} /\ ~(tool.name = "shoot" /\ tool.step = 2) BY <1>3, <1>6
  <2>6. QED BY <1>1, <1>2, <1>4, <2>1, <2>3, <2>4, <2>5, ToolGoesOn
<1>7. CASE Mcp!Request = "capture"
  <2> DEFINE t == [d EXCEPT !.frame = shot'.n]
  <2>1. Mcp!Replies(t) BY <1>5, <1>7 DEF Mcp!Written
  <2>2. /\ t \in ToolType /\ t.name = d.name /\ t.step = d.step /\ t.route = d.route
        /\ t.image = d.image
    BY <1>3, <1>4, ZenonT(40) DEF ToolType
  <2> HIDE DEF t
  <2>3. tool.name \notin {"plan", "shift", "run", "shoot"} BY <1>1, <1>7, ToolRequest
  <2>4. QED BY <1>1, <1>2, <1>4, <2>1, <2>2, <2>3, ToolGoesOn
<1>8. CASE Mcp!Request = "preview"
  <2> DEFINE q == CHOOSE r \in 1..Routes : route'[r] # route[r]
             t == [d EXCEPT !.route = q]
  <2>1. Mcp!Replies(t) BY <1>5, <1>8 DEF Mcp!Written
  <2>2. q \in 1..Routes BY <1>2, <1>8
  <2>3. q \in 0..Routes BY <2>2, LaptopAssumption
  <2> HIDE DEF q
  <2>4. /\ t \in ToolType /\ t.name = d.name /\ t.step = d.step /\ t.image = d.image
    BY <1>4, <2>3, ZenonT(40) DEF ToolType
  <2> HIDE DEF t
  <2>5. tool.name = "plan" BY <1>3, <1>8
  <2>6. MovedBy(tool.name, t.route, route', effects') BY <1>2, <2>5 DEF MovedBy, Router
  <2>7. QED BY <1>1, <1>2, <1>4, <2>1, <2>4, <2>5, <2>6, ToolGoesOn
<1>9. CASE Mcp!Request = "zero"
  <2>1. PICK out \in {"proved", "unproved"} : Mcp!Replies([d EXCEPT !.out = out])
    BY <1>5, <1>9 DEF Mcp!Written
  <2> DEFINE t == [d EXCEPT !.out = out]
  <2>2. /\ t \in ToolType /\ t.name = d.name /\ t.step = d.step /\ t.route = d.route
        /\ t.image = d.image
    BY <1>4, <2>1, ZenonT(40) DEF ToolType
  <2>3. Mcp!Replies(t) BY <2>1
  <2> HIDE DEF t
  <2>4. tool.name = "zero" BY <1>1, <1>9, ToolRequest
  <2>5. QED BY <1>1, <1>2, <1>4, <2>2, <2>3, <2>4, ToolGoesOn
<1>10. CASE Mcp!Request \notin {"run", "shoot", "capture", "preview", "zero"}
  <2>1. Mcp!Replies(d) BY <1>5, <1>10 DEF Mcp!Written
  <2>2. tool.name \notin {"plan", "run", "shoot"} /\ ~(tool.name = "shift" /\ tool.step = 1)
    BY <1>3, <1>10
  <2>3. QED BY <1>1, <1>2, <1>4, <2>1, <2>2, ToolGoesOn
<1>11. QED BY <1>6, <1>7, <1>8, <1>9, <1>10

(* A route that ran answers from its receipt, without moving again. *)
LEMMA ToolReceipt == ASSUME ToolInv, Mcp!Receipt PROVE ToolInv'
<1> DEFINE r == route[tool.route]
           o == IF r.out = "captured" /\ r.frame \notin shot.transfers
                THEN "capture_unavailable" ELSE r.out
           t == [tool EXCEPT !.frame = r.frame, !.out = o]
<1>1. /\ Mcp!At("send") /\ Requests(tool) /\ tool.pc # "idle" /\ Mcp!Request \in {"run", "shoot"}
      /\ tool.route # 0 /\ r.st = "spent" /\ Mcp!Replies(t)
      /\ UNCHANGED <<toolLife, at, route, shot, verified, kept, result, toolTold, effects>>
  BY DEF Mcp!Receipt, Mcp!At, Requests, Mcp!gateway, Mcp!client
<1>2. tool \in ToolType /\ tool.route \in 1..Routes /\ r \in RouteType
  BY <1>1, LaptopAssumption DEF ToolInv, ToolTyped, ToolType
<1>3. o \in Outs \cup {"capture_unavailable"} /\ r.frame \in Nat
  BY <1>2, LaptopAssumption DEF RouteType
<1>4. CameTo(tool.route, route, o, r.frame) BY <1>1 DEF CameTo, Used
<1> HIDE DEF r, o
<1>5. /\ t \in ToolType /\ t.name = tool.name /\ t.step = tool.step /\ t.route = tool.route
      /\ t.image = tool.image /\ t.frame = r.frame /\ t.out = o
  BY <1>2, <1>3, ZenonT(40) DEF ToolType
<1> HIDE DEF t
<1>6. /\ tool.name = Mcp!Request /\ tool.name \in {"run", "shoot"} /\ tool.step = 1
  BY <1>1, ToolRequest DEF Mcp!Reads
<1>7. tool.image = 0 BY <1>1, <1>6 DEF ToolInv, Scripted, Early
<1>8. Served /\ effects' \in 0..2 /\ MovedBy(tool.name, tool.route, route', effects')
  BY <1>1, ToolUnmoved
<1>9. QED BY <1>1, <1>4, <1>5, <1>6, <1>7, <1>8, ToolGoesOn

LEMMA ToolRead == ASSUME ToolInv, Mcp!Read PROVE ToolInv'
<1>1. /\ Mcp!At("send") /\ Requests(tool) /\ tool.pc # "idle"
      /\ UNCHANGED <<toolLife, at, route, verified, kept, result, toolTold, effects>>
  BY DEF Mcp!Read, Mcp!At, Requests, Mcp!client
<1>2. /\ tool \in ToolType /\ at \in 0..Reach /\ ShotTyped(shot) /\ shot.n \in Nat
      /\ route \in [1..Routes -> RouteType] /\ effects \in 0..2
      /\ MovedBy(tool.name, tool.route, route, effects)
  BY <1>1, LaptopAssumption DEF ToolInv, ToolTyped, Intended, ShotTyped
<1>3. RoutesStay(route, route) BY DEF RoutesStay
<1>4. /\ tool.image # 0 => tool.image = tool.frame /\ tool.image <= shot.n
      /\ tool.name = "shift" /\ tool.step = 1 => tool.did = 0 /\ tool.image = 0 /\ effects <= 1
  BY <1>1 DEF ToolInv, Scripted, Intended, Early
<1>5. tool.name \in {"run", "shoot"} /\ tool.step > 1
        => CameTo(tool.route, route, tool.out, tool.frame)
  BY <1>1 DEF ToolInv, Settled
<1>6. CASE Mcp!Pose
  <2> DEFINE t == [tool EXCEPT !.from = at]
  <2>1. Mcp!Request = "read" /\ Mcp!Replies(t) /\ UNCHANGED shot BY <1>6 DEF Mcp!Pose
  <2>2. /\ t \in ToolType /\ t.name = tool.name /\ t.step = tool.step /\ t.route = tool.route
        /\ t.image = tool.image /\ t.frame = tool.frame /\ t.did = tool.did
    BY <1>2, ZenonT(40) DEF ToolType
  <2> HIDE DEF t
  <2>3. Served BY <1>1, <1>2, <1>3, <2>1 DEF Served
  <2>4. tool.name \in {"state", "shift", "look"} BY <1>1, <2>1, ToolRequest
  <2>5. QED BY <1>1, <1>2, <1>4, <2>1, <2>2, <2>3, <2>4, ToolGoesOn
<1> DEFINE t == [tool EXCEPT !.image = tool.frame]
<1>7. /\ t \in ToolType /\ t.name = tool.name /\ t.step = tool.step /\ t.route = tool.route
      /\ t.image = tool.frame /\ t.frame = tool.frame /\ t.did = tool.did /\ t.out = tool.out
  <2>1. tool.frame \in Nat BY <1>2 DEF ToolType
  <2>2. QED BY <1>2, <2>1, ZenonT(40) DEF ToolType
<1>8. ASSUME Mcp!Request \in {"transfer", "frame"}, tool.frame \in 1..shot.n, Mcp!Replies(t),
             ShotTyped(shot'), shot'.n = shot.n
      PROVE  ToolInv'
  <2> HIDE DEF t
  <2>1. Served BY <1>1, <1>2, <1>3, <1>8 DEF Served
  <2>2. tool.name \in {"shoot", "look"} /\ tool.step = 2 BY <1>1, <1>8, ToolRequest
  <2>3. tool.frame <= shot'.n BY <1>2, <1>8
  <2>4. QED BY <1>1, <1>2, <1>5, <1>7, <1>8, <2>1, <2>2, <2>3, ToolGoesOn
<1>9. CASE Mcp!Transfer
  <2>1. /\ Mcp!Request = "transfer" /\ tool.frame \in shot.transfers /\ Mcp!Replies(t)
        /\ shot' = [shot EXCEPT !.transfers = shot.transfers \ {tool.frame}]
    BY <1>9 DEF Mcp!Transfer
  <2>2. /\ shot' = [n |-> shot.n, history |-> shot.history,
                    transfers |-> shot.transfers \ {tool.frame}]
        /\ tool.frame \in 1..shot.n
    BY <1>2, <2>1 DEF ShotTyped
  <2>3. ShotTyped(shot') /\ shot'.n = shot.n BY <1>2, <2>2 DEF ShotTyped
  <2>4. QED BY <1>8, <2>1, <2>2, <2>3
<1>10. CASE Mcp!Request = "frame" /\ tool.frame \in shot.history /\ UNCHANGED shot /\ Mcp!Replies(t)
  <2>1. tool.frame \in 1..shot.n BY <1>2, <1>10 DEF ShotTyped
  <2>2. QED BY <1>2, <1>8, <1>10, <2>1
<1>11. QED BY <1>6, <1>9, <1>10 DEF Mcp!Read

(* The photograph is kept; the oldest may go. *)
LEMMA ToolKeep ==
  ASSUME ToolInv, tool.image \in 1..shot.n, Mcp!Keep(tool.image)
  PROVE  KeptTyped(kept', shot.n)
<1> DEFINE e == [id |-> tool.image, life |-> tool.life]
           T == [id : Nat, life : Nat]
           all == Append(kept, e)
<1>1. kept' = kept \/ kept' = IF Len(all) > KeptFrames THEN Tail(all) ELSE all
  BY DEF Mcp!Keep
<1>2. /\ kept \in Seq(T) /\ Len(kept) <= KeptFrames /\ Len(kept) \in Nat
      /\ \A k \in 1..Len(kept) : kept[k].id \in 1..shot.n
      /\ KeptFrames \in Nat
  BY LenProperties, LaptopAssumption DEF ToolInv, ToolTyped, KeptTyped
<1>3. e \in T /\ e.id = tool.image BY DEF ToolInv, ToolTyped, ToolType
<1> HIDE DEF e
<1>4. /\ all \in Seq(T) /\ Len(all) = Len(kept) + 1
      /\ \A k \in 1..Len(kept) : all[k] = kept[k]
      /\ all[Len(kept) + 1] = e
  BY <1>2, <1>3, AppendProperties
<1>5. \A k \in 1..Len(all) : all[k].id \in 1..shot.n
  <2> SUFFICES ASSUME NEW k \in 1..Len(all) PROVE all[k].id \in 1..shot.n OBVIOUS
  <2>1. k \in 1..Len(kept) \/ k = Len(kept) + 1 BY <1>2, <1>4
  <2>2. QED BY <1>2, <1>3, <1>4, <2>1
<1> HIDE DEF all
<1>6. CASE kept' = kept BY <1>2, <1>6 DEF KeptTyped
<1>7. CASE Len(all) <= KeptFrames /\ kept' = all BY <1>4, <1>5, <1>7 DEF KeptTyped
<1>8. CASE kept' = Tail(all)
  <2>1. all # <<>> BY <1>2, <1>4, EmptySeq
  <2>2. /\ Tail(all) \in Seq(T) /\ Len(Tail(all)) = Len(all) - 1
        /\ \A k \in 1..Len(Tail(all)) : Tail(all)[k] = all[k + 1]
    BY <1>4, <2>1, HeadTailProperties
  <2>3. \A k \in 1..Len(kept') : k + 1 \in 1..Len(all) BY <1>2, <1>4, <1>8, <2>2
  <2>4. Len(kept') <= KeptFrames BY <1>2, <1>4, <1>8, <2>2
  <2>5. QED BY <1>5, <1>8, <2>2, <2>3, <2>4 DEF KeptTyped
<1>9. Len(all) <= KeptFrames \/ Len(all) > KeptFrames BY <1>2, <1>4
<1>10. QED BY <1>1, <1>6, <1>7, <1>8, <1>9

LEMMA ToolFinish == ASSUME ToolInv, Mcp!Finish PROVE ToolInv'
<1>1. /\ tool.pc = "finish" /\ UNCHANGED <<toolLife, at, route, shot, verified, effects>>
  BY DEF Mcp!Finish, Mcp!At, Mcp!gateway
<1>2. Served /\ effects' \in 0..2 /\ MovedBy(tool.name, tool.route, route', effects')
  BY <1>1, ToolUnmoved
<1>3. /\ verified' \in 0..ToolLives /\ tool \in ToolType /\ KeptTyped(kept, shot.n)
      /\ toolTold \in [route : 0..Routes, frame : Nat]
  BY <1>1 DEF ToolInv, ToolTyped
<1>4. tool.route \in 0..Routes /\ tool.image \in Nat BY <1>3 DEF ToolType
<1>5. CASE Mcp!Proved
  <2>1. /\ Mcp!Answer(TRUE, FALSE)
        /\ \/ tool.image # 0 /\ Mcp!Keep(tool.image)
              /\ toolTold' = [route |-> tool.route, frame |-> tool.image]
           \/ kept' = kept /\ toolTold' = [toolTold EXCEPT !.route = tool.route]
    BY <1>5 DEF Mcp!Finish
  <2>2. toolTold' \in [route : 0..Routes, frame : Nat] /\ toolTold'.route = tool.route
    BY <1>3, <1>4, <2>1
  <2>3. KeptTyped(kept', shot'.n)
    <3>1. CASE tool.image # 0 /\ Mcp!Keep(tool.image)
      <4>1. tool.image <= shot.n /\ shot.n \in Nat
        BY <3>1, LaptopAssumption DEF ToolInv, Scripted, ToolTyped, ShotTyped
      <4>2. tool.image \in 1..shot.n BY <1>4, <3>1, <4>1
      <4>3. QED BY <1>1, <3>1, <4>2, ToolKeep
    <3>2. CASE kept' = kept BY <1>1, <1>3, <3>2
    <3>3. QED BY <2>1, <3>1, <3>2
  <2>4. /\ tool.name = "run" => CameTo(tool.route, route', "completed", 0)
        /\ tool.name = "shoot" => CameTo(tool.route, route', "captured", tool.image)
    <3>1. tool.name \in {"run", "shoot"} => CameTo(tool.route, route, tool.out, tool.frame)
      BY <1>1 DEF ToolInv, Settled
    <3>2. /\ tool.name = "run" => tool.out = "completed"
          /\ tool.name = "shoot" => tool.out = "captured" /\ tool.image = tool.frame
      BY <1>1, <1>5 DEF Mcp!Proved, ToolInv, Scripted
    <3>3. QED BY <1>1, <3>1, <3>2 DEF CameTo
  <2>5. QED BY <1>1, <1>2, <1>3, <2>1, <2>2, <2>3, <2>4, ToolAnswers
<1>6. CASE ~Mcp!Proved
  <2>1. Mcp!Fails(FALSE) /\ UNCHANGED kept BY <1>6 DEF Mcp!Finish
  <2>2. QED BY <1>1, <1>2, <1>3, <2>1, ToolFails
<1>7. QED BY <1>5, <1>6

LEMMA ToolCrop == ASSUME ToolInv, Mcp!Crop PROVE ToolInv'
<1>1. tool.pc = "crop" /\ UNCHANGED <<toolLife, at, route, shot, verified, kept, effects>>
  BY DEF Mcp!Crop, Mcp!At, Mcp!gateway
<1>2. Served /\ effects' \in 0..2 /\ MovedBy(tool.name, tool.route, route', effects')
  BY <1>1, ToolUnmoved
<1>3. verified \in 0..ToolLives /\ verified \in Nat /\ tool \in ToolType
  BY LaptopAssumption DEF ToolInv, ToolTyped
<1>4. ASSUME NEW k \in 1..Len(kept), kept[k].id = tool.frame,
             result' = [Mcp!NoResult EXCEPT !.name = "detail", !.label = verified,
                          !.life = kept[k].life, !.want = tool.frame, !.image = kept[k].id],
             tool' = Mcp!NoTool, toolTold' = toolTold
      PROVE  ToolInv'
  <2> tool.name = "detail" BY <1>1 DEF ToolInv, Scripted
  <2>1. kept[k] \in [id : Nat, life : Nat] BY ElementOfSeq DEF ToolInv, ToolTyped, KeptTyped
  <2>2. result' = [name |-> "detail", ok |-> TRUE, retry |-> FALSE, label |-> verified,
                   life |-> kept[k].life, want |-> tool.frame, image |-> kept[k].id, route |-> 0]
    BY <1>4 DEF Mcp!NoResult
  <2>3. 0 \in 0..Routes /\ "detail" \in ToolNames BY LaptopAssumption, ToolScripts
  <2>4. tool.frame \in Nat BY <1>3 DEF ToolType
  <2>5. result' \in ResultType BY <1>3, <2>1, <2>2, <2>3, <2>4 DEF ResultType
  <2>6. /\ result'.name = "detail" /\ result'.want = tool.frame /\ result'.image = kept[k].id
        /\ result'.route = 0
    BY <2>2
  <2>7. ToolTyped' BY <1>1, <1>4, <2>5, ToolNoTool DEF ToolInv, ToolTyped
  <2>8. MovedBy("detail", 0, route', effects') BY <1>2, <1>4 DEF MovedBy, Router
  <2>9. Intended' BY <1>4, <2>6, <2>8, ToolNoTool DEF Intended, Router
  <2>10. Reported(result', route') BY <1>4, <2>6 DEF Reported
  <2>11. QED BY <1>4, <2>7, <2>9, <2>10, ToolNoTool DEF ToolInv
<1>5. CASE Mcp!Fails(FALSE) BY <1>1, <1>2, <1>3, <1>5, ToolFails
<1>6. QED BY <1>4, <1>5 DEF Mcp!Crop

LEMMA ToolInit == Mcp!Init => ToolInv
<1> SUFFICES ASSUME Mcp!Init PROVE ToolInv OBVIOUS
<1>1. /\ toolLife = 1 /\ at = 0 /\ route = [r \in 1..Routes |-> Mcp!NewRoute]
      /\ shot = [n |-> 0, history |-> {}, transfers |-> {}]
      /\ verified = 0 /\ kept = <<>> /\ tool = Mcp!NoTool /\ result = Mcp!NoResult
      /\ toolTold = [route |-> 0, frame |-> 0] /\ effects = 0
  BY DEF Mcp!Init
<1>2. /\ 0 \in 0..Reach /\ 0 \in 0..Routes /\ 0 \in 0..Shots /\ 0 \in 0..ToolLives
      /\ 1 \in 1..ToolLives
  BY LaptopAssumption
<1>3. Mcp!NewRoute \in RouteType BY <1>2 DEF Mcp!NewRoute, RouteType, Outs
<1>4. route \in [1..Routes -> RouteType] BY <1>1, <1>3
<1>5. ShotTyped(shot) BY <1>1, <1>2 DEF ShotTyped
<1>6. KeptTyped(kept, shot.n)
  <2>1. kept \in Seq([id : Nat, life : Nat]) /\ Len(kept) = 0 BY <1>1, EmptySeq
  <2>2. QED BY <2>1, LaptopAssumption DEF KeptTyped
<1>7. Mcp!NoResult \in ResultType /\ Mcp!NoResult.name = "none" /\ Mcp!NoResult.image = 0
  BY <1>2 DEF Mcp!NoResult, ResultType
<1>8. ToolTyped BY <1>1, <1>2, <1>4, <1>5, <1>6, <1>7, ToolNoTool DEF ToolTyped
<1>9. Intended BY <1>1, <1>7, ToolNoTool DEF Intended, MovedBy, Router
<1>10. Reported(result, route) BY <1>1, <1>7 DEF Reported
<1>11. QED BY <1>1, <1>8, <1>9, <1>10, ToolNoTool DEF ToolInv

LEMMA ToolStep == ToolInv /\ (Mcp!Next \/ UNCHANGED assistant) => ToolInv'
BY ToolCall, ToolVerify, ToolWritten, ToolReceipt, ToolRead, ToolRefused, ToolBroken,
   ToolUnanswered, ToolFinish, ToolCrop, ToolOthers
DEF Mcp!Next, Mcp!Server

LEMMA ToolImplies == ToolInv => ToolsTellTheTruth
<1> SUFFICES ASSUME ToolInv PROVE ToolsTellTheTruth OBVIOUS
<1>1. Mcp!TypeOK
  BY DEF ToolInv, ToolTyped, Mcp!TypeOK, RouteType, Outs, ShotTyped, KeptTyped, ToolType
<1>2. Mcp!OneEffectPerCall BY DEF ToolInv, ToolTyped, ToolType, Mcp!OneEffectPerCall
<1>3. Mcp!MovesOnce
  <2> SUFFICES ASSUME effects > 1, "shift" \notin {tool.name, result.name} PROVE FALSE
    BY DEF Mcp!MovesOnce
  <2>1. effects # 0 /\ effects # 1 OBVIOUS
  <2>2. QED BY <2>1 DEF ToolInv, Intended, MovedBy, Router
<1>4. Mcp!SuccessIsProved
  BY DEF ToolInv, ToolTyped, RouteType, Reported, CameTo, Used, Mcp!SuccessIsProved
<1>5. Mcp!ImageIsOfItsCapture BY DEF ToolInv, Reported, Mcp!ImageIsOfItsCapture
<1>6. QED BY <1>1, <1>2, <1>3, <1>4, <1>5 DEF ToolsTellTheTruth

LEMMA ToolInductive == MCSpec => []ToolInv
<1>1. MCInit => ToolInv BY ToolInit DEF MCInit
<1>2. ToolInv /\ [MCNext]_<<bench, vars, assistant, simulator>> => ToolInv'
  BY ToolStep DEF MCNext
<1>3. QED BY <1>1, <1>2, PTL DEF MCSpec

(* A call of a tool writes at most once, a reviewed route is run once for  *)
(* an intention however often the client calls again, a success is         *)
(* reported of a route that ran to its end, with the photograph taken      *)
(* there; for every set of tools and number of routes, photographs and     *)
(* restarts.                                                               *)
THEOREM ToolsTell == MCSpec => []ToolsTellTheTruth
BY ToolImplies, ToolInductive, PTL
=============================================================================
