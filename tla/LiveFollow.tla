----------------------------- MODULE LiveFollow -----------------------------
(***************************************************************************)
(* Fast Follow (simple_arm_api.py): a browser streams targets for Shoulder *)
(* and Elbow into a session that the service thread dispatches.            *)
(*                                                                         *)
(* Start, frame, end and clear pass the admission lock one at a time: the  *)
(* lane.  Heartbeat, cancel and STOP do not.  Whoever ends a session and   *)
(* releases the arm owns the motion lock, then the authority lock, until   *)
(* its empty HOLD_SET is answered.  A thread is cut at every lock it takes,*)
(* at every exchange with the controller and between two sections under    *)
(* the state lock.                                                         *)
(*                                                                         *)
(* Time is counted in parts of the input lease: a session has been without *)
(* input for idle parts, a request arrived age parts ago.                  *)
(***************************************************************************)
EXTENDS Integers

CONSTANTS
  Attempts,     \* start attempts, each an id chosen by the browser
  Beside,       \* what the browser sends beside the lane: "hb", "cancel"
  MaxSeq,       \* frames of one session
  Lease,        \* LIVE_FOLLOW_INPUT_LEASE_SECONDS
  MaxWait,      \* the longest a request waits before it is looked at
  Tolerance     \* LIVE_FOLLOW_IDLE_FEEDBACK_MISS_TOLERANCE

VARIABLES
  session,      \* _live_follow
  last,         \* _last_live_follow, the terminal receipt
  attempts,     \* _live_follow_start_attempts
  held,         \* _held holds Shoulder and Elbow
  stopped,      \* _operator_stopped, and whether the STOP is known delivered
  hat,          \* the controller: holding, stopped, and the last frame it took
  motion,       \* owner of _motion_lock
  authority,    \* owner of _authority_lock
  th,           \* the threads
  stopPc,       \* the STOP request
  freed,        \* history: the arm was let go and the controller said so
  commits,      \* history: sessions installed per attempt
  cancelled     \* history: attempts whose cancellation was answered

vars == <<session, last, attempts, held, stopped, hat, motion, authority, th,
          stopPc, freed, commits, cancelled>>
locks == <<motion, authority>>
history == <<freed, commits, cancelled>>

NoOne == "none"
NoSession == [attempt |-> NoOne, accepted |-> 0, commanded |-> 0, pending |-> 0,
              sent |-> 0, idle |-> 0, misses |-> 0, overlong |-> FALSE]
NoReceipt == [attempt |-> NoOne, flushed |-> FALSE, owed |-> FALSE]

(* attempt: the attempt or session the thread is about; seq: the frame it   *)
(* brings or dispatches; flush: of an end; fin: how _finish_live_follow is  *)
(* to end the session; raced: _stop_generation moved since it was sampled.  *)
NoFinish == [how |-> "none", lease |-> FALSE]
Idle == [op |-> "idle", pc |-> "idle", attempt |-> NoOne, seq |-> 0, age |-> 0,
         flush |-> FALSE, raced |-> FALSE, fin |-> NoFinish]

Threads == {"lane", "hb", "cancel", "svc"}

Init ==
  /\ session = NoSession /\ last = NoReceipt
  /\ attempts = [a \in Attempts |-> "new"]
  /\ held = FALSE /\ stopped = "no"
  /\ hat = [held |-> FALSE, stopped |-> FALSE, by |-> NoOne, seq |-> 0]
  /\ motion = NoOne /\ authority = NoOne
  /\ th = [t \in Threads |-> Idle] /\ stopPc = "idle"
  /\ freed = FALSE /\ commits = [a \in Attempts |-> 0] /\ cancelled = {}

-----------------------------------------------------------------------------
Active(a) == session.attempt = a /\ a # NoOne
Lapsed(t) == session.idle - th[t].age >= Lease

At(t, pc) == th[t].pc = pc
Goto(t, pc) == th' = [th EXCEPT ![t].pc = pc]
Free(lock, t) == lock \in {NoOne, t}
Without(lock, t) == IF lock = t THEN NoOne ELSE lock

Done(t) ==
  /\ th' = [th EXCEPT ![t] = Idle]
  /\ motion' = Without(motion, t) /\ authority' = Without(authority, t)

(* The replies to HOLD_SET for the two joints, or for none. *)
HoldSets(on) ==
  LET taken == [hat EXCEPT !.held = on] IN
  IF hat.stopped THEN {<<"refused", hat>>}
  ELSE {<<"ok", taken>>, <<"lost", taken>>, <<"lost", hat>>,
        <<"refused", [hat EXCEPT !.held = FALSE]>>}

(* The receipt of an end that flushed claims that nothing is owed.          *)
Receipt(how) ==
  [attempt |-> session.attempt, flushed |-> how = "flushed",
   owed |-> how = "flushed" /\ session.sent # session.commanded]

-----------------------------------------------------------------------------
(* _finish_live_follow.  Between the locks and the empty HOLD_SET the       *)
(* session becomes a terminal receipt, unless it is gone or, when it was to *)
(* expire, an input came in since.                                          *)

Finish(t, how, lease) ==
  th' = [th EXCEPT ![t].pc = IF how = "flushed" THEN "commitEnd" ELSE "finish",
                   ![t].fin = [how |-> how, lease |-> lease],
                   ![t].age = IF lease THEN @ ELSE 0,
                   ![t].seq = IF th[t].op = "frame" THEN @ ELSE 0]
Again(t, pc) == th' = [th EXCEPT ![t].pc = pc, ![t].fin = NoFinish,
                                 ![t].age = IF pc = "due" THEN 0 ELSE @]

FinishTakesMotion(t) ==
  /\ At(t, "finish") /\ Free(motion, t) /\ motion' = t
  /\ Goto(t, "commitEnd")
  /\ UNCHANGED <<session, last, attempts, held, stopped, hat, authority, stopPc, history>>

(* Nothing was ended: a request, and the tick that saw the lease run out,   *)
(* look again.                                                              *)
NotFinished(t) ==
  \/ /\ th[t].op \in {"frame", "hb"}
     /\ Again(t, th[t].op)
     /\ motion' = Without(motion, t) /\ authority' = Without(authority, t)
  \/ /\ th[t].fin.how = "expired" /\ th[t].op = "follow" /\ Again(t, "due")
     /\ motion' = Without(motion, t) /\ authority' = Without(authority, t)
  \/ /\ th[t].fin.how = "expired" /\ th[t].op = "end" /\ Again(t, "due")
     /\ authority' = Without(authority, t) /\ UNCHANGED motion
  \/ /\ th[t].op = "cancel" /\ Again(t, "confirm")
     /\ motion' = Without(motion, t) /\ authority' = Without(authority, t)
  \/ th[t].fin.how # "expired" /\ th[t].op \in {"follow", "end"} /\ Done(t)

(* Mutant of FinishCommits: an input that came in meanwhile is not seen. *)
FinishStale(t) ==
  LET fin == th[t].fin
      releases == fin.how # "flushed" IN
  /\ At(t, "commitEnd") /\ (releases => Free(authority, t))
  /\ \/ /\ ~Active(th[t].attempt)
        /\ NotFinished(t) /\ UNCHANGED <<session, last, held>>
     \/ /\ Active(th[t].attempt)
        /\ last' = Receipt(fin.how) /\ session' = NoSession
        /\ \/ /\ releases /\ held' = FALSE /\ authority' = t
              /\ Goto(t, "finishSend") /\ UNCHANGED motion
           \/ ~releases /\ Done(t) /\ UNCHANGED held
  /\ UNCHANGED <<attempts, stopped, hat, stopPc, history>>

FinishCommits(t) ==
  LET fin == th[t].fin
      releases == fin.how # "flushed" IN
  /\ At(t, "commitEnd") /\ (releases => Free(authority, t))
  /\ \/ /\ ~Active(th[t].attempt) \/ (fin.lease /\ ~Lapsed(t))
        /\ NotFinished(t) /\ UNCHANGED <<session, last, held>>
     \/ /\ Active(th[t].attempt) /\ (fin.lease => Lapsed(t))
        /\ last' = Receipt(fin.how) /\ session' = NoSession
        /\ \/ /\ releases /\ held' = FALSE /\ authority' = t
              /\ Goto(t, "finishSend") /\ UNCHANGED motion
           \/ ~releases /\ Done(t) /\ UNCHANGED held
  /\ UNCHANGED <<attempts, stopped, hat, stopPc, history>>

FinishSends(t) ==
  /\ At(t, "finishSend")
  /\ \E o \in HoldSets(FALSE) :
       hat' = o[2] /\ freed' = (freed \/ (o[1] = "ok"))
  /\ \/ th[t].op # "cancel" /\ Done(t)
     \/ /\ th[t].op = "cancel" /\ Again(t, "confirm")
        /\ motion' = Without(motion, t) /\ authority' = Without(authority, t)
  /\ UNCHANGED <<session, last, attempts, held, stopped, stopPc, commits, cancelled>>

-----------------------------------------------------------------------------
(* start_live_follow: one attempt per id, under all the lane's locks.       *)

Start(a) ==
  /\ At("lane", "idle")
  /\ th' = [th EXCEPT !["lane"] = [Idle EXCEPT !.op = "start", !.pc = "motion", !.attempt = a]]
  /\ UNCHANGED <<session, last, attempts, held, stopped, hat, locks, stopPc, history>>

LaneTakesMotion ==
  /\ At("lane", "motion") /\ motion = NoOne /\ motion' = "lane"
  /\ Goto("lane", IF th["lane"].op = "end" THEN "end" ELSE "authority")
  /\ UNCHANGED <<session, last, attempts, held, stopped, hat, authority, stopPc, history>>

LaneTakesAuthority ==
  /\ At("lane", "authority") /\ authority = NoOne /\ authority' = "lane"
  /\ Goto("lane", IF th["lane"].op = "clear" THEN "clear" ELSE "register")
  /\ UNCHANGED <<session, last, attempts, held, stopped, hat, motion, stopPc, history>>

(* Mutant of Register: the tombstone of a cancellation is not seen. *)
RegisterCancelled ==
  LET a == th["lane"].attempt IN
  /\ At("lane", "register")
  /\ \/ a \in {session.attempt, last.attempt} /\ Done("lane") /\ UNCHANGED attempts
     \/ /\ a \notin {session.attempt, last.attempt} /\ attempts[a] \notin {"new", "cancelled"}
        /\ Goto("lane", "unwind") /\ UNCHANGED <<attempts, locks>>
     \/ /\ a \notin {session.attempt, last.attempt} /\ attempts[a] \in {"new", "cancelled"}
        /\ attempts' = [attempts EXCEPT ![a] = "starting"]
        /\ th' = [th EXCEPT !["lane"].pc = IF session = NoSession THEN "claim" ELSE "unwind",
                            !["lane"].raced = FALSE]
        /\ UNCHANGED locks
  /\ UNCHANGED <<session, last, held, stopped, hat, stopPc, history>>

(* A repeated start gets the session's state; a used id is refused.  Then   *)
(* the session must be free and the generation is sampled.                  *)
Register ==
  LET a == th["lane"].attempt IN
  /\ At("lane", "register")
  /\ \/ a \in {session.attempt, last.attempt} /\ Done("lane") /\ UNCHANGED attempts
     \/ /\ a \notin {session.attempt, last.attempt} /\ attempts[a] # "new"
        /\ Goto("lane", "unwind") /\ UNCHANGED <<attempts, locks>>
     \/ /\ a \notin {session.attempt, last.attempt} /\ attempts[a] = "new"
        /\ attempts' = [attempts EXCEPT ![a] = "starting"]
        /\ th' = [th EXCEPT !["lane"].pc = IF session = NoSession THEN "claim" ELSE "unwind",
                            !["lane"].raced = FALSE]
        /\ UNCHANGED locks
  /\ UNCHANGED <<session, last, held, stopped, hat, stopPc, history>>

(* The planning snapshot, health and limits may refuse at any point; the    *)
(* deadline may pass.                                                       *)
Refused == th' = [th EXCEPT !["lane"].pc = "unwind", !["lane"].raced = FALSE]
Fails == th' = [th EXCEPT !["lane"].pc = "abort", !["lane"].raced = FALSE]

MayStart == attempts[th["lane"].attempt] = "starting" /\ ~th["lane"].raced /\ stopped = "no"

Claim ==
  /\ At("lane", "claim")
  /\ \/ MayStart /\ held' = TRUE /\ Goto("lane", "hold") /\ freed' = FALSE
     \/ Refused /\ UNCHANGED <<held, freed>>
  /\ UNCHANGED <<session, last, attempts, stopped, hat, locks, stopPc, commits, cancelled>>

StartHold ==
  /\ At("lane", "hold")
  /\ \E o \in HoldSets(TRUE) :
       /\ hat' = o[2]
       /\ \/ o[1] = "ok" /\ Goto("lane", "check")
          \/ o[1] # "ok" /\ Fails
  /\ UNCHANGED <<session, last, attempts, held, stopped, locks, stopPc, history>>

StartCheck ==
  /\ At("lane", "check")
  /\ \/ MayStart /\ Goto("lane", "commit")
     \/ Fails
  /\ UNCHANGED <<session, last, attempts, held, stopped, hat, locks, stopPc, history>>

(* Installing the session is the commit; a STOP comes before it or ends it. *)
Commit ==
  LET a == th["lane"].attempt IN
  /\ At("lane", "commit")
  /\ \/ /\ MayStart
        /\ attempts' = [attempts EXCEPT ![a] = "committed"]
        /\ session' = [NoSession EXCEPT !.attempt = a] /\ last' = NoReceipt
        /\ commits' = [commits EXCEPT ![a] = @ + 1]
        /\ Done("lane")
     \/ /\ Fails
        /\ UNCHANGED <<session, last, attempts, locks, commits>>
  /\ UNCHANGED <<held, stopped, hat, stopPc, freed, cancelled>>

(* _abort_motion_recoverably *)
Abort ==
  /\ At("lane", "abort") /\ held' = FALSE /\ Goto("lane", "abortSend")
  /\ UNCHANGED <<session, last, attempts, stopped, hat, locks, stopPc, history>>

AbortSend ==
  /\ At("lane", "abortSend")
  /\ \E o \in HoldSets(FALSE) : hat' = o[2] /\ freed' = (o[1] = "ok")
  /\ th' = [th EXCEPT !["lane"].pc = "unwind"] /\ motion' = NoOne /\ authority' = NoOne
  /\ UNCHANGED <<session, last, attempts, held, stopped, stopPc, commits, cancelled>>

(* The except clause of start_live_follow. *)
Unwind ==
  LET a == th["lane"].attempt IN
  /\ At("lane", "unwind")
  /\ attempts' = [attempts EXCEPT ![a] =
       CASE @ = "cancel_requested" -> "cancelled" [] @ = "starting" -> "failed" [] OTHER -> @]
  /\ Done("lane")
  /\ UNCHANGED <<session, last, held, stopped, hat, stopPc, history>>

-----------------------------------------------------------------------------
(* cancel_live_follow_start: a tombstone for an attempt not yet begun, a    *)
(* request to one under way, an end to one that committed.                  *)

Cancel(a) ==
  /\ At("cancel", "idle") /\ "cancel" \in Beside
  /\ th' = [th EXCEPT !["cancel"] = [Idle EXCEPT !.op = "cancel", !.pc = "look", !.attempt = a]]
  /\ UNCHANGED <<session, last, attempts, held, stopped, hat, locks, stopPc, history>>

Answered(a) ==
  /\ attempts' = [attempts EXCEPT ![a] = "cancelled"] /\ cancelled' = cancelled \cup {a}
  /\ Done("cancel")

CancelLooks ==
  LET a == th["cancel"].attempt IN
  /\ At("cancel", "look")
  /\ \/ /\ Active(a)
        /\ attempts' = [attempts EXCEPT ![a] = "cancel_requested"]
        /\ Finish("cancel", "ended", FALSE) /\ UNCHANGED <<locks, cancelled>>
     \/ ~Active(a) /\ last.attempt = a /\ Answered(a)
     \/ /\ a \notin {session.attempt, last.attempt}
        /\ attempts[a] \in {"new", "failed", "cancelled", "committed"} /\ Answered(a)
     \/ /\ a \notin {session.attempt, last.attempt} /\ attempts[a] = "starting"
        /\ attempts' = [attempts EXCEPT ![a] = "cancel_requested"]
        /\ UNCHANGED <<th, locks, cancelled>>
  /\ UNCHANGED <<session, last, held, stopped, hat, stopPc, freed, commits>>

CancelConfirms ==
  /\ At("cancel", "confirm") /\ Answered(th["cancel"].attempt)
  /\ UNCHANGED <<session, last, held, stopped, hat, stopPc, freed, commits>>

-----------------------------------------------------------------------------
(* Frames and heartbeats: input renews the lease, if it arrived in time;    *)
(* input that came too late ends the session.  A browser learns the id of a *)
(* session from the answer to its start.                                    *)

Known == {a \in Attempts : commits[a] > 0}

Ask(t, op, a, s) ==
  /\ At(t, "idle")
  /\ th' = [th EXCEPT ![t] = [Idle EXCEPT !.op = op, !.pc = op, !.attempt = a, !.seq = s]]
  /\ UNCHANGED <<session, last, attempts, held, stopped, hat, locks, stopPc, history>>

SendFrame == \E a \in Known, s \in 1..MaxSeq : Ask("lane", "frame", a, s)
SendHeartbeat == "hb" \in Beside /\ \E a \in Known : Ask("hb", "hb", a, 0)

Earliest(m, n) == IF m <= n THEN m ELSE n

InputTooLate(t) ==
  /\ At(t, th[t].op) /\ th[t].op \in {"frame", "hb"}
  /\ Active(th[t].attempt) /\ Lapsed(t)
  /\ Finish(t, "expired", TRUE)
  /\ UNCHANGED <<session, last, attempts, held, stopped, hat, locks, stopPc, history>>

InputForNoSession(t) ==
  /\ At(t, th[t].op) /\ th[t].op \in {"frame", "hb"}
  /\ ~Active(th[t].attempt) /\ Done(t)
  /\ UNCHANGED <<session, last, attempts, held, stopped, hat, stopPc, history>>

HeartbeatRenews ==
  /\ At("hb", "hb") /\ Active(th["hb"].attempt) /\ ~Lapsed("hb")
  /\ session' = [session EXCEPT !.idle = Earliest(@, th["hb"].age)]
  /\ Done("hb")
  /\ UNCHANGED <<last, attempts, held, stopped, hat, stopPc, history>>

(* The target may resolve to the one already commanded, then the frame is a *)
(* keepalive.  Otherwise it replaces a frame that still waits.              *)
FrameAccepted ==
  LET me == th["lane"] IN
  /\ At("lane", "frame") /\ Active(me.attempt) /\ ~Lapsed("lane")
  /\ \/ me.seq <= session.accepted /\ UNCHANGED session
     \/ /\ me.seq > session.accepted
        /\ \E keepalive \in BOOLEAN :
             session' = [session EXCEPT
               !.accepted = me.seq, !.idle = Earliest(@, me.age),
               !.commanded = IF keepalive THEN @ ELSE me.seq,
               !.pending = IF keepalive THEN @ ELSE me.seq]
  /\ Done("lane")
  /\ UNCHANGED <<last, attempts, held, stopped, hat, stopPc, history>>

-----------------------------------------------------------------------------
(* _dispatch_live_follow, from the service thread and from end.  Health may *)
(* be found wrong wherever the code looks at it.                            *)

Follow ==
  /\ At("svc", "idle") /\ session # NoSession
  /\ th' = [th EXCEPT !["svc"] = [Idle EXCEPT !.op = "follow", !.pc = "tick",
                                              !.attempt = session.attempt]]
  /\ UNCHANGED <<session, last, attempts, held, stopped, hat, locks, stopPc, history>>

Mine(t) == Active(th[t].attempt)

(* An end goes on to conclude where the service thread is done. *)
Leaves(t) ==
  \/ th[t].op = "follow" /\ Done(t)
  \/ /\ th[t].op = "end" /\ UNCHANGED locks
     /\ th' = [th EXCEPT ![t].pc = "conclude", ![t].seq = 0, ![t].age = 0]

(* Mutant of Tick: the service thread never finds the lease over. *)
TickPatiently(t) ==
  /\ At(t, "tick")
  /\ \/ ~Mine(t) /\ Leaves(t)
     \/ Mine(t) /\ Again(t, "due") /\ UNCHANGED locks
  /\ UNCHANGED <<session, last, attempts, held, stopped, hat, stopPc, history>>

Tick(t) ==
  /\ At(t, "tick")
  /\ \/ ~Mine(t) /\ Leaves(t)
     \/ Mine(t) /\ session.overlong /\ Finish(t, "expired", FALSE) /\ UNCHANGED locks
     \/ Mine(t) /\ ~session.overlong /\ Lapsed(t)
          /\ Finish(t, "expired", TRUE) /\ UNCHANGED locks
     \/ Mine(t) /\ ~session.overlong /\ ~Lapsed(t) /\ Again(t, "due") /\ UNCHANGED locks
  /\ UNCHANGED <<session, last, attempts, held, stopped, hat, stopPc, history>>

(* A frame is due some time after the last dispatch, for an end at once.    *)
Due(t) ==
  /\ At(t, "due")
  /\ \/ ~Mine(t) /\ Leaves(t)
     \/ Mine(t) /\ session.pending # 0 /\ Goto(t, "pop") /\ UNCHANGED locks
     \/ Mine(t) /\ (session.pending = 0 \/ th[t].op = "follow")
          /\ Goto(t, "quiet") /\ UNCHANGED locks
  /\ UNCHANGED <<session, last, attempts, held, stopped, hat, stopPc, history>>

(* With nothing due: look at the health, and read the joints back if a      *)
(* frame does not wait.                                                     *)
Quiet(t) ==
  /\ At(t, "quiet")
  /\ \/ Leaves(t)
     \/ Mine(t) /\ Finish(t, "faulted", FALSE) /\ UNCHANGED locks
     \/ Mine(t) /\ session.pending = 0 /\ Goto(t, "read") /\ UNCHANGED locks
  /\ UNCHANGED <<session, last, attempts, held, stopped, hat, stopPc, history>>

ReadBegins(t) ==
  /\ At(t, "read") /\ Free(motion, t)
  /\ \/ (~Mine(t) \/ session.pending # 0) /\ Leaves(t)
     \/ /\ Mine(t) /\ session.pending = 0 /\ motion' = t
        /\ Goto(t, "readback") /\ UNCHANGED authority
  /\ UNCHANGED <<session, last, attempts, held, stopped, hat, stopPc, history>>

(* FOLLOW_READ.  The firmware may have no fresh feedback a few times in a   *)
(* row; the motion lock is released before a fault is concluded.            *)
Missed == Mine("svc") /\ session.misses < Tolerance

Readback(t) ==
  /\ At(t, "readback")
  /\ \/ /\ session' = IF Mine(t) THEN [session EXCEPT !.misses = 0] ELSE session
        /\ Leaves(t)
     \/ /\ Missed /\ session' = [session EXCEPT !.misses = @ + 1] /\ Leaves(t)
     \/ /\ session' \in {session, IF Mine(t) THEN [session EXCEPT !.misses = Tolerance] ELSE session}
        /\ Finish(t, "faulted", FALSE)
        /\ motion' = IF th[t].op = "end" THEN motion ELSE Without(motion, t)
        /\ UNCHANGED authority
  /\ UNCHANGED <<last, attempts, held, stopped, hat, stopPc, history>>

Pop(t) ==
  /\ At(t, "pop") /\ Free(motion, t)
  /\ \/ (~Mine(t) \/ session.pending = 0) /\ Leaves(t) /\ UNCHANGED session
     \/ /\ Mine(t) /\ session.pending # 0 /\ motion' = t
        /\ session' = [session EXCEPT !.pending = 0]
        /\ th' = [th EXCEPT ![t].pc = "vet", ![t].seq = session.pending]
        /\ UNCHANGED authority
  /\ UNCHANGED <<last, attempts, held, stopped, hat, stopPc, history>>

Vet(t) ==
  /\ At(t, "vet")
  /\ \/ stopped = "no" /\ Goto(t, "send")
     \/ Finish(t, "faulted", FALSE)
  /\ UNCHANGED <<session, last, attempts, held, stopped, hat, locks, stopPc, history>>

(* FOLLOW_SET *)
SendFollow(t) ==
  /\ At(t, "send")
  /\ \/ /\ hat.held /\ ~hat.stopped
        /\ hat' = [hat EXCEPT !.by = th[t].attempt, !.seq = th[t].seq]
        /\ Goto(t, "sent") \/ Finish(t, "faulted", FALSE)
     \/ Finish(t, "faulted", FALSE) /\ UNCHANGED hat
  /\ UNCHANGED <<session, last, attempts, held, stopped, locks, stopPc, history>>

Sent(t) ==
  /\ At(t, "sent")
  /\ session' = IF Mine(t) THEN [session EXCEPT !.sent = th[t].seq, !.misses = 0] ELSE session
  /\ Leaves(t)
  /\ UNCHANGED <<last, attempts, held, stopped, hat, stopPc, history>>

-----------------------------------------------------------------------------
(* end_live_follow: cancel at once, or flush the waiting frame and then     *)
(* claim that the newest accepted frame was carried out.                    *)

End(a, flush) ==
  /\ At("lane", "idle")
  /\ th' = [th EXCEPT !["lane"] = [Idle EXCEPT !.op = "end", !.pc = "motion",
                                               !.attempt = a, !.flush = flush]]
  /\ UNCHANGED <<session, last, attempts, held, stopped, hat, locks, stopPc, history>>

Ends ==
  /\ At("lane", "end")
  /\ \/ ~Mine("lane") /\ Done("lane")
     \/ Mine("lane") /\ ~th["lane"].flush
          /\ Finish("lane", "ended", FALSE) /\ UNCHANGED locks
     \/ /\ Mine("lane") /\ th["lane"].flush /\ UNCHANGED locks
        /\ th' = [th EXCEPT !["lane"].age = 0,
                    !["lane"].pc = IF session.pending # 0 THEN "tick" ELSE "conclude"]
  /\ UNCHANGED <<session, last, attempts, held, stopped, hat, stopPc, history>>

Conclude ==
  /\ At("lane", "conclude")
  /\ \/ ~Mine("lane") /\ Done("lane")
     \/ /\ Mine("lane") /\ UNCHANGED locks
        /\ Finish("lane", IF session.pending # 0 THEN "faulted" ELSE "flushed", FALSE)
  /\ UNCHANGED <<session, last, attempts, held, stopped, hat, stopPc, history>>

-----------------------------------------------------------------------------
(* The service thread's other work.  It looks whether a session is active,  *)
(* and then recovers an automatic stop.                                     *)

Service(op, pc) == th' = [th EXCEPT !["svc"] = [Idle EXCEPT !.op = op, !.pc = pc]]

ServiceLooks ==
  /\ At("svc", "idle") /\ session = NoSession /\ Service("recover", "recover")
  /\ UNCHANGED <<session, last, attempts, held, stopped, hat, locks, stopPc, history>>

Recover ==
  /\ At("svc", "recover")
  /\ \/ Done("svc") /\ UNCHANGED held
     \/ /\ motion = NoOne /\ authority = NoOne /\ stopped = "no" /\ hat.stopped
        /\ held' = FALSE /\ motion' = "svc" /\ authority' = "svc" /\ Goto("svc", "reset")
  /\ UNCHANGED <<session, last, attempts, stopped, hat, stopPc, history>>

(* RESET; a STOP since then is sent once more (StopLatch has the details).  *)
RecoverResets ==
  /\ At("svc", "reset") /\ Done("svc")
  /\ hat' \in {hat, [hat EXCEPT !.stopped = th["svc"].raced]}
  /\ UNCHANGED <<session, last, attempts, held, stopped, stopPc, history>>

Renew ==
  /\ At("svc", "idle") /\ held /\ stopped = "no" /\ authority = NoOne
  /\ authority' = "svc" /\ Service("renew", "renew")
  /\ UNCHANGED <<session, last, attempts, held, stopped, hat, motion, stopPc, history>>

RenewSends ==
  /\ At("svc", "renew") /\ Done("svc")
  /\ \E o \in HoldSets(TRUE) : hat' = o[2]
  /\ UNCHANGED <<session, last, attempts, held, stopped, stopPc, history>>

-----------------------------------------------------------------------------
(* STOP and clear.  A clear needs the session gone.                         *)

Sampled == {"claim", "hold", "check", "commit", "clearEnds", "reset"}

StopLatches ==
  /\ stopPc = "idle" /\ stopPc' = "send"
  /\ last' = IF session = NoSession THEN last ELSE Receipt("stopped")
  /\ session' = NoSession /\ held' = FALSE
  /\ stopped' = IF stopped = "no" THEN "explicit" ELSE stopped
  /\ th' = [t \in Threads |-> [th[t] EXCEPT !.raced = @ \/ th[t].pc \in Sampled]]
  /\ UNCHANGED <<attempts, hat, locks, history>>

StopSent ==
  /\ stopPc = "send" /\ stopPc' = "idle"
  /\ LET there == [hat EXCEPT !.held = FALSE, !.stopped = TRUE] IN
     \/ hat' = there /\ UNCHANGED <<held, stopped>>
     \/ hat' \in {hat, there} /\ held' = FALSE /\ stopped' = "unknown"
  /\ UNCHANGED <<session, last, attempts, locks, th, history>>

ClearStop ==
  /\ At("lane", "idle") /\ session = NoSession
  /\ th' = [th EXCEPT !["lane"] = [Idle EXCEPT !.op = "clear", !.pc = "motion"]]
  /\ UNCHANGED <<session, last, attempts, held, stopped, hat, locks, stopPc, history>>

ClearBegins ==
  /\ At("lane", "clear") /\ held' = FALSE
  /\ th' = [th EXCEPT !["lane"].pc = "clearEnds", !["lane"].raced = FALSE]
  /\ UNCHANGED <<session, last, attempts, stopped, hat, locks, stopPc, history>>

ClearEnds ==
  /\ At("lane", "clearEnds") /\ Done("lane")
  /\ \/ ~th["lane"].raced /\ stopped' = "no" /\ hat' = [hat EXCEPT !.stopped = FALSE]
     \/ UNCHANGED <<stopped, hat>>
  /\ UNCHANGED <<session, last, attempts, held, stopPc, history>>

-----------------------------------------------------------------------------
(* Time and the controller.                                                 *)

OnTheClock(t) == th[t].pc \in {"frame", "hb", "tick"} \/ th[t].fin.lease

TimePasses ==
  /\ \A t \in Threads : OnTheClock(t) => th[t].age < MaxWait
  /\ session # NoSession
  /\ session' = [session EXCEPT !.idle = Earliest(@ + 1, Lease + MaxWait)]
  /\ th' = [t \in Threads |-> IF OnTheClock(t)
                              THEN [th[t] EXCEPT !.age = @ + 1] ELSE th[t]]
  /\ UNCHANGED <<last, attempts, held, stopped, hat, locks, stopPc, history>>

SessionTooLong ==
  /\ session # NoSession /\ ~session.overlong
  /\ session' = [session EXCEPT !.overlong = TRUE]
  /\ UNCHANGED <<last, attempts, held, stopped, hat, locks, th, stopPc, history>>

HatLapses ==
  /\ hat.held
  /\ \E stops \in BOOLEAN : hat' = [hat EXCEPT !.held = FALSE, !.stopped = stops]
  /\ UNCHANGED <<session, last, attempts, held, stopped, locks, th, stopPc, history>>

-----------------------------------------------------------------------------
Finishes(t) == FinishTakesMotion(t) \/ FinishCommits(t) \/ FinishSends(t)

Dispatches(t) ==
  \/ Tick(t) \/ Due(t) \/ Quiet(t) \/ ReadBegins(t) \/ Readback(t)
  \/ Pop(t) \/ Vet(t) \/ SendFollow(t) \/ Sent(t)

LaneStep ==
  \/ LaneTakesMotion \/ LaneTakesAuthority
  \/ Register \/ Claim \/ StartHold \/ StartCheck \/ Commit \/ Abort \/ AbortSend \/ Unwind
  \/ InputTooLate("lane") \/ InputForNoSession("lane") \/ FrameAccepted
  \/ Ends \/ Dispatches("lane") \/ Conclude \/ Finishes("lane")
  \/ ClearBegins \/ ClearEnds

HeartbeatStep ==
  InputTooLate("hb") \/ InputForNoSession("hb") \/ HeartbeatRenews \/ Finishes("hb")

CancelStep == CancelLooks \/ CancelConfirms \/ Finishes("cancel")

ServiceStep ==
  Dispatches("svc") \/ Finishes("svc") \/ Recover \/ RecoverResets \/ RenewSends

Requests ==
  \/ \E a \in Attempts : Start(a) \/ Cancel(a)
  \/ \E a \in Known, flush \in BOOLEAN : End(a, flush)
  \/ SendFrame \/ SendHeartbeat \/ StopLatches \/ ClearStop

Next ==
  \/ Requests
  \/ LaneStep \/ HeartbeatStep \/ CancelStep \/ ServiceStep \/ StopSent
  \/ Follow \/ ServiceLooks \/ Renew
  \/ TimePasses \/ SessionTooLong \/ HatLapses

Spec == Init /\ [][Next]_vars

(* Threads run and a lock that is free again and again is taken; the        *)
(* service thread renews a hold only every HOLD_RENEW_SECONDS, so it comes  *)
(* to the session; time goes on.                                            *)
Fairness ==
  /\ SF_vars(LaneStep) /\ SF_vars(HeartbeatStep) /\ SF_vars(CancelStep)
  /\ SF_vars(ServiceStep) /\ SF_vars(Follow) /\ WF_vars(StopSent) /\ SF_vars(TimePasses)

FairSpec == Spec /\ Fairness

-----------------------------------------------------------------------------
(* The type of the state. *)
Ids == Attempts \cup {NoOne}

SessionType ==
  [attempt : Ids, accepted : 0..MaxSeq, commanded : 0..MaxSeq, pending : 0..MaxSeq,
   sent : 0..MaxSeq, idle : 0..(Lease + MaxWait), misses : 0..Tolerance, overlong : BOOLEAN]

ThreadType ==
  [op : {"idle", "start", "frame", "end", "clear", "hb", "cancel", "follow", "recover", "renew"},
   pc : {"idle", "motion", "authority", "register", "claim", "hold", "check", "commit", "abort",
         "abortSend", "unwind", "look", "confirm", "finish", "commitEnd", "finishSend", "frame",
         "hb", "tick", "due", "quiet", "read", "readback", "pop", "vet", "send", "sent", "end",
         "conclude", "recover", "reset", "renew", "clear", "clearEnds"},
   attempt : Ids, seq : 0..MaxSeq, age : 0..MaxWait, flush : BOOLEAN, raced : BOOLEAN,
   fin : [how : {"none", "ended", "flushed", "expired", "faulted"}, lease : BOOLEAN]]

(* Every variable stays in its range: a run of missed feedback never        *)
(* outgrows the tolerance.                                                  *)
TypeOK ==
  /\ session \in SessionType
  /\ last \in [attempt : Ids, flushed : BOOLEAN, owed : BOOLEAN]
  /\ attempts \in [Attempts -> {"new", "starting", "cancel_requested", "cancelled",
                                "failed", "committed"}]
  /\ held \in BOOLEAN /\ stopped \in {"no", "explicit", "unknown"} /\ freed \in BOOLEAN
  /\ hat \in [held : BOOLEAN, stopped : BOOLEAN, by : Ids, seq : 0..MaxSeq]
  /\ motion \in Threads \cup {NoOne} /\ authority \in Threads \cup {NoOne}
  /\ th \in [Threads -> ThreadType] /\ stopPc \in {"idle", "send"}
  /\ commits \in [Attempts -> Nat] /\ cancelled \in SUBSET Attempts

(* STOP and a start in flight: whichever is second at the state lock, no    *)
(* session is active while an explicit STOP is latched.  (A STOP that fails *)
(* on the bus after a clear latches again without ending the session.)      *)
StopEndsSession == stopped = "explicit" => session = NoSession

(* An attempt installs at most one session, however often it is sent.       *)
StartIsOneShot == \A a \in Attempts : commits[a] <= 1

(* An answered cancellation, before, during or after the start, is final:   *)
(* that attempt has no session and is not on its way to or from a hold.     *)
CancelledStaysCancelled ==
  \A a \in cancelled :
    /\ ~Active(a)
    /\ th["lane"].op = "start" /\ th["lane"].attempt = a
         => ~At("lane", "hold") /\ ~At("lane", "check") /\ ~At("lane", "commit")
            /\ ~At("lane", "abort") /\ ~At("lane", "abortSend")

(* Once the controller confirmed the release that ended a session or an     *)
(* aborted start, no renewal in flight takes the joints back.               *)
ReleasedStaysReleased == freed => ~hat.held

(* A receipt that claims the flush of the last frame speaks the truth: the  *)
(* newest commanded target was the last one the controller confirmed.       *)
FlushedIsSent == last.flushed => ~last.owed

(* The controller accepts a frame only of the session that is active, or    *)
(* one that STOP overtook on its way.                                       *)
FrameAfterEnd ==
  <<hat.by, hat.seq>>' # <<hat.by, hat.seq>> /\ ~Active(hat'.by) /\ stopped = "no"
NoFrameAfterEnd == [][~FrameAfterEnd]_vars

(* Frames of one session reach the controller in the order of their         *)
(* sequence numbers, without repetition.                                    *)
FrameOutOfOrder ==
  \E t \in Threads :
    At(t, "send") /\ th'[t].pc # "send" /\ hat.by = th[t].attempt /\ th[t].seq <= hat.seq
FramesInOrder == [][~FrameOutOfOrder]_vars

(* A lease is not declared over against an input that renewed it: what ends *)
(* for want of input had none for as long as the lease, or lasted too long. *)
FalseExpiry ==
  \E t \in Threads :
    /\ At(t, "commitEnd") /\ th[t].fin.how = "expired" /\ th'[t].pc = "finishSend"
    /\ session.idle < Lease /\ ~session.overlong
NoFalseExpiry == [][~FalseExpiry]_vars

(* A browser that goes silent loses its session in the end.                 *)
SilentSessionEnds ==
  <>[](At("hb", "idle") /\ th["lane"].op # "frame") => <>[](session = NoSession)

(* "Do not hide a link loss or automatic STOP by reconnecting/resetting     *)
(* underneath it" (_service_loop, of an active session).                    *)
NoResetUnderSession ==
  [][hat.stopped /\ ~hat'.stopped => session = NoSession]_vars
=============================================================================
