-------------------------- MODULE SessionInvariant --------------------------
(***************************************************************************)
(* What a state of LiveFollow keeps, so that its promises are kept: the    *)
(* inductive invariant of ArmProofs.  Stands(t) is what thread t relies on *)
(* at its place; the rest is what the shared state says of itself.         *)
(***************************************************************************)
EXTENDS LiveFollow

(* Places: of a start with all its locks, of a dispatch, of an end, and of  *)
(* a thread that carries a frame to the controller.                         *)
Starting == {"claim", "hold", "check", "commit", "abort", "abortSend"}
Dispatching == {"tick", "due", "quiet", "read", "readback", "pop", "vet", "send", "sent"}
Finishing == {"finish", "commitEnd", "finishSend"}
Carrying == {"vet", "send", "sent"}

Places ==
  {"idle", "motion", "authority", "register", "claim", "hold", "check", "commit", "abort",
   "abortSend", "unwind", "look", "confirm", "finish", "commitEnd", "finishSend", "frame",
   "hb", "tick", "due", "quiet", "read", "readback", "pop", "vet", "send", "sent", "end",
   "conclude", "recover", "reset", "renew", "clear", "clearEnds"}

(* Which operations a thread runs, the places of each, and how it may end a *)
(* session.                                                                 *)
Fits(t, c) ==
  /\ t = "lane" => c.op \in {"idle", "start", "frame", "end", "clear"}
  /\ t = "hb" => c.op \in {"idle", "hb"}
  /\ t = "cancel" => c.op \in {"idle", "cancel"}
  /\ t = "svc" => c.op \in {"idle", "follow", "recover", "renew"}
  /\ c.op = "idle" <=> c.pc = "idle"
  /\ c.op = "start" => c.pc \in {"motion", "authority", "register", "unwind"} \cup Starting
  /\ c.op = "frame" => c.pc \in {"frame"} \cup Finishing
  /\ c.op = "hb" => c.pc \in {"hb"} \cup Finishing
  /\ c.op = "end" => c.pc \in {"motion", "end", "conclude"} \cup Dispatching \cup Finishing
  /\ c.op = "clear" => c.pc \in {"motion", "authority", "clear", "clearEnds"}
  /\ c.op = "cancel" => c.pc \in {"look", "confirm"} \cup Finishing
  /\ c.op = "follow" => c.pc \in Dispatching \cup Finishing
  /\ c.op = "recover" => c.pc \in {"recover", "reset"}
  /\ c.op = "renew" => c.pc = "renew"
  /\ c.op \in {"start", "frame", "end", "hb", "cancel", "follow"} => c.attempt \in Attempts
  /\ c.fin.lease => c.fin.how = "expired"
  /\ c.op = "cancel" => c.fin.how # "expired"
  /\ c.fin.how = "flushed" => c.op = "end" /\ c.pc = "commitEnd"

UnderMotion(c) ==
  \/ c.op = "start" /\ c.pc \in {"authority", "register"} \cup Starting
  \/ c.op \in {"end", "clear"} /\ c.pc # "motion"
  \/ c.op = "follow" /\ c.pc \in {"readback"} \cup Carrying
  \/ c.pc \in {"commitEnd", "finishSend", "reset"}

UnderAuthority(c) ==
  c.pc \in {"register", "clear", "clearEnds", "finishSend", "reset", "renew"} \cup Starting

(* The operations that are about a session that was installed. *)
Knows(c) ==
  \/ c.op \in {"frame", "end", "hb", "follow"}
  \/ c.op = "cancel" /\ c.pc \in {"confirm"} \cup Finishing

(* The thread is at a place of its operation and owns the locks of it. *)
Runs(t) ==
  /\ Fits(t, th[t])
  /\ UnderMotion(th[t]) => motion = t
  /\ UnderAuthority(th[t]) => authority = t
  /\ Knows(th[t]) => commits[th[t].attempt] = 1

(* A frame on its way is of the session, or of one that STOP ended, and it  *)
(* is newer than what the controller has and older than what still waits,   *)
(* or the newest.                                                           *)
Carried(t) ==
  /\ th[t].pc \in {"vet", "send"} =>
       /\ session.attempt = th[t].attempt \/ stopped # "no"
       /\ hat.by = th[t].attempt => hat.seq < th[t].seq
  /\ th[t].pc \in Carrying /\ session.attempt = th[t].attempt =>
       /\ th[t].seq <= session.accepted
       /\ session.pending # 0 => th[t].seq < session.pending
       /\ session.pending = 0 => th[t].seq = session.commanded

(* An end without a lease is of a session that lasted too long; a flush has *)
(* nothing left to send; what is being released belongs to nobody.          *)
Ending(t) ==
  /\ th[t].pc \in {"finish", "commitEnd"} /\ session.attempt = th[t].attempt =>
       (th[t].fin.how = "expired" /\ ~th[t].fin.lease => session.overlong)
  /\ th[t].pc = "commitEnd" /\ th[t].fin.how = "flushed" /\ session.attempt = th[t].attempt
       => session.pending = 0
  /\ th[t].pc = "finishSend" => ~held /\ session = NoSession
  /\ th[t].pc = "confirm" => session.attempt # th[t].attempt

(* A start under its locks is alone and its attempt was never installed;    *)
(* what is about to be held was not let go.                                 *)
Begun(t) ==
  /\ th[t].pc \in Starting =>
       /\ session = NoSession /\ commits[th[t].attempt] = 0
       /\ attempts[th[t].attempt] \in {"starting", "cancel_requested"}
  /\ th[t].pc \in {"hold", "renew"} => ~freed
  /\ th[t].pc = "abortSend" => ~held

Stands(t) == Runs(t) /\ Carried(t) /\ Ending(t) /\ Begun(t)

(* What was installed and what was cancelled. *)
Ledger ==
  /\ session.attempt = NoOne => session = NoSession
  /\ \A a \in Attempts : a \in {session.attempt, last.attempt, hat.by} => commits[a] = 1
  /\ \A a \in Attempts :
       /\ commits[a] \in {0, 1}
       /\ attempts[a] \in {"new", "starting"} => commits[a] = 0
       /\ a \in cancelled => attempts[a] = "cancelled" /\ session.attempt # a

Freed == freed => ~hat.held /\ ~held

Frames ==
  /\ session.pending <= session.accepted
  /\ session.pending # 0 => session.pending = session.commanded
  /\ hat.by # NoOne /\ hat.by = session.attempt =>
       hat.seq <= session.accepted /\ (session.pending # 0 => hat.seq < session.pending)

(* Thread t has the newest target, or is to end the session that lost it. *)
Carries(t) ==
  /\ motion = t /\ th[t].attempt = session.attempt
  /\ \/ th[t].pc \in Carrying /\ th[t].seq = session.commanded
     \/ th[t].pc \in {"finish", "commitEnd"} /\ th[t].fin.how = "faulted"

Owed == session.pending = 0 /\ session.sent # session.commanded
Flushed == Owed => \E t \in Threads : Carries(t)

Shared == Ledger /\ Freed /\ Frames /\ StopEndsSession /\ FlushedIsSent

IInv == TypeOK /\ (\A t \in Threads : Stands(t)) /\ Shared /\ Flushed

-----------------------------------------------------------------------------
(* What a step does to the threads and to what they share. *)

(* Only thread t moves. *)
Moved(t) ==
  /\ th' \in [Threads -> ThreadType]
  /\ \A u \in Threads : u # t => th'[u] = th[u]

(* Thread t keeps, takes or frees its own locks only. *)
Lets(t) ==
  /\ motion' \in Threads \cup {NoOne} /\ authority' \in Threads \cup {NoOne}
  /\ motion' # motion => motion \in {t, NoOne}
  /\ authority' # authority => authority \in {t, NoOne}

rest == <<session, last, attempts, held, stopped, hat, stopPc, history>>

(* A thread goes on to a place that asks no more than its locks and what it *)
(* knows.                                                                   *)
Plain == Places \ (Starting \cup Carrying \cup Finishing \cup {"confirm", "renew"})

(* What the threads share keeps its type. *)
Surroundings ==
  /\ session' \in SessionType
  /\ last' \in [attempt : Ids, flushed : BOOLEAN, owed : BOOLEAN]
  /\ attempts' \in [Attempts -> {"new", "starting", "cancel_requested", "cancelled",
                                 "failed", "committed"}]
  /\ held' \in BOOLEAN /\ stopped' \in {"no", "explicit", "unknown"} /\ freed' \in BOOLEAN
  /\ hat' \in [held : BOOLEAN, stopped : BOOLEAN, by : Ids, seq : 0..MaxSeq]
  /\ stopPc' \in {"idle", "send"}
  /\ commits' \in [Attempts -> Nat] /\ cancelled' \in SUBSET Attempts

Eased(u) == Carried(u) /\ Ending(u) /\ Begun(u)

(* A thread stays at its place. *)
Same(u) ==
  /\ th'[u].pc = th[u].pc /\ th'[u].op = th[u].op /\ th'[u].attempt = th[u].attempt
  /\ th'[u].seq = th[u].seq /\ th'[u].fin = th[u].fin

(* The controller holds or not; it has the frame it had. *)
HatKeepsFrame ==
  /\ hat' \in [held : BOOLEAN, stopped : BOOLEAN, by : Ids, seq : 0..MaxSeq]
  /\ hat'.by = hat.by /\ hat'.seq = hat.seq

(* The active session goes on: it takes a frame, or the one it took is on   *)
(* its way.                                                                 *)
GoesOnAs ==
  /\ session.attempt # NoOne /\ session' \in SessionType
  /\ session'.attempt = session.attempt /\ session.accepted <= session'.accepted
  /\ session.overlong => session'.overlong
  /\ session'.pending <= session'.accepted
  /\ session'.pending # 0 => session'.pending = session'.commanded
  /\ session'.pending \in {session.pending, 0} \/ session.accepted < session'.pending

(* What becomes of one attempt. *)
Verdicts == {"new", "starting", "cancel_requested", "cancelled", "failed", "committed"}
=============================================================================
