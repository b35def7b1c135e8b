----------------------------- MODULE SerialLink -----------------------------
(***************************************************************************)
(* The serial link of the gateway (serial_arm_controller.py): one request  *)
(* at a time over a line that loses and delays answers, to a controller    *)
(* that may reboot, with a heartbeat thread and explicit reconnects.       *)
(*                                                                         *)
(* An exchange holds the I/O lock and is one step.  The controller answers *)
(* in order, so an answer that missed its timeout is the first thing read  *)
(* after the port is opened again, unless opening discards it.  Two        *)
(* threads use the link: the admission lane (commissioning requests, one   *)
(* at a time) and the service thread.                                      *)
(***************************************************************************)
EXTENDS Integers, FiniteSets

CONSTANTS
  LaneOps,      \* what the lane asks: "act", "declare", "reset", "reconnect"
  MaxBoot,      \* boots of the controller
  MaxDecl,      \* family declarations
  SeqLimit      \* 2_147_483_647

ASSUME LinkAssumption ==
  /\ LaneOps \subseteq {"act", "declare", "reset", "reconnect"}
  /\ MaxBoot \in Nat \ {0} /\ MaxDecl \in Nat /\ SeqLimit \in Nat /\ SeqLimit >= 2

VARIABLES
  conn,         \* _connection
  open,         \* _serial is an open port
  identity,     \* boot of _identity, 0 before the first HELLO
  inspection,   \* _operator_inspection_required
  declared,     \* version of _servo_families
  seq,          \* _sequence
  io,           \* owner of _io_lock
  event,        \* _heartbeat_stop is set
  beat,         \* _heartbeat_thread
  hat,          \* the controller: boot, family map it holds, STOP latch
  late,         \* an answer that missed its timeout
  th,           \* the threads
  crossed       \* history: a RESET opened the gate of a link reconnected meanwhile

vars == <<conn, open, identity, inspection, declared, seq, io, event, beat, hat, late, th, crossed>>
supervision == <<event, beat>>
mine == <<open, identity, declared, beat, crossed>>

Users == {"lane", "svc"}
Beats == {"h1", "h2"}   \* as many heartbeat threads are told apart
Threads == Users \cup Beats

NoOne == "none"
NoAnswer == [seq |-> 0, boot |-> 0]
(* by: the boot that carried the command out; knew: it held the declared    *)
(* family map then.                                                         *)
Idle == [pc |-> "idle", by |-> 0, knew |-> FALSE]

Init ==
  /\ conn = "offline" /\ open = FALSE /\ identity = 0 /\ inspection = FALSE
  /\ declared = 0 /\ seq = 0 /\ io = NoOne /\ event = FALSE /\ beat = NoOne
  /\ hat = [boot |-> 1, family |-> 0, stopped |-> FALSE] /\ late = NoAnswer
  /\ th = [t \in Threads |-> Idle] /\ crossed = FALSE

At(t, pc) == th[t].pc = pc
Goto(t, pc) == th' = [th EXCEPT ![t].pc = pc]
Leave(t) == th' = [th EXCEPT ![t] = Idle]
Free(t) == io \in {NoOne, t}

-----------------------------------------------------------------------------
(* _command_locked and _parse_response.                                     *)

NextSeq == IF seq >= SeqLimit THEN 1 ELSE seq + 1

After(op) ==
  CASE op = "FAMILY" -> [hat EXCEPT !.family = declared]
    [] op = "RESET"  -> [hat EXCEPT !.stopped = FALSE]
    [] op = "STOP"   -> [hat EXCEPT !.stopped = TRUE]
    [] OTHER         -> hat

Refuses(op) ==
  op \in {"FAMILY", "RESET", "CONFIG", "HEARTBEAT"} \/ (op = "ACT" /\ hat.stopped)

Own == [seq |-> NextSeq, boot |-> hat.boot]
Answer(how, boot, now, then) == [how |-> how, boot |-> boot, hat |-> now, late |-> then]

(* Mutant of Stale: the sequence number of an answer is not compared. *)
StaleAccepted(op) == {Answer("ok", late.boot, After(op), Own)}

(* The late answer is read in place of the own one; the request was still   *)
(* carried out.                                                             *)
Stale(op) ==
  {Answer(IF late.seq = NextSeq THEN "ok" ELSE "fault", late.boot, After(op), Own)}

Answers(op) ==
  CASE ~open                    -> {Answer("fault", 0, hat, late)}
    [] open /\ late # NoAnswer  -> Stale(op)
    [] OTHER ->
         {Answer("fault", 0, hat, NoAnswer)}
         \cup (IF Refuses(op) THEN {Answer("refused", hat.boot, hat, NoAnswer)} ELSE {})
         \cup IF op = "ACT" /\ hat.stopped THEN {}
              ELSE {Answer("ok", hat.boot, After(op), NoAnswer),
                    Answer("fault", 0, After(op), Own)}

(* _heartbeat_stop is set: a heartbeat thread that waits on it ends.        *)
Ended(b) == IF At(b, "wait") THEN Idle ELSE th[b]

(* _transport_fault, and the locks on the way out. *)
Fault(t) ==
  /\ conn' = "faulted" /\ open' = FALSE /\ event' = TRUE /\ io' = NoOne
  /\ th' = [x \in Threads |-> IF x = t THEN Idle ELSE Ended(x)]
  /\ UNCHANGED <<identity, inspection, declared, beat, crossed>>

Exchange(op, a) ==
  /\ a \in Answers(op) /\ hat' = a.hat /\ late' = a.late
  /\ seq' = IF open THEN NextSeq ELSE seq

(* _validate_response_identity of a STATUS, which must carry it. *)
SameBoot(a) == a.how = "ok" /\ a.boot = identity

-----------------------------------------------------------------------------
(* _command_with_identity_guard: STATUS, the command, STATUS.               *)

Ask(t, pc) ==
  /\ At(t, "idle") /\ Goto(t, pc)
  /\ UNCHANGED <<conn, mine, inspection, seq, io, event, hat, late>>

ActAsked(t) == ~inspection /\ Ask(t, "before")

NotOnline(t) ==
  /\ th[t].pc \in {"before", "rBefore"} /\ Free(t) /\ conn # "online"
  /\ Leave(t)
  /\ UNCHANGED <<conn, mine, inspection, seq, io, event, hat, late>>

ActBefore(t) ==
  /\ At(t, "before") /\ Free(t) /\ conn = "online"
  /\ \E a \in Answers("STATUS") :
       /\ Exchange("STATUS", a)
       /\ \/ SameBoot(a) /\ io' = t /\ Goto(t, "act")
             /\ inspection' = (inspection \/ hat.stopped) /\ UNCHANGED <<conn, mine, event>>
          \/ ~SameBoot(a) /\ Fault(t)

ActSent(t) ==
  /\ At(t, "act")
  /\ \/ /\ inspection /\ Leave(t) /\ io' = NoOne
        /\ UNCHANGED <<conn, mine, inspection, seq, event, hat, late>>
     \/ /\ ~inspection
        /\ \E a \in Answers("ACT") :
             /\ Exchange("ACT", a)
             /\ \/ a.how = "fault" /\ Fault(t)
                \/ /\ a.how = "refused" /\ Leave(t) /\ io' = NoOne
                   /\ UNCHANGED <<conn, mine, inspection, event>>
                \/ /\ a.how = "ok"
                   /\ th' = [th EXCEPT ![t] = [pc |-> "after", by |-> hat.boot,
                                               knew |-> hat.family = declared]]
                   /\ UNCHANGED <<conn, mine, inspection, io, event>>

ActAfter(t) ==
  /\ At(t, "after")
  /\ \E a \in Answers("STATUS") :
       /\ Exchange("STATUS", a)
       /\ \/ SameBoot(a) /\ io' = NoOne /\ Leave(t)
             /\ inspection' = (inspection \/ hat.stopped) /\ UNCHANGED <<conn, mine, event>>
          \/ ~SameBoot(a) /\ Fault(t)

-----------------------------------------------------------------------------
(* declare_family: kept at once, sent unless the link is down or the gate   *)
(* is closed; then start or reset sends it.                                 *)
Declare(t) ==
  /\ At(t, "idle") /\ Free(t) /\ declared < MaxDecl
  /\ declared' = declared + 1
  /\ IF conn = "online" /\ ~inspection THEN Goto(t, "family") /\ io' = t
                                       ELSE UNCHANGED <<th, io>>
  /\ UNCHANGED <<conn, open, identity, inspection, seq, event, beat, hat, late, crossed>>

(* _send_family_locked: any answer but the expected one ends the link. *)
SendFamily(t, from, to) ==
  /\ At(t, from)
  /\ \E a \in Answers("FAMILY") :
       /\ Exchange("FAMILY", a)
       /\ \/ /\ a.how = "ok" /\ Goto(t, to) /\ io' = IF to = "idle" THEN NoOne ELSE io
             /\ UNCHANGED <<conn, mine, inspection, event>>
          \/ a.how # "ok" /\ Fault(t)

-----------------------------------------------------------------------------
(* reset(inspected=True).  knew: the family map was replayed.               *)

ResetBefore(t) ==
  /\ At(t, "rBefore") /\ Free(t) /\ conn = "online"
  /\ \E a \in Answers("STATUS") :
       /\ Exchange("STATUS", a)
       /\ \/ /\ SameBoot(a) /\ io' = t /\ inspection' = (inspection \/ hat.stopped)
             /\ Goto(t, IF hat.stopped THEN "rFamily" ELSE IF inspection THEN "rStop" ELSE "rReset")
             /\ UNCHANGED <<conn, mine, event>>
          \/ ~SameBoot(a) /\ Fault(t)

(* The gate is closed and the controller is not stopped: stop it first.     *)
ResetStops(t) ==
  /\ \/ At(t, "rStop") /\ \E a \in Answers("STOP") :
          /\ Exchange("STOP", a)
          /\ \/ a.how = "ok" /\ Goto(t, "rStatus") /\ UNCHANGED <<conn, mine, inspection, io, event>>
             \/ a.how # "ok" /\ Fault(t)
     \/ At(t, "rStatus") /\ \E a \in Answers("STATUS") :
          /\ Exchange("STATUS", a)
          /\ \/ SameBoot(a) /\ Goto(t, "rFamily") /\ UNCHANGED <<conn, mine, inspection, io, event>>
             \/ ~SameBoot(a) /\ Fault(t)

ResetSent(t) ==
  /\ At(t, "rReset")
  /\ \E a \in Answers("RESET") :
       /\ Exchange("RESET", a)
       /\ \/ a.how = "fault" /\ Fault(t)
          \/ /\ a.how = "refused" /\ Leave(t) /\ io' = NoOne
             /\ UNCHANGED <<conn, mine, inspection, event>>
          \/ /\ a.how = "ok" /\ Goto(t, "rAfter") /\ UNCHANGED <<conn, mine, inspection, io, event>>

ResetAfter(t) ==
  /\ At(t, "rAfter")
  /\ \E a \in Answers("STATUS") :
       /\ Exchange("STATUS", a)
       /\ \/ /\ SameBoot(a) /\ io' = NoOne /\ inspection' = (inspection \/ hat.stopped)
             /\ th' = [th EXCEPT ![t].pc = IF inspection THEN "rPolicy" ELSE "rDone",
                                ![t].by = identity]
             /\ UNCHANGED <<conn, mine, event>>
          \/ ~SameBoot(a) /\ Fault(t)

(* _apply_motion_policy_locked: a refused setting does not matter. *)
ResetPolicy(t) ==
  /\ At(t, "rPolicy") /\ Free(t)
  /\ \E a \in Answers("CONFIG") :
       /\ Exchange("CONFIG", a)
       /\ \/ a.how # "fault" /\ Goto(t, "rDone") /\ UNCHANGED <<conn, mine, inspection, io, event>>
          \/ a.how = "fault" /\ Fault(t)

(* The gate opens without the I/O lock, whatever the link became meanwhile. *)
ResetDone(t) ==
  /\ At(t, "rDone") /\ inspection' = FALSE /\ Leave(t)
  /\ crossed' = (crossed \/ th[t].by # identity)
  /\ UNCHANGED <<conn, open, identity, declared, beat, seq, io, event, hat, late>>

-----------------------------------------------------------------------------
(* reconnect: close, which waits up to a second for the heartbeat thread,   *)
(* then start.                                                              *)

Reconnect(t) ==
  /\ At(t, "idle") /\ event' = TRUE
  /\ th' = [x \in Threads |-> IF x = t THEN [Idle EXCEPT !.pc = "join"] ELSE Ended(x)]
  /\ UNCHANGED <<conn, mine, inspection, seq, io, hat, late>>

(* The wait is over early only while another thread occupies the link.      *)
Joined(t) ==
  /\ At(t, "join") /\ Goto(t, "close")
  /\ io # NoOne \/ \A b \in Beats \cap {beat} : At(b, "idle")
  /\ UNCHANGED <<conn, mine, inspection, seq, io, event, hat, late>>

Close(t) ==
  /\ At(t, "close") /\ Free(t)
  /\ open' = FALSE /\ beat' = NoOne /\ Goto(t, "start")
  /\ conn' = IF conn = "online" THEN "closed" ELSE conn
  /\ UNCHANGED <<identity, inspection, declared, seq, io, event, hat, late, crossed>>

(* Mutant of Start: a link that was known once is not opened again. *)
StartOnce(t) ==
  /\ At(t, "start") /\ Free(t)
  /\ \/ /\ identity # 0 /\ Leave(t)
        /\ UNCHANGED <<conn, mine, inspection, seq, io, event, hat, late>>
     \/ /\ identity = 0
        /\ Fault(t) /\ UNCHANGED <<seq, hat, late>>
     \/ /\ identity = 0
        /\ open' = TRUE /\ io' = t /\ late' \in {NoAnswer, late} /\ Goto(t, "hello")
        /\ UNCHANGED <<conn, identity, inspection, declared, seq, event, beat, hat, crossed>>

(* Opening discards what has arrived, not what is still on its way.         *)
Start(t) ==
  /\ At(t, "start") /\ Free(t)
  /\ \/ /\ conn = "online" /\ identity # 0 /\ Leave(t)
        /\ UNCHANGED <<conn, mine, inspection, seq, io, event, hat, late>>
     \/ /\ ~(conn = "online" /\ identity # 0)
        /\ Fault(t) /\ UNCHANGED <<seq, hat, late>>
     \/ /\ ~(conn = "online" /\ identity # 0)
        /\ open' = TRUE /\ io' = t /\ late' \in {NoAnswer, late} /\ Goto(t, "hello")
        /\ UNCHANGED <<conn, identity, inspection, declared, seq, event, beat, hat, crossed>>

Hello(t) ==
  /\ At(t, "hello")
  /\ \E a \in Answers("HELLO") :
       /\ Exchange("HELLO", a)
       /\ \/ /\ a.how = "ok" /\ identity' = a.boot /\ conn' = "online"
             /\ inspection' = (inspection \/ hat.stopped)
             /\ Goto(t, IF inspection \/ hat.stopped THEN "beat" ELSE "replay")
             /\ UNCHANGED <<open, declared, io, supervision, crossed>>
          \/ a.how # "ok" /\ Fault(t)

BeatStarts(t) ==
  /\ At(t, "beat") /\ event' = FALSE /\ io' = NoOne
  /\ \/ \E b \in Beats : /\ At(b, "idle") /\ beat' = b
                         /\ th' = [th EXCEPT ![t] = Idle, ![b].pc = "wait"]
     \/ (\A b \in Beats : ~At(b, "idle")) /\ Leave(t) /\ UNCHANGED beat
  /\ UNCHANGED <<conn, open, identity, inspection, declared, seq, hat, late, crossed>>

-----------------------------------------------------------------------------
(* _heartbeat_loop: an exchange that fails is tried again after the next    *)
(* interval, unless the thread was told to end meanwhile.                   *)
Beat(b) ==
  /\ At(b, "wait") /\ conn = "online" /\ Goto(b, "beats")
  /\ UNCHANGED <<conn, mine, inspection, seq, io, event, hat, late>>

(* Mutant of Beaten: a heartbeat that is refused ends the loop. *)
BeatenOnce(b) ==
  /\ At(b, "beats") /\ io = NoOne
  /\ \E a \in Answers("HEARTBEAT") :
       /\ Exchange("HEARTBEAT", a)
       /\ \/ /\ a.how # "fault"
             /\ inspection' = (inspection \/ (a.how = "ok" /\ hat.stopped))
             /\ Goto(b, IF event \/ a.how = "refused" THEN "idle" ELSE "wait")
             /\ UNCHANGED <<conn, mine, io, event>>
          \/ a.how = "fault" /\ Fault(b)

Beaten(b) ==
  /\ At(b, "beats") /\ io = NoOne
  /\ \E a \in Answers("HEARTBEAT") :
       /\ Exchange("HEARTBEAT", a)
       /\ \/ /\ a.how # "fault"
             /\ inspection' = (inspection \/ (a.how = "ok" /\ hat.stopped))
             /\ Goto(b, IF event THEN "idle" ELSE "wait")
             /\ UNCHANGED <<conn, mine, io, event>>
          \/ a.how = "fault" /\ Fault(b)

-----------------------------------------------------------------------------
(* The controller reboots: it forgets the family map and its latch.  It may *)
(* latch a stop of its own.                                                 *)
Reboots ==
  /\ hat.boot < MaxBoot
  /\ hat' = [boot |-> hat.boot + 1, family |-> 0, stopped |-> FALSE]
  /\ UNCHANGED <<conn, mine, inspection, seq, io, event, late, th>>

HatStops ==
  /\ ~hat.stopped /\ hat' = [hat EXCEPT !.stopped = TRUE]
  /\ UNCHANGED <<conn, mine, inspection, seq, io, event, late, th>>

-----------------------------------------------------------------------------
Guarded(t) == NotOnline(t) \/ ActBefore(t) \/ ActSent(t) \/ ActAfter(t)

Resets(t) ==
  \/ ResetBefore(t) \/ ResetStops(t) \/ SendFamily(t, "rFamily", "rReset")
  \/ ResetSent(t) \/ ResetAfter(t) \/ ResetPolicy(t) \/ ResetDone(t)

Reconnects(t) ==
  \/ Joined(t) \/ Close(t) \/ Start(t) \/ Hello(t)
  \/ SendFamily(t, "replay", "beat") \/ BeatStarts(t)

Lane ==
  \/ "act" \in LaneOps /\ ActAsked("lane")
  \/ "declare" \in LaneOps /\ (Declare("lane") \/ SendFamily("lane", "family", "idle"))
  \/ "reset" \in LaneOps /\ (Ask("lane", "rBefore") \/ Resets("lane"))
  \/ "reconnect" \in LaneOps /\ Reconnect("lane")
  \/ Guarded("lane") \/ Reconnects("lane")

Service ==
  \/ ActAsked("svc") \/ (conn # "online" /\ Reconnect("svc"))
  \/ Guarded("svc") \/ Reconnects("svc")

Next ==
  \/ Lane \/ Service
  \/ \E b \in Beats : Beat(b) \/ Beaten(b)
  \/ Reboots \/ HatStops

Spec == Init /\ [][Next]_vars

(* The threads run.  The service thread tries again and again; a line that  *)
(* is tried again and again is in the end opened with nothing on its way,   *)
(* and gets HELLO and the family map through.                               *)
Fairness ==
  /\ SF_vars(conn # "online" /\ Reconnect("svc"))
  /\ SF_vars(Guarded("lane") \/ Reconnects("lane"))
  /\ SF_vars(Guarded("svc") \/ Reconnects("svc"))
  /\ SF_vars(Start("svc") /\ open' = TRUE /\ late' = NoAnswer)
  /\ SF_vars((Hello("svc") \/ SendFamily("svc", "replay", "beat")) /\ conn' = "online")
  /\ SF_vars(\E b \in Beats : Beaten(b))

FairSpec == Spec /\ Fairness

-----------------------------------------------------------------------------
(* The type of the state. *)
TypeOK ==
  /\ conn \in {"offline", "online", "faulted", "closed"} /\ open \in BOOLEAN
  /\ identity \in 0..MaxBoot /\ inspection \in BOOLEAN /\ declared \in 0..MaxDecl
  /\ seq \in 0..SeqLimit /\ io \in Users \cup {NoOne} /\ event \in BOOLEAN
  /\ beat \in Beats \cup {NoOne}
  /\ hat \in [boot : 1..MaxBoot, family : 0..MaxDecl, stopped : BOOLEAN]
  /\ late \in [seq : 0..SeqLimit, boot : 0..MaxBoot]
  /\ crossed \in BOOLEAN
  /\ th \in [Threads ->
       [pc : {"idle", "before", "act", "after", "family", "rBefore", "rStop", "rStatus",
              "rFamily", "rReset", "rAfter", "rPolicy", "rDone", "join", "close", "start",
              "hello", "replay", "beat", "wait", "beats"},
        by : 0..MaxBoot, knew : BOOLEAN]]

(* A late answer never passes for the answer to a later request: the        *)
(* identity that HELLO installs is that of the controller which answers now.*)
IdentityIsCurrent == identity' # identity => identity' = hat.boot

Confirmed(t) == At(t, "after") /\ At(t, "idle")' /\ conn' = "online"

(* What _command_with_identity_guard reports as done was done by the boot   *)
(* of the HELLO identity, and that boot still runs: a reboot before, during *)
(* or after the command is never surfaced as success.                       *)
ConfirmedInOneBoot ==
  \A t \in Users : Confirmed(t) => th[t].by = identity /\ hat.boot = identity

(* A confirmed command was carried out by a controller that knew every      *)
(* family declared so far, whatever fault, reboot and reconnect came before,*)
(* unless a RESET opened the gate of a link that was reconnected, with the  *)
(* gate closed and so without the families, since the RESET was confirmed.  *)
ConfirmedKnewFamilies == \A t \in Users : Confirmed(t) => th[t].knew \/ crossed

(* An answer is of the request that waits for it, and a confirmation of the *)
(* controller it names.                                                     *)
ConfirmedIsTrue ==
  [][IdentityIsCurrent /\ ConfirmedInOneBoot /\ ConfirmedKnewFamilies]_vars

(* An online link is supervised: unless a reconnect is under way, some      *)
(* heartbeat thread runs and has not been told to end.                      *)
OnlineIsSupervised ==
  conn = "online" /\ (\A t \in Users : th[t].pc \notin {"join", "close", "start", "hello", "replay", "beat"})
    => ~event /\ \E b \in Beats : ~At(b, "idle")

(* Whatever is asked for, an online link is supervised.                     *)
LinkIsSupervised == TypeOK /\ OnlineIsSupervised

(* "close/reconnect still sets the event and terminates this exact thread"  *)
(* (_heartbeat_loop): there is one heartbeat thread.                        *)
HeartbeatIsOne == \E b \in Beats : At(b, "idle")

(* A link that faulted comes back, unless the lane asks for reconnects for  *)
(* ever (_service, _recover_controller).                                    *)
LinkComesBack ==
  []<>At("lane", "join") \/ (conn = "faulted" ~> conn = "online")
=============================================================================
