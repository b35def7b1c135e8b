------------------------------- MODULE ArmProofs -------------------------------
(* What the arm service's threads keep in every state, whatever the servos,   *)
(* the limits, the attempts and the lease: of MotionLane, a joint whose       *)
(* torque was released on request stays free (ReleasedIsFree) and a clear     *)
(* starts from nothing (ClearIsFresh); of LiveFollow, the promises of a       *)
(* session's start, end, cancellation and frames (SessionsEnd,                *)
(* FramesKeepTurn).                                                           *)
(*                                                                            *)
(* MotionLane's invariant IInv says what an operation relies on while it      *)
(* runs, since two threads work on one intent and what a step may write       *)
(* depends on what the thread read steps ago:                                 *)
(*   - Owns: which of motion_lock and authority_lock it holds at each place,  *)
(*     which is what keeps the other thread out;                              *)
(*   - Clean: the sets it has read and will write back name no released joint;*)
(*   - LaneFits: the dispatch lane's previous hold is within the limit, and a *)
(*     torque-off or a clear has already emptied what it is to forget;        *)
(*   - ChaseFits: each goal the chase read still has its resends to spend.    *)
(* Most steps only take away from the intent and from the controller's hold   *)
(* (Shrinks); Preserved, GoesTo, Ends and FailsKeeps show once that such a    *)
(* step breaks nothing, and each action's lemma says why it is one or what it *)
(* does instead.                                                              *)
(*                                                                            *)
(* LiveFollow's invariant F!IInv is in SessionInvariant: what each of its     *)
(* four threads stands on (F!Stands) and what the session, the receipt, the   *)
(* attempts and the controller say of each other (F!Shared, F!Flushed).  Its  *)
(* lemmas are the second half, from LiveMoves on.                             *)
EXTENDS MCArm, FiniteSetTheorems, TLAPS

(* Resends a goal still has; NoGoal has none. *)
Budget(n) == IF n > 0 THEN n ELSE 0

(* The places of a thread in its operations. *)
Places == {"idle", "authority", "check", "ensure", "prepare", "hold", "restore", "move",
           "record", "retake", "retakeHold", "abort", "abortSend", "recover", "reset",
           "verdict", "restop", "set", "off", "forget", "clear", "clearReset",
           "clearCommit", "renew", "look"}

(* Which operations a thread runs, and the places of each. *)
Fits(t, c) ==
  /\ t = "lane" => c.op \in {"idle", "targets", "torque", "clear"}
  /\ t = "svc" => c.op \in {"idle", "recover", "renew", "chase"}
  /\ c.op = "idle" <=> c.pc = "idle"
  /\ c.op = "idle" => c = Idle
  /\ c.op = "targets" =>
       c.pc \in {"check", "ensure", "prepare", "hold", "restore", "move", "record", "retake",
                 "retakeHold", "abort", "abortSend", "recover", "reset", "verdict", "restop"}
  /\ c.op = "torque" =>
       c.pc \in {"authority", "set", "check", "prepare", "hold", "restore", "off", "forget",
                 "recover", "reset", "verdict", "restop"}
  /\ c.op = "clear" => c.pc \in {"authority", "clear", "clearReset", "clearCommit", "restop"}
  /\ c.op = "recover" => c.pc \in {"recover", "reset", "verdict", "restop"}
  /\ c.op = "renew" => c.pc \in {"renew", "prepare", "hold"}
  /\ c.pc = "renew" => c.send = {}
  /\ c.op = "chase" => c.pc \in {"look", "check", "move", "retake", "retakeHold", "recover",
                                 "reset", "verdict", "restop"}

(* The operations that run under motion_lock from their first step. *)
UnderMotion(c) == c.op \in {"targets", "torque", "clear", "recover", "chase"}

(* The places an operation reaches only under authority_lock. *)
UnderAuthority(c) ==
  \/ c.op \in {"torque", "clear"} /\ c.pc # "authority"
  \/ c.op = "renew" /\ c.pc # "renew"
  \/ c.pc \in {"reset", "verdict", "restop", "abortSend"}

(* The thread holds the locks its place asks for. *)
Owns(t, c, m, a) == (UnderMotion(c) => m = t) /\ (UnderAuthority(c) => a = t)

(* No set the thread read and will send, restore or keep names a released *)
(* joint.                                                                 *)
Clean(t, c, r) ==
  /\ r \cap c.send = {}
  /\ t = "lane" => r \cap c.prev = {}
  /\ c.op = "torque" /\ c.pc \notin {"authority", "set"} => r \cap c.want = {}

(* What the dispatch lane has read, and what it has emptied so far. *)
LaneFits(c, h, g, hh) ==
  /\ Cardinality(c.prev) <= MaxHeld
  /\ c.op = "torque" => /\ Cardinality(c.want) <= MaxHeld
                        /\ c.pc \in {"check", "prepare", "hold"} => c.send = c.want
                        /\ c.pc \in {"off", "forget"} => hh \subseteq c.want
                        /\ c.pc \notin {"authority", "set"} => h \subseteq c.want
  /\ c.pc \in {"clearReset", "clearCommit"} => h = {} /\ g = NoGoals

(* A goal the chase has read was not resent more often than it may be. *)
ChaseFits(c, g, r) ==
  c.op = "chase" =>
    /\ \A s \in c.todo : s \notin c.want /\ r[s] + Budget(c.out[s]) <= Attempts
    /\ c.pc # "look" => \A s \in c.want : r[s] + 1 + Budget(g[s]) <= Attempts

(* What holds of each thread. *)
Each == \A t \in Threads : /\ Fits(t, th[t]) /\ Owns(t, th[t], motion, authority)
                           /\ Clean(t, th[t], released)

(* A released joint is held neither by the controller nor by the intent. *)
ReleasedUnheld == released \cap hat.held = {} /\ released \cap held = {}

(* What was resent and what a goal has left stay within the attempts. *)
Spent == \A s \in Servos : resent[s] + Budget(goals[s]) <= Attempts

(* The inductive invariant. *)
IInv ==
  /\ TypeOK /\ Each /\ ReleasedUnheld /\ Spent
  /\ LaneFits(th["lane"], held, goals, hat.held)
  /\ ChaseFits(th["svc"], goals, resent)

-----------------------------------------------------------------------------
(* An idle thread is a thread, with nothing to send, restore or resend. *)
LEMMA IdleType ==
  /\ Idle \in ThreadType /\ Idle.op = "idle" /\ Idle.pc = "idle"
  /\ Idle.send = {} /\ Idle.prev = {} /\ Idle.want = {} /\ Idle.todo = {}
<1>1. NoGoals \in [Servos -> NoGoal..Attempts] BY MotionAssumption DEF NoGoals, NoGoal
<1>2. QED BY <1>1 DEF Idle, ThreadType

(* A thread moved to another place keeps all but its place. *)
LEMMA AtType ==
  ASSUME NEW c \in ThreadType, NEW pc \in Places
  PROVE  LET d == [c EXCEPT !.pc = pc] IN
         /\ d \in ThreadType /\ d.pc = pc /\ d.op = c.op /\ d.want = c.want /\ d.send = c.send
         /\ d.prev = c.prev /\ d.todo = c.todo /\ d.out = c.out /\ d.retried = c.retried
BY DEF ThreadType, Places

(* What the invariant says of one thread. *)
LEMMA Facts ==
  ASSUME IInv, NEW t \in Threads
  PROVE  /\ th \in [Threads -> ThreadType] /\ th[t] \in ThreadType
         /\ Fits(t, th[t]) /\ Owns(t, th[t], motion, authority) /\ Clean(t, th[t], released)
BY DEF IInv, TypeOK, Each

(* Nothing is within the limit. *)
LEMMA Empty == Cardinality({}) <= MaxHeld /\ Cardinality({}) = 0
BY FS_EmptySet, MotionAssumption

(* What is part of a set within the limit is within it. *)
LEMMA Smaller ==
  ASSUME NEW S \in SUBSET Servos, NEW T \in SUBSET S, Cardinality(S) <= MaxHeld
  PROVE  Cardinality(T) <= MaxHeld
<1>1. IsFiniteSet(S) BY MotionAssumption, FS_Subset
<1>2. /\ IsFiniteSet(T) /\ Cardinality(T) <= Cardinality(S)
      /\ Cardinality(S) \in Nat /\ Cardinality(T) \in Nat
  BY <1>1, FS_Subset, FS_CardinalityType
<1>3. QED BY <1>2, MotionAssumption

(* A thread steps to c; the other keeps its place and its locks. *)
OthersKeep(t) ==
  /\ motion' \in Threads \cup {"none"} /\ authority' \in Threads \cup {"none"}
  /\ motion' # motion => motion \in {t, "none"}
  /\ authority' # authority => authority \in {t, "none"}

(* Thread t becomes c, which fits its operation and owns its locks. *)
Becomes(t, c) ==
  /\ th' = [th EXCEPT ![t] = c] /\ c \in ThreadType /\ Fits(t, c)
  /\ Owns(t, c, motion', authority') /\ OthersKeep(t)

(* After such a step every thread fits, owns and is clean. *)
LEMMA Steps ==
  ASSUME IInv, NEW t \in Threads, NEW c, Becomes(t, c), Clean(t, c, released'),
         \A u \in Threads : u # t => Clean(u, th[u], released')
  PROVE  /\ th' \in [Threads -> ThreadType] /\ Each'
         /\ motion' \in Threads \cup {"none"} /\ authority' \in Threads \cup {"none"}
         /\ \A u \in Threads : th'[u] = IF u = t THEN c ELSE th[u]
<1>1. /\ th' \in [Threads -> ThreadType]
      /\ \A u \in Threads : th'[u] = IF u = t THEN c ELSE th[u]
  BY Facts DEF Becomes
<1>2. ASSUME NEW u \in Threads
      PROVE  Fits(u, th'[u]) /\ Owns(u, th'[u], motion', authority') /\ Clean(u, th'[u], released')
  <2>1. CASE u = t BY <1>1, <2>1 DEF Becomes
  <2>2. CASE u # t
    <3>1. th'[u] = th[u] BY <1>1, <2>2
    <3>2. Fits(u, th[u]) /\ Owns(u, th[u], motion, authority) /\ Clean(u, th[u], released)
      BY Facts
    <3>3. Owns(u, th[u], motion', authority')
      BY <2>2, <3>2 DEF Owns, Becomes, OthersKeep, Threads
    <3>4. QED BY <2>2, <3>1, <3>2, <3>3
  <2>3. QED BY <2>1, <2>2
<1>3. QED BY <1>1, <1>2 DEF Each, Becomes, OthersKeep

(* The intent, the controller and the counts shrink or stay: what the other *)
(* thread relies on still stands.                                           *)
Shrinks ==
  /\ hat'.held \cap released = {}
  /\ th["lane"].op = "torque" /\ th["lane"].pc \in {"off", "forget"} => hat'.held \subseteq hat.held
  /\ held' \subseteq held
  /\ goals' \in {goals, NoGoals} /\ resent' = resent

(* After such a step both threads still have what they rely on. *)
LEMMA ShrinksKeeps ==
  ASSUME IInv, Shrinks
  PROVE  /\ LaneFits(th["lane"], held', goals', hat'.held)
         /\ \A c \in ThreadType : ChaseFits(c, goals, resent) => ChaseFits(c, goals', resent')
         /\ Spent' /\ Cardinality(held') <= MaxHeld /\ held' \in SUBSET Servos
         /\ goals' \in [Servos -> NoGoal..Attempts]
         /\ resent' \in [Servos -> Nat]
<1>1. goals \in [Servos -> NoGoal..Attempts] /\ NoGoals \in [Servos -> NoGoal..Attempts]
  BY MotionAssumption DEF NoGoals, NoGoal, IInv, TypeOK
<1>2. \A s \in Servos : Budget(goals'[s]) = Budget(goals[s]) \/ Budget(goals'[s]) = 0
  BY <1>1 DEF Shrinks, NoGoals, NoGoal, Budget
<1>3. \A s \in Servos : Budget(goals[s]) \in Nat /\ Budget(goals'[s]) <= Budget(goals[s])
                        /\ Budget(goals'[s]) \in Nat
  BY <1>1, <1>2, MotionAssumption DEF Budget, NoGoal
<1>4. Cardinality(held') <= MaxHeld BY Smaller DEF IInv, TypeOK, Shrinks
<1>5. Spent' BY <1>3, MotionAssumption DEF IInv, TypeOK, Spent, Shrinks
<1>6. \A c \in ThreadType : ChaseFits(c, goals, resent) => ChaseFits(c, goals', resent')
  BY <1>3, MotionAssumption DEF ChaseFits, Shrinks, IInv, TypeOK, ThreadType
<1>7. LaneFits(th["lane"], held', goals', hat'.held)
  <2>1. LaneFits(th["lane"], held, goals, hat.held) BY DEF IInv
  <2>2. QED BY <2>1 DEF LaneFits, Shrinks
<1>8. QED BY <1>1, <1>4, <1>5, <1>6, <1>7 DEF Shrinks, IInv, TypeOK
-----------------------------------------------------------------------------
(* What the two threads share keeps its type. *)
Surroundings ==
  /\ hat' \in [held : SUBSET Servos, stopped : BOOLEAN]
  /\ due' \in BOOLEAN /\ stopped' \in BOOLEAN
  /\ stopPc' \in {"idle", "asked", "send", "unknown"}

(* A step of one thread: what it needs of itself, of the other thread and   *)
(* of what they share.                                                      *)
LEMMA Stepped ==
  ASSUME IInv, NEW t \in Threads, NEW c, Becomes(t, c), Surroundings,
         held' \in SUBSET Servos, Cardinality(held') <= MaxHeld,
         goals' \in [Servos -> NoGoal..Attempts], resent' \in [Servos -> Nat],
         released' \in SUBSET Servos,
         Spent', ReleasedUnheld', Clean(t, c, released'),
         \A u \in Threads : u # t => Clean(u, th[u], released'),
         LaneFits(IF t = "lane" THEN c ELSE th["lane"], held', goals', hat'.held),
         ChaseFits(IF t = "svc" THEN c ELSE th["svc"], goals', resent')
  PROVE  IInv'
<1>1. /\ th' \in [Threads -> ThreadType] /\ Each'
      /\ motion' \in Threads \cup {"none"} /\ authority' \in Threads \cup {"none"}
      /\ \A u \in Threads : th'[u] = IF u = t THEN c ELSE th[u]
  BY Steps
<1>2. /\ th'["lane"] = IF t = "lane" THEN c ELSE th["lane"]
      /\ th'["svc"] = IF t = "svc" THEN c ELSE th["svc"]
  BY <1>1 DEF Threads
<1>3. TypeOK' BY <1>1 DEF TypeOK, Surroundings
<1>4. QED BY <1>1, <1>2, <1>3 DEF IInv

(* The step of a thread after which what stands behind it still does. *)
LEMMA Preserved ==
  ASSUME IInv, NEW t \in Threads, NEW c, Becomes(t, c), Shrinks, Surroundings,
         released' = released, Clean(t, c, released),
         t = "lane" => LaneFits(c, held', goals', hat'.held),
         t = "svc" => ChaseFits(c, goals', resent')
  PROVE  IInv'
<1>1. LaneFits(IF t = "lane" THEN c ELSE th["lane"], held', goals', hat'.held)
  <2>1. th["lane"] \in ThreadType BY Facts DEF Threads
  <2>2. QED BY <2>1, ShrinksKeeps DEF IInv
<1>2. ChaseFits(IF t = "svc" THEN c ELSE th["svc"], goals', resent')
  <2>1. th["svc"] \in ThreadType BY Facts DEF Threads
  <2>2. QED BY <2>1, ShrinksKeeps DEF IInv
<1>3. ReleasedUnheld' BY DEF ReleasedUnheld, IInv, Shrinks
<1>4. \A u \in Threads : Clean(u, th[u], released') BY Facts
<1>5. released' \in SUBSET Servos BY DEF IInv, TypeOK
<1>6. QED BY <1>1, <1>2, <1>3, <1>4, <1>5, ShrinksKeeps, Stepped

(* The thread goes on to pc; nothing of its operation changes. *)
LEMMA GoesTo ==
  ASSUME IInv, NEW t \in Threads, NEW pc \in Places, Goto(t, pc), OthersKeep(t),
         Fits(t, [th[t] EXCEPT !.pc = pc]),
         Owns(t, [th[t] EXCEPT !.pc = pc], motion', authority'),
         Shrinks, Surroundings, released' = released,
         th[t].op = "torque" => /\ th[t].pc \in {"authority", "set"} => pc = "set"
                                /\ pc \in {"check", "prepare", "hold"} => th[t].send = th[t].want
                                /\ pc \in {"off", "forget"} => hat'.held \subseteq th[t].want,
         pc \in {"clearReset", "clearCommit"} => held' = {} /\ goals' = NoGoals,
         th[t].op = "chase" => th[t].pc # "look" \/ pc = "look"
  PROVE  IInv'
<1> DEFINE d == [th[t] EXCEPT !.pc = pc]
<1>1. th[t] \in ThreadType /\ th \in [Threads -> ThreadType] /\ Clean(t, th[t], released)
  BY Facts
<1>2. /\ d \in ThreadType /\ d.pc = pc /\ d.op = th[t].op /\ d.want = th[t].want
      /\ d.send = th[t].send /\ d.prev = th[t].prev /\ d.todo = th[t].todo
      /\ d.out = th[t].out
  BY <1>1, AtType
<1>3. th' = [th EXCEPT ![t] = d] BY <1>1 DEF Goto
<1> HIDE DEF d
<1>4. Clean(t, d, released) BY <1>1, <1>2 DEF Clean
<1>5. t = "lane" => LaneFits(d, held', goals', hat'.held)
  <2>1. LaneFits(th["lane"], held, goals, hat.held) BY DEF IInv
  <2>2. QED BY <1>1, <1>2, <2>1 DEF LaneFits, Shrinks
<1>6. t = "svc" => ChaseFits(d, goals', resent')
  <2>1. t = "svc" => ChaseFits(th[t], goals', resent') BY <1>1, ShrinksKeeps DEF IInv
  <2>2. QED BY <1>2, <2>1 DEF ChaseFits
<1>7. Fits(t, d) /\ Owns(t, d, motion', authority') BY DEF d
<1>8. Becomes(t, d) BY <1>2, <1>3, <1>7 DEF Becomes
<1>9. QED BY <1>4, <1>5, <1>6, <1>8, Preserved

(* The operation is over. *)
LEMMA Ends ==
  ASSUME IInv, NEW t \in Threads, Done(t), Shrinks, Surroundings, released' = released
  PROVE  IInv'
<1>1. th \in [Threads -> ThreadType] /\ motion \in Threads \cup {"none"}
      /\ authority \in Threads \cup {"none"}
  BY DEF IInv, TypeOK
<1>2. Becomes(t, Idle)
  BY <1>1, IdleType
  DEF Becomes, Done, Fits, Owns, UnderMotion, UnderAuthority, OthersKeep, Without
<1>3. Clean(t, Idle, released) BY IdleType DEF Clean
<1>4. LaneFits(Idle, held', goals', hat'.held) BY IdleType, Empty DEF LaneFits
<1>5. ChaseFits(Idle, goals', resent') BY IdleType DEF ChaseFits
<1>6. QED BY <1>2, <1>3, <1>4, <1>5, Preserved

(* An exception in an operation that holds what it should. *)
LEMMA FailsKeeps ==
  ASSUME IInv, NEW t \in Threads, Fails(t), Shrinks, Surroundings, released' = released,
         th[t].pc \notin {"authority", "set", "look"}
  PROVE  IInv'
<1>1. th[t] \in ThreadType /\ th \in [Threads -> ThreadType]
      /\ Fits(t, th[t]) /\ Owns(t, th[t], motion, authority)
      /\ motion \in Threads \cup {"none"} /\ authority \in Threads \cup {"none"}
  BY Facts DEF IInv, TypeOK
<1>2. CASE th[t].op = "torque" /\ Goto(t, "restore") /\ UNCHANGED locks
  <2>1. "restore" \in Places BY DEF Places
  <2>2. OthersKeep(t) BY <1>1, <1>2 DEF OthersKeep, locks
  <2>3. Fits(t, [th[t] EXCEPT !.pc = "restore"])
        /\ Owns(t, [th[t] EXCEPT !.pc = "restore"], motion', authority')
    BY <1>1, <1>2, <2>1, AtType DEF Fits, Owns, locks, UnderMotion, UnderAuthority, Threads
  <2>4. QED BY <1>2, <2>1, <2>2, <2>3, GoesTo
<1>3. CASE /\ th[t].op = "chase"
           /\ th' = [th EXCEPT ![t].pc = "look", ![t].over = @ \cup th[t].want]
           /\ UNCHANGED motion /\ authority' = Without(authority, t)
  <2> DEFINE d == [th[t] EXCEPT !.pc = "look", !.over = @ \cup th[t].want]
  <2>1. /\ d \in ThreadType /\ d.pc = "look" /\ d.op = "chase" /\ d.want = th[t].want
        /\ d.send = th[t].send /\ d.prev = th[t].prev /\ d.todo = th[t].todo
        /\ d.out = th[t].out
    BY <1>1, <1>3 DEF ThreadType
  <2>2. th' = [th EXCEPT ![t] = d] BY <1>1, <1>3
  <2> HIDE DEF d
  <2>3. t = "svc" BY <1>1, <1>3 DEF Fits, Threads
  <2>4. Becomes(t, d)
    BY <1>1, <1>3, <2>1, <2>2, <2>3
    DEF Becomes, Fits, Owns, OthersKeep, UnderMotion, UnderAuthority, Without
  <2>5. Clean(t, d, released) BY <2>1, <2>3, Facts DEF Clean
  <2>6. ChaseFits(d, goals', resent')
    <3>1. ChaseFits(th[t], goals', resent') BY <1>1, <2>3, ShrinksKeeps DEF IInv
    <3>2. QED BY <2>1, <3>1, <1>3 DEF ChaseFits
  <2>7. QED BY <2>3, <2>4, <2>5, <2>6, Preserved
<1>4. CASE Done(t) BY <1>4, Ends
<1>5. QED BY <1>2, <1>3, <1>4 DEF Fails
-----------------------------------------------------------------------------
(* A step that leaves what is shared alone shrinks nothing, and keeps it. *)
LEMMA SameShrinks ==
  ASSUME IInv, UNCHANGED <<intent, hat, resent, stopPc, stopped>>
  PROVE  Shrinks /\ Surroundings
BY DEF intent, Shrinks, Surroundings, IInv, TypeOK, ReleasedUnheld

(* A step that leaves the locks alone takes none of another thread. *)
LEMMA KeepsLocks ==
  ASSUME IInv, NEW t \in Threads, UNCHANGED locks PROVE OthersKeep(t)
BY DEF IInv, TypeOK, OthersKeep, locks

(* The STOP check before an operation sends anything. *)
LEMMA CheckKeeps == ASSUME IInv, NEW t \in Threads, Check(t) PROVE IInv'
<1>1. /\ th[t] \in ThreadType /\ Fits(t, th[t]) /\ Owns(t, th[t], motion, authority)
      /\ th[t].pc = "check"
  BY Facts DEF Check, At
<1>2. Shrinks /\ Surroundings /\ released' = released
  BY SameShrinks DEF Check, intent, history
<1>3. CASE Fails(t) BY <1>1, <1>2, <1>3, FailsKeeps
<1>4. CASE Goto(t, Action(t)) /\ UNCHANGED locks
  <2>1. /\ th[t].op = "targets" => Action(t) = "ensure"
        /\ th[t].op = "torque" => Action(t) = "prepare"
        /\ th[t].op = "chase" => Action(t) = "move"
        /\ th[t].op \in {"targets", "torque", "chase"}
    BY <1>1 DEF Action, Fits, Threads
  <2>2. Action(t) \in Places BY <2>1 DEF Places
  <2> DEFINE pc == Action(t)
  <2> HIDE DEF pc
  <2>3. Fits(t, [th[t] EXCEPT !.pc = pc]) /\ Owns(t, [th[t] EXCEPT !.pc = pc], motion', authority')
    BY <1>1, <1>4, <2>1, <2>2, AtType DEF pc, Fits, Owns, locks, UnderMotion, UnderAuthority, Threads
  <2>4. th[t].op = "torque" => th[t].send = th[t].want
    BY <1>1 DEF IInv, LaneFits, Fits, Threads
  <2>5. QED BY <1>1, <1>2, <1>4, <2>1, <2>2, <2>3, <2>4, KeepsLocks, GoesTo DEF pc
<1>5. QED BY <1>3, <1>4 DEF Check

(* The lease is checked again under authority_lock. *)
LEMMA RetakeKeeps == ASSUME IInv, NEW t \in Threads, Retake(t) PROVE IInv'
<1>1. /\ th[t] \in ThreadType /\ th \in [Threads -> ThreadType] /\ Fits(t, th[t])
      /\ Owns(t, th[t], motion, authority) /\ Clean(t, th[t], released)
      /\ th[t].pc = "retake" /\ th[t].op \in {"targets", "chase"}
  BY Facts DEF Retake, At, Fits, Threads
<1>2. Shrinks /\ Surroundings /\ released' = released
  BY SameShrinks DEF Retake, intent, history
<1>3. CASE Fails(t) BY <1>1, <1>2, <1>3, FailsKeeps
<1>4. CASE /\ UNCHANGED locks
           /\ th' = [th EXCEPT ![t].pc = "retakeHold", ![t].send = held]
  <2> DEFINE d == [th[t] EXCEPT !.pc = "retakeHold", !.send = held]
  <2>1. /\ d \in ThreadType /\ d.pc = "retakeHold" /\ d.op = th[t].op /\ d.want = th[t].want
        /\ d.send = held /\ d.prev = th[t].prev /\ d.todo = th[t].todo /\ d.out = th[t].out
    BY <1>1 DEF ThreadType, IInv, TypeOK
  <2>2. th' = [th EXCEPT ![t] = d] BY <1>1, <1>4
  <2> HIDE DEF d
  <2>3. Becomes(t, d)
    BY <1>1, <1>4, <2>1, <2>2, KeepsLocks
    DEF Becomes, Fits, Owns, UnderMotion, UnderAuthority, locks
  <2>4. Clean(t, d, released) BY <1>1, <2>1 DEF Clean, IInv, ReleasedUnheld
  <2>5. t = "lane" => LaneFits(d, held', goals', hat'.held)
    BY <1>1, <1>2, <2>1, ShrinksKeeps DEF IInv, LaneFits
  <2>6. t = "svc" => ChaseFits(d, goals', resent')
    <3>1. t = "svc" => ChaseFits(th[t], goals', resent') BY <1>1, <1>2, ShrinksKeeps DEF IInv
    <3>2. QED BY <1>1, <2>1, <3>1 DEF ChaseFits
  <2>7. QED BY <1>2, <2>3, <2>4, <2>5, <2>6, Preserved
<1>5. QED BY <1>3, <1>4 DEF Retake

(* HOLD_SET answers, and what the controller holds after it. *)
LEMMA HoldSetsType ==
  ASSUME IInv, NEW S \in SUBSET Servos, NEW o \in HoldSets(S)
  PROVE  /\ o[2] \in [held : SUBSET Servos, stopped : BOOLEAN]
         /\ o[2].held \in {S, hat.held, {}}
         /\ o[1] \in {"STOPPED", "ok", "lost", "refused"}
         /\ o[1] = "ok" => o[2].held = S
BY DEF HoldSets, IInv, TypeOK

(* The joints of the targets that are not held yet are to be prepared. *)
LEMMA EnsureKeeps == ASSUME IInv, NEW t \in Threads, Ensure(t) PROVE IInv'
<1>1. /\ th[t] \in ThreadType /\ th \in [Threads -> ThreadType] /\ Fits(t, th[t])
      /\ Owns(t, th[t], motion, authority) /\ Clean(t, th[t], released)
      /\ th[t].pc = "ensure" /\ th[t].op = "targets" /\ t = "lane"
  BY Facts DEF Ensure, At, Fits, Threads
<1>2. UNCHANGED <<goals, stopped, hat, stopPc, resent>> /\ UNCHANGED locks
  BY DEF Ensure
<1>3. CASE Goto(t, "move") /\ UNCHANGED <<held, due>>
  <2>1. released' = released BY <1>3 DEF Ensure, IInv, ReleasedUnheld
  <2>2. Shrinks /\ Surroundings
    BY <1>2, <1>3 DEF Shrinks, Surroundings, IInv, TypeOK, ReleasedUnheld
  <2>3. "move" \in Places BY DEF Places
  <2>4. Fits(t, [th[t] EXCEPT !.pc = "move"])
        /\ Owns(t, [th[t] EXCEPT !.pc = "move"], motion', authority')
    BY <1>1, <1>2, <2>3, AtType DEF Fits, Owns, locks, UnderMotion, UnderAuthority, Threads
  <2>5. QED BY <1>1, <1>2, <1>3, <2>1, <2>2, <2>3, <2>4, KeepsLocks, GoesTo
<1>4. ASSUME NEW X \in Widened(th[t].want), held' = X, due' = FALSE,
             th' = [th EXCEPT ![t].pc = "prepare", ![t].prev = held, ![t].send = X]
      PROVE  IInv'
  <2>1. X \in SUBSET Servos /\ Cardinality(X) <= MaxHeld /\ held \in SUBSET Servos
        /\ Cardinality(held) <= MaxHeld
    BY <1>1 DEF Widened, IInv, TypeOK, ThreadType
  <2> DEFINE d == [th[t] EXCEPT !.pc = "prepare", !.prev = held, !.send = X]
  <2>2. d \in ThreadType /\ d.pc = "prepare" /\ d.op = "targets" /\ d.send = X /\ d.prev = held
    BY <1>1, <2>1 DEF ThreadType
  <2>3. th' = [th EXCEPT ![t] = d] BY <1>1, <1>4
  <2> HIDE DEF d
  <2>4. Becomes(t, d)
    BY <1>1, <1>2, <2>2, <2>3, KeepsLocks
    DEF Becomes, Fits, Owns, UnderMotion, UnderAuthority, locks
  <2>5. released' = released \ X BY <1>4 DEF Ensure
  <2>6. Clean(t, d, released') BY <2>2, <2>5 DEF Clean, IInv, ReleasedUnheld
  <2>7. \A u \in Threads : Clean(u, th[u], released') BY <2>5, Facts DEF Clean
  <2>8. LaneFits(d, held', goals', hat'.held) BY <2>1, <2>2 DEF LaneFits
  <2>9. Spent' /\ ReleasedUnheld' BY <1>2, <1>4, <2>5 DEF IInv, Spent, ReleasedUnheld
  <2>10. Surroundings BY <1>2, <1>4 DEF Surroundings, IInv, TypeOK
  <2>11. /\ held' \in SUBSET Servos /\ Cardinality(held') <= MaxHeld
         /\ goals' \in [Servos -> NoGoal..Attempts] /\ resent' \in [Servos -> Nat]
         /\ released' \in SUBSET Servos
    BY <1>2, <1>4, <2>1, <2>5 DEF IInv, TypeOK
  <2>12. ChaseFits(th["svc"], goals', resent') BY <1>2 DEF IInv
  <2>13. QED BY <1>1, <2>4, <2>6, <2>7, <2>8, <2>9, <2>10, <2>11, <2>12, Stepped
<1>5. QED BY <1>3, <1>4 DEF Ensure

(* The controller prepares the joints to be held, or cannot. *)
LEMMA PrepareKeeps == ASSUME IInv, NEW t \in Threads, Prepare(t) PROVE IInv'
<1>1. /\ th[t] \in ThreadType /\ th \in [Threads -> ThreadType] /\ Fits(t, th[t])
      /\ Owns(t, th[t], motion, authority) /\ Clean(t, th[t], released)
      /\ th[t].pc = "prepare" /\ th[t].op \in {"targets", "torque", "renew"}
      /\ (th[t].op = "renew" <=> t = "svc")
  BY Facts DEF Prepare, At, Fits, Threads
<1>2. UNCHANGED <<due, goals, stopped, hat, stopPc, resent>> /\ released' = released
      /\ held' \subseteq held /\ UNCHANGED locks
  BY DEF Prepare, history
<1>3. Shrinks /\ Surroundings
  BY <1>2 DEF Shrinks, Surroundings, IInv, TypeOK, ReleasedUnheld
<1>4. LaneFits(th["lane"], held, goals, hat.held) BY DEF IInv
<1>5. CASE Goto(t, "hold")
  <2>1. "hold" \in Places BY DEF Places
  <2>2. Fits(t, [th[t] EXCEPT !.pc = "hold"])
        /\ Owns(t, [th[t] EXCEPT !.pc = "hold"], motion', authority')
    BY <1>1, <1>2, <2>1, AtType DEF Fits, Owns, locks, UnderMotion, UnderAuthority, Threads
  <2>3. th[t].op = "torque" => th[t].send = th[t].want BY <1>1, <1>4 DEF LaneFits, Threads
  <2>4. QED BY <1>1, <1>2, <1>3, <1>5, <2>1, <2>2, <2>3, KeepsLocks, GoesTo
<1>6. CASE th[t].op # "renew" /\ Because(t, "restore", "unprepared")
  <2> DEFINE d == [th[t] EXCEPT !.pc = "restore", !.why = "unprepared", !.send = {}]
  <2>1. /\ d \in ThreadType /\ d.pc = "restore" /\ d.op = th[t].op /\ d.send = {}
        /\ d.prev = th[t].prev /\ d.want = th[t].want
    BY <1>1 DEF ThreadType
  <2>2. th' = [th EXCEPT ![t] = d] BY <1>1, <1>6 DEF Because
  <2> HIDE DEF d
  <2>3. Becomes(t, d)
    BY <1>1, <1>2, <1>6, <2>1, <2>2, KeepsLocks
    DEF Becomes, Fits, Owns, UnderMotion, UnderAuthority, locks, Threads
  <2>4. Clean(t, d, released) BY <1>1, <2>1 DEF Clean
  <2>5. t = "lane" => LaneFits(d, held', goals', hat'.held) BY <1>1, <1>2, <1>4, <2>1 DEF LaneFits
  <2>6. t # "svc" BY <1>1, <1>6
  <2>7. QED BY <1>2, <1>3, <2>3, <2>4, <2>5, <2>6, Preserved
<1>7. CASE /\ th[t].op = "renew"
           /\ th' = [th EXCEPT ![t].pc = "hold", ![t].send = @ \ {Base}]
  <2> DEFINE d == [th[t] EXCEPT !.pc = "hold", !.send = @ \ {Base}]
  <2>1. /\ d \in ThreadType /\ d.pc = "hold" /\ d.op = "renew"
        /\ d.send = th[t].send \ {Base} /\ d.prev = th[t].prev
    BY <1>1, <1>7 DEF ThreadType
  <2>2. th' = [th EXCEPT ![t] = d] BY <1>1, <1>7
  <2> HIDE DEF d
  <2>3. t = "svc" BY <1>1, <1>7
  <2>4. Becomes(t, d)
    BY <1>1, <1>2, <1>7, <2>1, <2>2, <2>3, KeepsLocks
    DEF Becomes, Fits, Owns, UnderMotion, UnderAuthority, locks
  <2>5. Clean(t, d, released) BY <1>1, <2>1 DEF Clean
  <2>6. ChaseFits(d, goals', resent') BY <2>1 DEF ChaseFits
  <2>7. QED BY <1>2, <1>3, <2>3, <2>4, <2>5, <2>6, Preserved
<1>8. QED BY <1>5, <1>6, <1>7 DEF Prepare

(* A HOLD_SET of a thread that may send one. *)
LEMMA Sends ==
  ASSUME IInv, NEW t \in Threads, NEW S \in SUBSET Servos, S \cap released = {},
         NEW o \in HoldSets(S), hat' = o[2], UNCHANGED <<stopped, stopPc, resent>>,
         due' \in BOOLEAN, held' \subseteq held, goals' \in {goals, NoGoals},
         \/ t = "svc" /\ (UnderMotion(th[t]) \/ UnderAuthority(th[t]))
         \/ t = "lane" /\ th[t].pc \notin {"off", "forget"}
  PROVE  Shrinks /\ Surroundings
<1>1. hat' \in [held : SUBSET Servos, stopped : BOOLEAN] /\ hat'.held \in {S, hat.held, {}}
  BY HoldSetsType
<1>2. hat'.held \cap released = {} BY <1>1 DEF IInv, ReleasedUnheld
<1>3. ~(th["lane"].op = "torque" /\ th["lane"].pc \in {"off", "forget"})
  <2>1. Owns("lane", th["lane"], motion, authority) /\ Owns("svc", th["svc"], motion, authority)
    BY Facts DEF Threads
  <2>2. QED BY <2>1 DEF Owns, UnderMotion, UnderAuthority
<1>4. QED BY <1>1, <1>2, <1>3 DEF Shrinks, Surroundings, IInv, TypeOK

(* The thread gives up what it was about to send, and goes on to pc.        *)
LEMMA GivesUp ==
  ASSUME IInv, NEW t \in Threads, NEW pc \in {"restore", "recover"},
         NEW why \in {"STOPPED", "lost", "refused", "unprepared"}, Because(t, pc, why),
         \/ pc = "restore" /\ th[t].op \in {"targets", "torque"}
         \/ pc = "recover" /\ th[t].op = "torque",
         th[t].pc \notin {"authority", "set"}, UNCHANGED locks, Shrinks, Surroundings, released' = released
  PROVE  IInv'
<1>1. /\ th[t] \in ThreadType /\ th \in [Threads -> ThreadType] /\ Fits(t, th[t])
      /\ Owns(t, th[t], motion, authority) /\ Clean(t, th[t], released)
  BY Facts
<1> DEFINE d == [th[t] EXCEPT !.pc = pc, !.why = why, !.send = {}]
<1>2. /\ d \in ThreadType /\ d.pc = pc /\ d.op = th[t].op /\ d.send = {}
      /\ d.prev = th[t].prev /\ d.want = th[t].want
  BY <1>1 DEF ThreadType
<1>3. th' = [th EXCEPT ![t] = d] BY <1>1 DEF Because
<1> HIDE DEF d
<1>4. t = "lane" BY <1>1 DEF Fits, Threads
<1>5. Becomes(t, d)
  BY <1>1, <1>2, <1>3, <1>4, KeepsLocks
  DEF Becomes, Fits, Owns, UnderMotion, UnderAuthority, locks
<1>6. Clean(t, d, released) BY <1>1, <1>2 DEF Clean
<1>7. LaneFits(d, held', goals', hat'.held)
  <2>1. LaneFits(th["lane"], held, goals, hat.held) BY DEF IInv
  <2>2. QED BY <1>2, <1>4, <2>1 DEF LaneFits, Shrinks
<1>8. QED BY <1>4, <1>5, <1>6, <1>7, Preserved

(* HOLD_SET for the joints prepared. *)
LEMMA HoldKeeps == ASSUME IInv, NEW t \in Threads, Hold(t) PROVE IInv'
<1>1. /\ th[t] \in ThreadType /\ th \in [Threads -> ThreadType] /\ Fits(t, th[t])
      /\ Owns(t, th[t], motion, authority) /\ Clean(t, th[t], released)
      /\ th[t].pc = "hold" /\ th[t].op \in {"targets", "torque", "renew"}
      /\ (th[t].op = "renew" <=> t = "svc") /\ th[t].send \in SUBSET Servos
  BY Facts DEF Hold, At, Fits, Threads, ThreadType
<1>2. LaneFits(th["lane"], held, goals, hat.held) BY DEF IInv
<1>3. PICK o \in HoldSets(th[t].send) :
        /\ hat' = o[2]
        /\ \/ th[t].op = "renew" /\ Done(t)
           \/ /\ th[t].op # "renew" /\ UNCHANGED locks
              /\ IF o[1] = "ok" /\ th[t].op = "torque" THEN Goto(t, "off")
                 ELSE IF o[1] = "ok" THEN th' = [th EXCEPT ![t].pc = "move", ![t].prev = {},
                                                           ![t].send = {}]
                 ELSE IF o[1] = "STOPPED" /\ th[t].op = "torque"
                      THEN Because(t, "recover", o[1])
                      ELSE Because(t, "restore", o[1])
  BY DEF Hold
<1>4. /\ o[1] \in {"STOPPED", "ok", "lost", "refused"}
      /\ o[1] = "ok" => o[2].held = th[t].send
  BY <1>1, HoldSetsType
<1>5. Shrinks /\ Surroundings /\ released' = released
  <2>1. UNCHANGED <<intent, stopped, stopPc, history>> BY DEF Hold
  <2>2. t = "svc" => UnderAuthority(th[t]) BY <1>1 DEF UnderAuthority
  <2>3. due \in BOOLEAN BY DEF IInv, TypeOK
  <2>4. th[t].send \cap released = {} BY <1>1 DEF Clean
  <2>5. t = "svc" \/ t = "lane" BY DEF Threads
  <2>6. QED BY <1>1, <1>3, <2>1, <2>2, <2>3, <2>4, <2>5, Sends DEF intent, history
<1>6. CASE Done(t) BY <1>5, <1>6, Ends
<1>7. CASE /\ o[1] = "ok" /\ th[t].op = "torque" /\ Goto(t, "off") /\ UNCHANGED locks
  <2>1. "off" \in Places BY DEF Places
  <2>2. Fits(t, [th[t] EXCEPT !.pc = "off"])
        /\ Owns(t, [th[t] EXCEPT !.pc = "off"], motion', authority')
    BY <1>1, <1>7, <2>1, AtType DEF Fits, Owns, locks, UnderMotion, UnderAuthority, Threads
  <2>3. hat'.held \subseteq th[t].want
    BY <1>1, <1>2, <1>3, <1>4, <1>7 DEF LaneFits, Threads
  <2>4. QED BY <1>1, <1>5, <1>7, <2>1, <2>2, <2>3, KeepsLocks, GoesTo
<1>8. CASE /\ th[t].op = "targets" /\ UNCHANGED locks
           /\ th' = [th EXCEPT ![t].pc = "move", ![t].prev = {}, ![t].send = {}]
  <2> DEFINE d == [th[t] EXCEPT !.pc = "move", !.prev = {}, !.send = {}]
  <2>1. /\ d \in ThreadType /\ d.pc = "move" /\ d.op = "targets" /\ d.send = {} /\ d.prev = {}
    BY <1>1, <1>8 DEF ThreadType
  <2>2. th' = [th EXCEPT ![t] = d] BY <1>1, <1>8
  <2> HIDE DEF d
  <2>3. t = "lane" BY <1>1, <1>8 DEF Threads
  <2>4. Becomes(t, d)
    BY <1>1, <1>8, <2>1, <2>2, <2>3, KeepsLocks
    DEF Becomes, Fits, Owns, UnderMotion, UnderAuthority, locks
  <2>5. Clean(t, d, released) BY <2>1 DEF Clean
  <2>6. LaneFits(d, held', goals', hat'.held) BY <2>1, Empty DEF LaneFits
  <2>7. QED BY <1>5, <2>3, <2>4, <2>5, <2>6, Preserved
<1>9. CASE /\ th[t].op = "torque" /\ UNCHANGED locks /\ Because(t, "recover", o[1])
           /\ o[1] = "STOPPED"
  BY <1>1, <1>5, <1>9, GivesUp
<1>10. CASE /\ th[t].op # "renew" /\ o[1] # "ok" /\ UNCHANGED locks /\ Because(t, "restore", o[1])
  BY <1>1, <1>4, <1>5, <1>10, GivesUp
<1>11. QED BY <1>1, <1>3, <1>6, <1>7, <1>8, <1>9, <1>10

(* The hold of before, sent again after a failure. *)
LEMMA RestoreKeeps == ASSUME IInv, NEW t \in Threads, Restore(t) PROVE IInv'
<1>1. /\ th[t] \in ThreadType /\ th \in [Threads -> ThreadType] /\ Fits(t, th[t])
      /\ Owns(t, th[t], motion, authority) /\ Clean(t, th[t], released)
      /\ th[t].pc = "restore" /\ th[t].op \in {"targets", "torque"} /\ t = "lane"
  BY Facts DEF Restore, At, Fits, Threads
<1>2. LaneFits(th["lane"], held, goals, hat.held) BY DEF IInv
<1>3. /\ held' = th[t].prev /\ UNCHANGED <<due, goals, stopped, hat, stopPc, released, resent>>
  BY DEF Restore, history
<1>4. /\ held' \in SUBSET Servos /\ Cardinality(held') <= MaxHeld /\ ReleasedUnheld'
      /\ goals' \in [Servos -> NoGoal..Attempts] /\ resent' \in [Servos -> Nat]
      /\ released' \in SUBSET Servos /\ Spent'
  BY <1>1, <1>2, <1>3 DEF IInv, TypeOK, ThreadType, LaneFits, ReleasedUnheld, Clean, Spent
<1>5. Surroundings BY <1>3 DEF Surroundings, IInv, TypeOK
<1>6. PICK d \in ThreadType :
        /\ Becomes(t, d) /\ d.send = {} /\ d.prev = {} /\ d.op \in {"idle", "targets"}
        /\ d.pc \notin {"clearReset", "clearCommit"}
  <2>1. CASE Done(t)
    <3>1. Becomes(t, Idle)
      BY <1>1, <2>1, IdleType
      DEF Becomes, Done, Fits, Owns, UnderMotion, UnderAuthority, OthersKeep, Without, IInv, TypeOK
    <3>2. QED BY <3>1, IdleType
  <2>2. CASE /\ UNCHANGED locks /\ th[t].op = "targets"
             /\ th' = [th EXCEPT ![t] = [Idle EXCEPT !.op = "targets", !.pc = "recover",
                         !.want = th[t].want, !.onLoop = th[t].onLoop,
                         !.retried = th[t].retried]]
    <3> DEFINE d == [Idle EXCEPT !.op = "targets", !.pc = "recover", !.want = th[t].want,
                       !.onLoop = th[t].onLoop, !.retried = th[t].retried]
    <3> DEFINE a == [Idle EXCEPT !.op = "targets", !.pc = "recover", !.want = th[t].want]
    <3>1. /\ a \in ThreadType /\ a.pc = "recover" /\ a.op = "targets" /\ a.send = {}
          /\ a.prev = {}
      BY <1>1, IdleType, ZenonT(40) DEF ThreadType
    <3>2. d = [a EXCEPT !.onLoop = th[t].onLoop, !.retried = th[t].retried]
      BY IdleType DEF ThreadType
    <3>3. th' = [th EXCEPT ![t] = d] BY <2>2
    <3>4. th[t].onLoop \in BOOLEAN /\ th[t].retried \in BOOLEAN BY <1>1 DEF ThreadType
    <3> HIDE DEF a, d
    <3>5. /\ d \in ThreadType /\ d.pc = "recover" /\ d.op = "targets" /\ d.send = {}
          /\ d.prev = {}
      BY <3>1, <3>2, <3>4 DEF ThreadType
    <3>6. Becomes(t, d)
      BY <1>1, <2>2, <3>3, <3>5, KeepsLocks
      DEF Becomes, Fits, Owns, UnderMotion, UnderAuthority, locks
    <3>7. QED BY <3>5, <3>6
  <2>3. CASE /\ UNCHANGED locks /\ th[t].op = "targets"
             /\ th' = [th EXCEPT ![t] = [Idle EXCEPT !.op = "targets", !.pc = "abort",
                         !.onLoop = th[t].onLoop]]
    <3> DEFINE d == [Idle EXCEPT !.op = "targets", !.pc = "abort", !.onLoop = th[t].onLoop]
    <3>1. /\ d \in ThreadType /\ d.pc = "abort" /\ d.op = "targets" /\ d.send = {}
          /\ d.prev = {}
      BY <1>1, IdleType, ZenonT(40) DEF ThreadType
    <3>2. th' = [th EXCEPT ![t] = d] BY <2>3
    <3> HIDE DEF d
    <3>3. Becomes(t, d)
      BY <1>1, <2>3, <3>1, <3>2, KeepsLocks
      DEF Becomes, Fits, Owns, UnderMotion, UnderAuthority, locks
    <3>4. QED BY <3>1, <3>3
  <2>4. \/ Done(t)
        \/ /\ UNCHANGED locks /\ th[t].op = "targets"
           /\ \/ th' = [th EXCEPT ![t] = [Idle EXCEPT !.op = "targets", !.pc = "recover",
                         !.want = th[t].want, !.onLoop = th[t].onLoop,
                         !.retried = th[t].retried]]
              \/ th' = [th EXCEPT ![t] = [Idle EXCEPT !.op = "targets", !.pc = "abort",
                         !.onLoop = th[t].onLoop]]
    BY Zenon DEF Restore
  <2>5. QED BY <2>1, <2>2, <2>3, <2>4
<1>7. Clean(t, d, released') /\ \A u \in Threads : Clean(u, th[u], released')
  BY <1>3, <1>6, Facts DEF Clean
<1>8. LaneFits(d, held', goals', hat'.held) BY <1>6, Empty DEF LaneFits
<1>9. ChaseFits(th["svc"], goals', resent') BY <1>3 DEF IInv
<1>10. QED BY <1>1, <1>4, <1>5, <1>6, <1>7, <1>8, <1>9, Stepped

(* MOVE or SYNC_MOVE for the targets. *)
LEMMA MoveKeeps == ASSUME IInv, NEW t \in Threads, Move(t) PROVE IInv'
<1>1. /\ th[t] \in ThreadType /\ th \in [Threads -> ThreadType] /\ Fits(t, th[t])
      /\ Owns(t, th[t], motion, authority) /\ Clean(t, th[t], released)
      /\ th[t].pc = "move" /\ th[t].op \in {"targets", "chase"}
      /\ (th[t].op = "chase" <=> t = "svc") /\ resent \in [Servos -> Nat]
  BY Facts DEF Move, At, Fits, Threads, IInv, TypeOK
<1>2. PICK o \in Moves(th[t].want) :
       /\ resent' = [s \in Servos |->
            IF th[t].op = "chase" /\ s \in th[t].want /\ o \in {"ok", "lost"}
            THEN resent[s] + 1 ELSE resent[s]]
       /\ CASE o = "ok" -> /\ Goto(t, IF th[t].op = "chase" THEN "look" ELSE "record")
                            /\ UNCHANGED locks
            [] o = "STOPPED" -> Goto(t, "recover") /\ UNCHANGED locks
            [] o = "NO_TORQUE_LEASE" ->
                 IF th[t].retried THEN Fails(t) ELSE Goto(t, "retake") /\ UNCHANGED locks
            [] o \in {"lost", "MOVE_SET_FAILED"} /\ th[t].op = "targets" ->
                 Goto(t, "abort") /\ UNCHANGED locks
            [] OTHER -> Fails(t)
  BY DEF Move
<1>3. UNCHANGED <<held, due, goals, stopped, hat, stopPc, released>>
  BY DEF Move, intent
<1>4. ASSUME th[t].op = "chase", o \in {"ok", "lost"}
      PROVE  IInv'
  <2>1. t = "svc" BY <1>1, <1>4
  <2>2. PICK d \in ThreadType :
          /\ th' = [th EXCEPT ![t] = d] /\ d.pc = "look" /\ d.op = "chase"
          /\ d.want = th[t].want /\ d.send = th[t].send /\ d.todo = th[t].todo
          /\ d.out = th[t].out /\ OthersKeep(t) /\ motion' = motion
    <3>1. CASE Goto(t, "look") /\ UNCHANGED locks
      <4> DEFINE d == [th[t] EXCEPT !.pc = "look"]
      <4>1. th' = [th EXCEPT ![t] = d] BY <1>1, <3>1 DEF Goto
      <4>2. "look" \in Places BY DEF Places
      <4>3. /\ d \in ThreadType /\ d.pc = "look" /\ d.op = "chase"
            /\ d.want = th[t].want /\ d.send = th[t].send /\ d.todo = th[t].todo
            /\ d.out = th[t].out
        BY <1>1, <1>4, <4>2, AtType
      <4>4. OthersKeep(t) /\ motion' = motion BY <3>1, KeepsLocks DEF locks
      <4> HIDE DEF d
      <4>5. QED BY <4>1, <4>3, <4>4
    <3>2. CASE Fails(t)
      <4> DEFINE d == [th[t] EXCEPT !.pc = "look", !.over = @ \cup th[t].want]
      <4>1. th' = [th EXCEPT ![t] = d] BY <1>1, <1>4, <3>2 DEF Fails
      <4>2. /\ d \in ThreadType /\ d.pc = "look" /\ d.op = "chase"
            /\ d.want = th[t].want /\ d.send = th[t].send /\ d.todo = th[t].todo
            /\ d.out = th[t].out
        BY <1>1, <1>4 DEF ThreadType
      <4>3. motion' = motion /\ authority' = Without(authority, t) BY <1>4, <3>2 DEF Fails
      <4>4. OthersKeep(t) BY <4>3 DEF OthersKeep, Without, IInv, TypeOK
      <4> HIDE DEF d
      <4>5. QED BY <4>1, <4>2, <4>3, <4>4
    <3>3. QED BY <1>2, <1>4, <3>1, <3>2
  <2>3. Becomes(t, d)
    BY <1>1, <1>4, <2>1, <2>2 DEF Becomes, Fits, Owns, UnderMotion, UnderAuthority
  <2>4. ChaseFits(th["svc"], goals, resent) /\ Spent BY DEF IInv
  <2>5. \A s \in Servos :
          resent'[s] = IF s \in th["svc"].want THEN resent[s] + 1 ELSE resent[s]
    BY <1>2, <1>4, <2>1
  <2>6. Spent'
    BY <1>1, <1>3, <1>4, <2>1, <2>4, <2>5 DEF Spent, ChaseFits
  <2>7. ChaseFits(d, goals', resent')
    BY <1>1, <1>4, <2>1, <2>2, <2>4, <2>5 DEF ChaseFits, ThreadType
  <2>8. Clean(t, d, released') BY <1>1, <1>3, <2>1, <2>2 DEF Clean
  <2>9. \A u \in Threads : Clean(u, th[u], released') BY <1>3, Facts
  <2>10. LaneFits(th["lane"], held', goals', hat'.held) BY <1>3 DEF IInv
  <2>11. Surroundings BY <1>3 DEF Surroundings, IInv, TypeOK
  <2>12. /\ held' \in SUBSET Servos /\ Cardinality(held') <= MaxHeld /\ ReleasedUnheld'
         /\ goals' \in [Servos -> NoGoal..Attempts] /\ released' \in SUBSET Servos
    BY <1>3 DEF IInv, TypeOK, ReleasedUnheld
  <2>13. resent' \in [Servos -> Nat] BY <1>1, <1>2
  <2>14. QED
    BY <2>1, <2>3, <2>6, <2>7, <2>8, <2>9, <2>10, <2>11, <2>12, <2>13, Stepped
<1>5. ASSUME ~(th[t].op = "chase" /\ o \in {"ok", "lost"})
      PROVE  IInv'
  <2>1. resent' = resent BY <1>1, <1>2, <1>5
  <2>2. Shrinks /\ Surroundings /\ released' = released
    BY <1>3, <2>1, SameShrinks DEF intent
  <2>3. CASE Fails(t) BY <1>1, <2>2, <2>3, FailsKeeps
  <2>4. ASSUME NEW pc \in {"record", "recover", "retake", "abort"},
               pc \in {"record", "abort"} => th[t].op = "targets",
               Goto(t, pc), UNCHANGED locks
        PROVE  IInv'
    <3>1. pc \in Places BY DEF Places
    <3>2. Fits(t, [th[t] EXCEPT !.pc = pc])
          /\ Owns(t, [th[t] EXCEPT !.pc = pc], motion', authority')
      BY <1>1, <2>4, <3>1, AtType DEF Fits, Owns, locks, UnderMotion, UnderAuthority, Threads
    <3>3. QED BY <1>1, <2>2, <2>4, <3>1, <3>2, KeepsLocks, GoesTo
  <2>5. QED BY <1>1, <1>2, <1>5, <2>3, <2>4
<1>6. QED BY <1>4, <1>5

(* The goals of a move that was accepted are recorded. *)
LEMMA RecordKeeps == ASSUME IInv, NEW t \in Threads, Record(t) PROVE IInv'
<1>1. /\ th[t] \in ThreadType /\ Fits(t, th[t]) /\ Owns(t, th[t], motion, authority)
      /\ th[t].pc = "record" /\ th[t].op = "targets" /\ t = "lane"
      /\ resent \in [Servos -> Nat] /\ goals \in [Servos -> NoGoal..Attempts]
  BY Facts DEF Record, At, Fits, Threads, IInv, TypeOK
<1>2. UNCHANGED <<held, due, stopped, hat, stopPc, released>> BY DEF Record
<1>3. goals' \in [Servos -> NoGoal..Attempts] /\ resent' \in [Servos -> Nat]
  BY <1>1, MotionAssumption DEF Record, NoGoal
<1>4. Spent'
  <2>1. \A s \in Servos : resent[s] + Budget(goals[s]) <= Attempts BY DEF IInv, Spent
  <2>2. QED BY <1>1, <2>1, MotionAssumption DEF Record, Spent, Budget
<1>5. Becomes(t, Idle)
  BY <1>1, IdleType
  DEF Record, Becomes, Done, Fits, Owns, UnderMotion, UnderAuthority, OthersKeep, Without, IInv,
      TypeOK
<1>6. th["svc"].op # "chase"
  <2>1. Owns("svc", th["svc"], motion, authority) BY Facts DEF Threads
  <2>2. QED BY <1>1, <2>1 DEF Owns, UnderMotion
<1>7. ChaseFits(th["svc"], goals', resent') BY <1>6 DEF ChaseFits
<1>8. LaneFits(Idle, held', goals', hat'.held) BY IdleType, Empty DEF LaneFits
<1>9. Clean(t, Idle, released') BY IdleType DEF Clean
<1>10. \A u \in Threads : Clean(u, th[u], released') BY <1>2, Facts
<1>11. Surroundings BY <1>2 DEF Surroundings, IInv, TypeOK
<1>12. /\ held' \in SUBSET Servos /\ Cardinality(held') <= MaxHeld /\ ReleasedUnheld'
       /\ released' \in SUBSET Servos
  BY <1>2 DEF IInv, TypeOK, ReleasedUnheld
<1>13. QED
  BY <1>1, <1>3, <1>4, <1>5, <1>7, <1>8, <1>9, <1>10, <1>11, <1>12, Stepped

(* HOLD_SET when the lease has lapsed. *)
LEMMA RetakeHoldKeeps == ASSUME IInv, NEW t \in Threads, RetakeHold(t) PROVE IInv'
<1>1. /\ th[t] \in ThreadType /\ th \in [Threads -> ThreadType] /\ Fits(t, th[t])
      /\ Owns(t, th[t], motion, authority) /\ Clean(t, th[t], released)
      /\ th[t].pc = "retakeHold" /\ th[t].op \in {"targets", "chase"}
      /\ (th[t].op = "chase" <=> t = "svc") /\ th[t].send \in SUBSET Servos
  BY Facts DEF RetakeHold, At, Fits, Threads, ThreadType
<1>2. UNCHANGED <<held, due, goals, stopped, stopPc, released, resent>>
  BY DEF RetakeHold, intent, history
<1>3. due \in BOOLEAN BY DEF IInv, TypeOK
<1>4. t = "svc" => UnderMotion(th[t]) BY <1>1 DEF UnderMotion
<1>5. th[t].send \cap released = {} BY <1>1 DEF Clean
<1>6. ASSUME NEW o \in HoldSets(th[t].send), hat' = o[2],
             \/ /\ UNCHANGED locks
                /\ th' = [th EXCEPT ![t].pc = Action(t), ![t].retried = TRUE, ![t].send = {}]
             \/ Fails(t)
      PROVE  IInv'
  <2>1. Shrinks /\ Surroundings
    BY <1>1, <1>2, <1>3, <1>4, <1>5, <1>6, Sends DEF Threads
  <2>2. CASE Fails(t) BY <1>1, <1>2, <2>1, <2>2, FailsKeeps
  <2>3. CASE /\ UNCHANGED locks
             /\ th' = [th EXCEPT ![t].pc = Action(t), ![t].retried = TRUE, ![t].send = {}]
    <3> DEFINE pc == Action(t)
               d == [th[t] EXCEPT !.pc = pc, !.retried = TRUE, !.send = {}]
    <3>1. /\ th[t].op = "targets" => pc = "ensure"
          /\ th[t].op = "chase" => pc = "move"
      BY <1>1 DEF Action
    <3>2. th' = [th EXCEPT ![t] = d] BY <1>1, <2>3
    <3> HIDE DEF pc
    <3>3. /\ d \in ThreadType /\ d.pc = pc /\ d.op = th[t].op /\ d.want = th[t].want
          /\ d.send = {} /\ d.prev = th[t].prev /\ d.todo = th[t].todo /\ d.out = th[t].out
      BY <1>1, <3>1 DEF ThreadType
    <3> HIDE DEF d
    <3>4. Becomes(t, d)
      BY <1>1, <2>3, <3>1, <3>2, <3>3, KeepsLocks
      DEF Becomes, Fits, Owns, UnderMotion, UnderAuthority, locks
    <3>5. Clean(t, d, released) BY <1>1, <3>3 DEF Clean
    <3>6. t = "lane" => LaneFits(d, held', goals', hat'.held)
      <4>1. LaneFits(th["lane"], held, goals, hat.held) BY DEF IInv
      <4>2. QED BY <1>1, <3>1, <3>3, <4>1 DEF LaneFits
    <3>7. t = "svc" => ChaseFits(d, goals', resent')
      <4>1. ChaseFits(th["svc"], goals', resent') BY <1>2 DEF IInv
      <4>2. QED BY <1>1, <3>3, <4>1 DEF ChaseFits
    <3>8. QED BY <1>2, <2>1, <3>4, <3>5, <3>6, <3>7, Preserved
  <2>4. QED BY <1>6, <2>2, <2>3
<1>7. CASE Fails(t) /\ UNCHANGED hat
  <2>1. Shrinks /\ Surroundings BY <1>2, <1>7, SameShrinks DEF intent
  <2>2. QED BY <1>1, <1>2, <1>7, <2>1, FailsKeeps
<1>8. QED BY <1>6, <1>7 DEF RetakeHold

(* What the thread holds and means goes.                                    *)
LEMMA Emptied ==
  ASSUME IInv, hat'.held \subseteq hat.held, hat' \in [held : SUBSET Servos, stopped : BOOLEAN],
         held' \in {held, {}}, goals' \in {goals, NoGoals}, resent' = resent,
         due' \in BOOLEAN, stopped' \in BOOLEAN,
         stopPc' \in {"idle", "asked", "send", "unknown"}
  PROVE  Shrinks /\ Surroundings
BY DEF Shrinks, Surroundings, IInv, ReleasedUnheld

(* A request gives up with a STOP of its own. *)
LEMMA AbortKeeps == ASSUME IInv, NEW t \in Threads, Abort(t) PROVE IInv'
<1>1. /\ Fits(t, th[t]) /\ Owns(t, th[t], motion, authority) /\ th[t] \in ThreadType
      /\ th[t].pc = "abort" /\ th[t].op = "targets" /\ t = "lane"
  BY Facts DEF Abort, At, Fits, Threads
<1>2. Shrinks /\ Surroundings /\ released' = released
  BY Emptied DEF Abort, history, IInv, TypeOK
<1>3. OthersKeep(t) BY DEF OthersKeep, Abort, Free, IInv, TypeOK
<1>4. "abortSend" \in Places BY DEF Places
<1>5. Fits(t, [th[t] EXCEPT !.pc = "abortSend"])
      /\ Owns(t, [th[t] EXCEPT !.pc = "abortSend"], motion', authority')
  BY <1>1, <1>4, AtType DEF Abort, Fits, Owns, UnderMotion, UnderAuthority
<1>6. Goto(t, "abortSend") BY DEF Abort
<1>7. QED BY <1>1, <1>2, <1>3, <1>4, <1>5, <1>6, GoesTo

(* That STOP is sent. *)
LEMMA AbortSendKeeps == ASSUME IInv, NEW t \in Threads, AbortSend(t) PROVE IInv'
<1>1. UNCHANGED <<held, due, goals, stopped, stopPc, released, resent>> /\ Done(t)
  BY DEF AbortSend, intent, history
<1>2. PICK o \in HoldSets({}) : hat' = o[2] BY DEF AbortSend
<1>3. hat'.held \subseteq hat.held /\ hat' \in [held : SUBSET Servos, stopped : BOOLEAN]
  BY <1>2, HoldSetsType
<1>4. Shrinks /\ Surroundings BY <1>1, <1>3, Emptied DEF IInv, TypeOK
<1>5. QED BY <1>1, <1>4, Ends

(* The link is lost: the recovery starts. *)
LEMMA RecoverKeeps == ASSUME IInv, NEW t \in Threads, Recover(t) PROVE IInv'
<1>1. /\ Fits(t, th[t]) /\ Owns(t, th[t], motion, authority) /\ th[t] \in ThreadType
      /\ th \in [Threads -> ThreadType] /\ Clean(t, th[t], released)
      /\ th[t].pc = "recover" /\ th[t].op \in {"targets", "torque", "chase", "recover"}
  BY Facts DEF Recover, At, Fits, Threads
<1>2. UNCHANGED <<stopped, hat, stopPc, released, resent>> BY DEF Recover, history
<1>3. Shrinks /\ Surroundings
  BY <1>2, Emptied DEF Recover, intent, IInv, TypeOK
<1>4. CASE Fails(t) BY <1>1, <1>2, <1>3, <1>4, FailsKeeps
<1>5. CASE /\ th' = [th EXCEPT ![t].pc = "reset", ![t].raced = FALSE]
           /\ authority' = t /\ UNCHANGED motion
  <2> DEFINE d == [th[t] EXCEPT !.pc = "reset", !.raced = FALSE]
  <2>1. /\ d \in ThreadType /\ d.pc = "reset" /\ d.op = th[t].op /\ d.want = th[t].want
        /\ d.send = th[t].send /\ d.prev = th[t].prev /\ d.todo = th[t].todo
        /\ d.out = th[t].out
    BY <1>1 DEF ThreadType
  <2>2. th' = [th EXCEPT ![t] = d] BY <1>1, <1>5
  <2> HIDE DEF d
  <2>3. OthersKeep(t) BY <1>5 DEF OthersKeep, Recover, Free, IInv, TypeOK
  <2>4. Becomes(t, d)
    BY <1>1, <1>5, <2>1, <2>2, <2>3 DEF Becomes, Fits, Owns, UnderMotion, UnderAuthority
  <2>5. Clean(t, d, released) BY <1>1, <2>1 DEF Clean
  <2>6. t = "lane" => LaneFits(d, held', goals', hat'.held)
    <3>1. LaneFits(th["lane"], held, goals, hat.held) BY DEF IInv
    <3>2. QED BY <1>1, <1>3, <2>1, <3>1 DEF LaneFits, Shrinks
  <2>7. t = "svc" => ChaseFits(d, goals', resent')
    <3>1. ChaseFits(th["svc"], goals', resent')
      <4>1. th["svc"] \in ThreadType BY Facts DEF Threads
      <4>2. QED BY <1>3, <4>1, ShrinksKeeps DEF IInv
    <3>2. QED BY <1>1, <2>1, <3>1 DEF ChaseFits
  <2>8. QED BY <1>2, <1>3, <2>4, <2>5, <2>6, <2>7, Preserved
<1>6. QED BY <1>4, <1>5 DEF Recover

(* The recovery resets the controller and the intent. *)
LEMMA ResetKeeps == ASSUME IInv, NEW t \in Threads, Reset(t) PROVE IInv'
<1>1. /\ Fits(t, th[t]) /\ Owns(t, th[t], motion, authority) /\ th[t] \in ThreadType
      /\ th[t].pc = "reset"
  BY Facts DEF Reset, At
<1>2. UNCHANGED <<held, due, goals, stopped, stopPc, released, resent>>
      /\ hat' \in {hat, [hat EXCEPT !.stopped = FALSE]}
  BY DEF Reset, intent, history
<1>3. Shrinks /\ Surroundings
  <2>1. hat'.held \subseteq hat.held /\ hat' \in [held : SUBSET Servos, stopped : BOOLEAN]
    BY <1>2 DEF IInv, TypeOK
  <2>2. QED BY <1>2, <2>1, Emptied DEF IInv, TypeOK
<1>4. CASE Fails(t) BY <1>1, <1>2, <1>3, <1>4, FailsKeeps
<1>5. CASE Goto(t, "verdict") /\ UNCHANGED locks
  <2>1. "verdict" \in Places BY DEF Places
  <2>2. Fits(t, [th[t] EXCEPT !.pc = "verdict"])
        /\ Owns(t, [th[t] EXCEPT !.pc = "verdict"], motion', authority')
    BY <1>1, <1>5, <2>1, AtType DEF Fits, Owns, locks, UnderMotion, UnderAuthority, Threads
  <2>3. QED BY <1>1, <1>2, <1>3, <1>5, <2>1, <2>2, KeepsLocks, GoesTo
<1>6. QED BY <1>4, <1>5 DEF Reset

(* The recovery decides whether the hold is taken again. *)
LEMMA VerdictKeeps == ASSUME IInv, NEW t \in Threads, Verdict(t) PROVE IInv'
<1>1. /\ Fits(t, th[t]) /\ Owns(t, th[t], motion, authority) /\ th[t] \in ThreadType
      /\ th \in [Threads -> ThreadType] /\ Clean(t, th[t], released)
      /\ th[t].pc = "verdict" /\ th[t].op \in {"targets", "torque", "chase", "recover"}
  BY Facts DEF Verdict, At, Fits, Threads
<1>2. UNCHANGED <<intent, stopped, hat, stopPc, released, resent>> BY DEF Verdict, history
<1>3. Shrinks /\ Surroundings BY <1>2, SameShrinks
<1>4. CASE Goto(t, "restop") /\ UNCHANGED locks
  <2>1. "restop" \in Places BY DEF Places
  <2>2. Fits(t, [th[t] EXCEPT !.pc = "restop"])
        /\ Owns(t, [th[t] EXCEPT !.pc = "restop"], motion', authority')
    BY <1>1, <1>4, <2>1, AtType DEF Fits, Owns, locks, UnderMotion, UnderAuthority, Threads
  <2>3. QED BY <1>1, <1>2, <1>3, <1>4, <2>1, <2>2, KeepsLocks, GoesTo
<1>5. CASE Done(t) BY <1>2, <1>3, <1>5, Ends
<1>6. CASE /\ th[t].op # "recover"
           /\ th' = [th EXCEPT ![t].pc = Action(t), ![t].retried = TRUE, ![t].why = "none",
                           ![t].send = IF th[t].op = "torque" THEN th[t].want ELSE {}]
           /\ authority' = (IF th[t].op = "torque" THEN t ELSE "none")
           /\ UNCHANGED motion
  <2> DEFINE pc == Action(t)
             S == IF th[t].op = "torque" THEN th[t].want ELSE {}
             d == [th[t] EXCEPT !.pc = pc, !.retried = TRUE, !.why = "none", !.send = S]
  <2>1. /\ th[t].op = "targets" => pc = "ensure"
        /\ th[t].op = "torque" => pc = "prepare"
        /\ th[t].op = "chase" => pc = "move"
    BY <1>1 DEF Action
  <2>2. th' = [th EXCEPT ![t] = d] BY <1>1, <1>6
  <2>3. S \in SUBSET Servos /\ (th[t].op = "torque" => S = th[t].want) /\ S \cap released = {}
    BY <1>1 DEF ThreadType, Clean
  <2> HIDE DEF pc, S
  <2>4. /\ d \in ThreadType /\ d.pc = pc /\ d.op = th[t].op /\ d.want = th[t].want
        /\ d.send = S /\ d.prev = th[t].prev /\ d.todo = th[t].todo /\ d.out = th[t].out
    BY <1>1, <1>6, <2>1, <2>3 DEF ThreadType
  <2> HIDE DEF d
  <2>5. OthersKeep(t)
    BY <1>1, <1>6 DEF OthersKeep, IInv, TypeOK, Owns, UnderAuthority, Threads
  <2>6. Becomes(t, d)
    BY <1>1, <1>6, <2>1, <2>2, <2>4, <2>5
    DEF Becomes, Fits, Owns, UnderMotion, UnderAuthority, Threads
  <2>7. Clean(t, d, released) BY <1>1, <2>3, <2>4 DEF Clean
  <2>8. t = "lane" => LaneFits(d, held', goals', hat'.held)
    <3>1. LaneFits(th["lane"], held, goals, hat.held) BY DEF IInv
    <3>2. QED BY <1>1, <1>3, <1>6, <2>1, <2>3, <2>4, <3>1 DEF LaneFits, Shrinks
  <2>9. t = "svc" => ChaseFits(d, goals', resent')
    <3>1. ChaseFits(th["svc"], goals', resent') BY <1>2 DEF IInv, intent
    <3>2. QED BY <1>1, <2>4, <3>1 DEF ChaseFits
  <2>10. QED BY <1>2, <1>3, <2>6, <2>7, <2>8, <2>9, Preserved
<1>7. QED BY <1>4, <1>5, <1>6 DEF Verdict

(* The recovery finds the latch set and stops again. *)
LEMMA RestopKeeps == ASSUME IInv, NEW t \in Threads, Restop(t) PROVE IInv'
<1>1. th[t].pc = "restop" /\ Fails(t) BY DEF Restop, At
<1>2. UNCHANGED <<due, stopPc, released, resent>> BY DEF Restop, history
<1>3. hat'.held \subseteq hat.held /\ hat' \in [held : SUBSET Servos, stopped : BOOLEAN]
  <2>1. hat' = hat \/ hat' = [held |-> {}, stopped |-> TRUE] BY DEF Restop, StopTaken
  <2>2. hat \in [held : SUBSET Servos, stopped : BOOLEAN] BY DEF IInv, TypeOK
  <2>3. CASE hat' = [held |-> {}, stopped |-> TRUE] BY <2>3
  <2>4. QED BY <2>1, <2>2, <2>3
<1>4. Shrinks /\ Surroundings BY <1>2, <1>3, Emptied DEF Restop, IInv, TypeOK
<1>5. QED BY <1>1, <1>2, <1>4, FailsKeeps
-----------------------------------------------------------------------------
(* A request reaches the dispatch lane. *)
LEMMA RequestKeeps ==
  ASSUME IInv, NEW o \in {"targets", "torque", "clear"}, NEW W \in SUBSET Servos,
         NEW loop \in BOOLEAN, Request(o, W, loop), o = "torque" => Cardinality(W) <= MaxHeld
  PROVE  IInv'
<1>1. UNCHANGED <<intent, stopped, hat, authority, stopPc, released, resent>>
  BY DEF Request, history
<1>2. Shrinks /\ Surroundings BY <1>1, SameShrinks
<1> DEFINE pc == IF o = "targets" THEN "check" ELSE "authority"
           d == [Idle EXCEPT !.op = o, !.want = W, !.onLoop = loop, !.pc = pc]
<1>3. th' = [th EXCEPT !["lane"] = d] BY DEF Request
<1>4. pc \in {"check", "authority"} /\ (o = "targets" <=> pc = "check") OBVIOUS
<1> HIDE DEF pc
<1>5. /\ d \in ThreadType /\ d.pc = pc /\ d.op = o /\ d.want = W /\ d.send = {} /\ d.prev = {}
  BY <1>4, IdleType DEF ThreadType
<1> HIDE DEF d
<1>6. OthersKeep("lane") BY <1>1 DEF OthersKeep, Request, IInv, TypeOK, Threads
<1>7. motion' = "lane" BY DEF Request
<1>8. Becomes("lane", d)
  BY <1>3, <1>4, <1>5, <1>6, <1>7 DEF Becomes, Fits, Owns, UnderMotion, UnderAuthority
<1>9. Clean("lane", d, released) BY <1>4, <1>5 DEF Clean
<1>10. LaneFits(d, held', goals', hat'.held) BY <1>4, <1>5, Empty DEF LaneFits
<1>11. QED BY <1>1, <1>2, <1>8, <1>9, <1>10, Preserved DEF Threads

(* The lane takes authority_lock for a torque change or a clear. *)
LEMMA LaneTakesAuthorityKeeps == ASSUME IInv, LaneTakesAuthority PROVE IInv'
<1>1. /\ Fits("lane", th["lane"]) /\ Owns("lane", th["lane"], motion, authority)
      /\ th["lane"] \in ThreadType /\ th["lane"].pc = "authority"
      /\ th["lane"].op \in {"torque", "clear"}
  BY Facts DEF LaneTakesAuthority, At, Fits, Threads
<1>2. UNCHANGED <<intent, stopped, hat, motion, stopPc, released, resent>> /\ authority' = "lane"
      /\ authority = "none"
  BY DEF LaneTakesAuthority, history
<1>3. Shrinks /\ Surroundings BY <1>2, SameShrinks
<1> DEFINE pc == IF th["lane"].op = "torque" THEN "set" ELSE "clear"
<1>4. Goto("lane", pc) BY DEF LaneTakesAuthority
<1>5. pc \in {"set", "clear"} /\ (th["lane"].op = "torque" <=> pc = "set")
  OBVIOUS
<1> HIDE DEF pc
<1>6. pc \in Places BY <1>5 DEF Places
<1>7. OthersKeep("lane") BY <1>2 DEF OthersKeep, IInv, TypeOK, Threads
<1>8. Fits("lane", [th["lane"] EXCEPT !.pc = pc])
      /\ Owns("lane", [th["lane"] EXCEPT !.pc = pc], motion', authority')
  BY <1>1, <1>2, <1>5, <1>6, AtType DEF Fits, Owns, UnderMotion, UnderAuthority
<1>9. QED BY <1>1, <1>2, <1>3, <1>4, <1>5, <1>6, <1>7, <1>8, GoesTo DEF Threads

(* The lane holds both locks: the service thread is about to send nothing.  *)
LEMMA ServiceWaits ==
  ASSUME IInv, th["lane"].op \in {"torque", "clear"}, th["lane"].pc # "authority"
  PROVE  /\ th["svc"].op = "idle" \/ (th["svc"].op = "renew" /\ th["svc"].pc = "renew")
         /\ motion = "lane" /\ authority = "lane"
<1>1. /\ Owns("lane", th["lane"], motion, authority) /\ Owns("svc", th["svc"], motion, authority)
      /\ Fits("svc", th["svc"])
  BY Facts DEF Threads
<1>2. QED BY <1>1 DEF Owns, UnderMotion, UnderAuthority, Fits

(* A torque request forms the set to be held. *)
LEMMA TorqueSetKeeps == ASSUME IInv, TorqueSet PROVE IInv'
<1>1. /\ Fits("lane", th["lane"]) /\ Owns("lane", th["lane"], motion, authority)
      /\ th["lane"] \in ThreadType /\ th \in [Threads -> ThreadType] /\ th["lane"].pc = "set"
      /\ th["lane"].op = "torque" /\ "lane" \in Threads
  BY Facts DEF TorqueSet, At, Fits, Threads
<1>2. /\ UNCHANGED <<goals, stopped, hat, stopPc, resent>> /\ UNCHANGED locks
      /\ released' = released \ th["lane"].want /\ held' = th["lane"].want /\ due' = FALSE
  BY DEF TorqueSet
<1>3. LaneFits(th["lane"], held, goals, hat.held) BY DEF IInv
<1> DEFINE d == [th["lane"] EXCEPT !.pc = "check", !.prev = held, !.send = th["lane"].want]
<1>4. /\ d \in ThreadType /\ d.pc = "check" /\ d.op = "torque" /\ d.want = th["lane"].want
      /\ d.send = th["lane"].want /\ d.prev = held
  BY <1>1 DEF ThreadType, IInv, TypeOK
<1>5. th' = [th EXCEPT !["lane"] = d] BY <1>1 DEF TorqueSet
<1> HIDE DEF d
<1>6. Becomes("lane", d)
  BY <1>1, <1>2, <1>4, <1>5, KeepsLocks
  DEF Becomes, Fits, Owns, UnderMotion, UnderAuthority, locks
<1>7. Clean("lane", d, released') BY <1>2, <1>4 DEF Clean, IInv, ReleasedUnheld
<1>8. \A u \in Threads : Clean(u, th[u], released') BY <1>2, Facts DEF Clean
<1>9. LaneFits(d, held', goals', hat'.held) BY <1>1, <1>2, <1>3, <1>4 DEF LaneFits, IInv, TypeOK
<1>10. ChaseFits(th["svc"], goals', resent') BY <1>2 DEF IInv
<1>11. Surroundings BY <1>2 DEF Surroundings, IInv, TypeOK
<1>12. /\ held' \in SUBSET Servos /\ Cardinality(held') <= MaxHeld
       /\ goals' \in [Servos -> NoGoal..Attempts] /\ resent' \in [Servos -> Nat]
       /\ released' \in SUBSET Servos /\ Spent' /\ ReleasedUnheld'
  BY <1>1, <1>2, <1>3 DEF IInv, TypeOK, ThreadType, LaneFits, Spent, ReleasedUnheld
<1>13. QED
  BY <1>1, <1>6, <1>7, <1>8, <1>9, <1>10, <1>11, <1>12, Stepped

(* The torque of the released joints goes off. *)
LEMMA TorqueOffKeeps == ASSUME IInv, TorqueOff PROVE IInv'
<1>1. /\ Fits("lane", th["lane"]) /\ Owns("lane", th["lane"], motion, authority)
      /\ th["lane"] \in ThreadType /\ th["lane"].pc = "off" /\ th["lane"].op = "torque"
      /\ "lane" \in Threads
  BY Facts DEF TorqueOff, At, Fits, Threads
<1>2. UNCHANGED <<intent, stopped, hat, stopPc, released, resent>> /\ UNCHANGED locks
  BY DEF TorqueOff, history
<1>3. Shrinks /\ Surroundings BY <1>2, SameShrinks
<1>4. CASE Goto("lane", "forget")
  <2>1. "forget" \in Places BY DEF Places
  <2>2. Fits("lane", [th["lane"] EXCEPT !.pc = "forget"])
        /\ Owns("lane", [th["lane"] EXCEPT !.pc = "forget"], motion', authority')
    BY <1>1, <1>2, <2>1, AtType DEF Fits, Owns, locks, UnderMotion, UnderAuthority
  <2>3. hat'.held \subseteq th["lane"].want BY <1>1, <1>2 DEF IInv, LaneFits
  <2>4. QED BY <1>1, <1>2, <1>3, <1>4, <2>1, <2>2, <2>3, KeepsLocks, GoesTo
<1>5. CASE Because("lane", "restore", "refused") BY <1>1, <1>2, <1>3, <1>5, GivesUp
<1>6. QED BY <1>4, <1>5 DEF TorqueOff

(* The intent forgets the released joints: they are released from here on. *)
LEMMA TorqueForgetKeeps == ASSUME IInv, TorqueForget PROVE IInv'
<1>1. /\ Fits("lane", th["lane"]) /\ th["lane"] \in ThreadType /\ Fits("svc", th["svc"])
      /\ th["lane"].pc = "forget" /\ th["lane"].op = "torque" /\ "lane" \in Threads
  BY Facts DEF TorqueForget, At, Fits, Threads
<1>2. /\ UNCHANGED <<held, due, stopped, hat, stopPc, resent>>
      /\ released' = Servos \ th["lane"].want
      /\ goals' = [s \in Servos |->
           IF s \in th["lane"].prev \ th["lane"].want THEN NoGoal ELSE goals[s]]
      /\ Done("lane")
  BY DEF TorqueForget
<1>3. Becomes("lane", Idle)
  BY <1>1, <1>2, IdleType
  DEF Becomes, Done, Fits, Owns, UnderMotion, UnderAuthority, OthersKeep, Without, IInv, TypeOK
<1>4. Clean("lane", Idle, released') BY IdleType DEF Clean
<1>5. th["svc"].op = "idle" \/ (th["svc"].op = "renew" /\ th["svc"].pc = "renew")
  BY <1>1, ServiceWaits
<1>6. \A u \in Threads : u # "lane" => Clean(u, th[u], released')
  <2>1. th["svc"].send = {}
    BY <1>1, <1>5, IdleType DEF Fits
  <2>2. Clean("svc", th["svc"], released') BY <1>5, <2>1 DEF Clean
  <2>3. QED BY <2>2 DEF Threads
<1>7. ReleasedUnheld'
  <2>1. LaneFits(th["lane"], held, goals, hat.held) BY DEF IInv
  <2>2. QED BY <1>1, <1>2, <2>1 DEF ReleasedUnheld, LaneFits
<1>8. goals' \in [Servos -> NoGoal..Attempts] /\ Spent'
  <2>1. goals \in [Servos -> NoGoal..Attempts] /\ resent \in [Servos -> Nat]
    BY DEF IInv, TypeOK
  <2>2. \A s \in Servos : resent[s] + Budget(goals[s]) <= Attempts BY DEF IInv, Spent
  <2>3. goals' \in [Servos -> NoGoal..Attempts] BY <1>2, <2>1, MotionAssumption DEF NoGoal
  <2>4. \A s \in Servos : goals'[s] \in {NoGoal, goals[s]} BY <1>2
  <2>5. Spent'
    BY <1>2, <2>1, <2>2, <2>4, MotionAssumption DEF Spent, Budget, NoGoal
  <2>6. QED BY <2>3, <2>5
<1>9. ChaseFits(th["svc"], goals', resent') BY <1>5 DEF ChaseFits
<1>10. LaneFits(Idle, held', goals', hat'.held) BY IdleType, Empty DEF LaneFits
<1>11. Surroundings BY <1>2 DEF Surroundings, IInv, TypeOK
<1>12. /\ held' \in SUBSET Servos /\ Cardinality(held') <= MaxHeld
       /\ resent' \in [Servos -> Nat] /\ released' \in SUBSET Servos
  BY <1>2 DEF IInv, TypeOK
<1>13. QED
  BY <1>1, <1>3, <1>4, <1>6, <1>7, <1>8, <1>9, <1>10, <1>11, <1>12, Stepped

(* A clear checks that it may. *)
LEMMA ClearBeginKeeps == ASSUME IInv, ClearBegin PROVE IInv'
<1>1. /\ Fits("lane", th["lane"]) /\ th["lane"] \in ThreadType /\ Fits("svc", th["svc"])
      /\ Owns("lane", th["lane"], motion, authority) /\ Clean("lane", th["lane"], released)
      /\ th["lane"].pc = "clear" /\ th["lane"].op = "clear" /\ "lane" \in Threads
      /\ th \in [Threads -> ThreadType]
  BY Facts DEF ClearBegin, At, Fits, Threads
<1>2. /\ UNCHANGED <<due, hat, stopPc, released>> /\ UNCHANGED locks
      /\ held' = {} /\ goals' = NoGoals /\ resent' = [s \in Servos |-> 0]
      /\ stopped' = (stopped \/ hat.stopped)
  BY DEF ClearBegin
<1> DEFINE d == [th["lane"] EXCEPT !.pc = "clearReset", !.raced = FALSE]
<1>3. /\ d \in ThreadType /\ d.pc = "clearReset" /\ d.op = "clear" /\ d.send = th["lane"].send
      /\ d.prev = th["lane"].prev
  BY <1>1 DEF ThreadType
<1>4. th' = [th EXCEPT !["lane"] = d] BY <1>1 DEF ClearBegin
<1> HIDE DEF d
<1>5. Becomes("lane", d)
  BY <1>1, <1>2, <1>3, <1>4, KeepsLocks
  DEF Becomes, Fits, Owns, UnderMotion, UnderAuthority, locks
<1>6. Clean("lane", d, released') BY <1>1, <1>2, <1>3 DEF Clean
<1>7. \A u \in Threads : Clean(u, th[u], released') BY <1>2, Facts
<1>8. th["svc"].op # "chase" BY <1>1, ServiceWaits
<1>9. ChaseFits(th["svc"], goals', resent') BY <1>8 DEF ChaseFits
<1>10. LaneFits(d, held', goals', hat'.held)
  <2>1. LaneFits(th["lane"], held, goals, hat.held) BY DEF IInv
  <2>2. QED BY <1>2, <1>3, <2>1 DEF LaneFits
<1>11. Surroundings BY <1>2 DEF Surroundings, IInv, TypeOK
<1>12. goals' \in [Servos -> NoGoal..Attempts] /\ Spent'
  BY <1>2, MotionAssumption DEF NoGoals, NoGoal, Spent, Budget
<1>13. /\ held' \in SUBSET Servos /\ Cardinality(held') <= MaxHeld
       /\ resent' \in [Servos -> Nat] /\ released' \in SUBSET Servos /\ ReleasedUnheld'
  BY <1>2, Empty DEF IInv, TypeOK, ReleasedUnheld
<1>14. QED
  BY <1>1, <1>5, <1>6, <1>7, <1>9, <1>10, <1>11, <1>12, <1>13, Stepped

(* The clear has dropped the intent and resets the controller. *)
LEMMA ClearResetKeeps == ASSUME IInv, ClearReset PROVE IInv'
<1>1. /\ Fits("lane", th["lane"]) /\ Owns("lane", th["lane"], motion, authority)
      /\ th["lane"] \in ThreadType /\ th["lane"].pc = "clearReset" /\ th["lane"].op = "clear"
      /\ "lane" \in Threads
  BY Facts DEF ClearReset, At, Fits, Threads
<1>2. UNCHANGED <<held, due, goals, stopped, stopPc, released, resent>>
      /\ hat' \in {hat, [hat EXCEPT !.stopped = FALSE]}
  BY DEF ClearReset, intent, history
<1>3. hat'.held \subseteq hat.held /\ hat' \in [held : SUBSET Servos, stopped : BOOLEAN]
  BY <1>2 DEF IInv, TypeOK
<1>4. Shrinks /\ Surroundings BY <1>2, <1>3, Emptied DEF IInv, TypeOK
<1>5. CASE Done("lane") BY <1>1, <1>2, <1>4, <1>5, Ends
<1>6. CASE Goto("lane", "clearCommit") /\ UNCHANGED locks
  <2>1. "clearCommit" \in Places BY DEF Places
  <2>2. Fits("lane", [th["lane"] EXCEPT !.pc = "clearCommit"])
        /\ Owns("lane", [th["lane"] EXCEPT !.pc = "clearCommit"], motion', authority')
    BY <1>1, <1>6, <2>1, AtType DEF Fits, Owns, locks, UnderMotion, UnderAuthority
  <2>3. held' = {} /\ goals' = NoGoals BY <1>1, <1>2 DEF IInv, LaneFits
  <2>4. QED BY <1>1, <1>2, <1>4, <1>6, <2>1, <2>2, <2>3, KeepsLocks, GoesTo
<1>7. QED BY <1>5, <1>6 DEF ClearReset

(* The clear commits: the latch is off, nothing is held. *)
LEMMA ClearCommitKeeps == ASSUME IInv, ClearCommit PROVE IInv'
<1>1. /\ Fits("lane", th["lane"]) /\ Owns("lane", th["lane"], motion, authority)
      /\ th["lane"] \in ThreadType /\ th["lane"].pc = "clearCommit" /\ th["lane"].op = "clear"
      /\ "lane" \in Threads
  BY Facts DEF ClearCommit, At, Fits, Threads
<1>2. UNCHANGED <<held, due, goals, hat, stopPc, released, resent>>
  BY DEF ClearCommit, intent, history
<1>3. Shrinks /\ Surroundings BY <1>2, Emptied DEF ClearCommit, IInv, TypeOK
<1>4. CASE Goto("lane", "restop") /\ UNCHANGED locks
  <2>1. "restop" \in Places BY DEF Places
  <2>2. Fits("lane", [th["lane"] EXCEPT !.pc = "restop"])
        /\ Owns("lane", [th["lane"] EXCEPT !.pc = "restop"], motion', authority')
    BY <1>1, <1>4, <2>1, AtType DEF Fits, Owns, locks, UnderMotion, UnderAuthority
  <2>3. QED BY <1>1, <1>2, <1>3, <1>4, <2>1, <2>2, KeepsLocks, GoesTo
<1>5. CASE Done("lane") BY <1>1, <1>2, <1>3, <1>5, Ends
<1>6. QED BY <1>4, <1>5 DEF ClearCommit, locks
-----------------------------------------------------------------------------
(* The service thread starts something: it becomes d. *)
LEMMA ServiceStarts ==
  ASSUME IInv, NEW d \in ThreadType, th' = [th EXCEPT !["svc"] = d], Fits("svc", d),
         Owns("svc", d, motion', authority'), OthersKeep("svc"),
         UNCHANGED <<held, goals, stopped, hat, stopPc, released, resent>>, due' \in BOOLEAN,
         d.send \cap released = {}, ChaseFits(d, goals, resent)
  PROVE  IInv'
<1>1. Shrinks /\ Surroundings BY Emptied DEF IInv, TypeOK
<1>2. d.op # "torque" BY DEF Fits
<1>3. Becomes("svc", d) BY DEF Becomes
<1>4. Clean("svc", d, released) BY <1>2 DEF Clean
<1>5. QED BY <1>1, <1>3, <1>4, Preserved DEF Threads

(* The service loop starts a recovery. *)
LEMMA ServiceRecoversKeeps == ASSUME IInv, ServiceRecovers PROVE IInv'
<1> DEFINE d == [Idle EXCEPT !.op = "recover", !.pc = "recover"]
<1>1. d \in ThreadType /\ d.op = "recover" /\ d.pc = "recover" /\ d.send = {}
  BY IdleType DEF ThreadType
<1>2. th' = [th EXCEPT !["svc"] = d] BY DEF ServiceRecovers
<1> HIDE DEF d
<1>3. /\ motion = "none" /\ motion' = "svc" /\ UNCHANGED authority
      /\ UNCHANGED <<held, due, goals, stopped, hat, stopPc, released, resent>>
  BY DEF ServiceRecovers, intent, history
<1>4. Fits("svc", d) /\ Owns("svc", d, motion', authority') /\ OthersKeep("svc")
  BY <1>1, <1>3 DEF Fits, Owns, UnderMotion, UnderAuthority, OthersKeep, Threads, IInv, TypeOK
<1>5. ChaseFits(d, goals, resent) BY <1>1 DEF ChaseFits
<1>6. QED BY <1>1, <1>2, <1>3, <1>4, <1>5, ServiceStarts DEF IInv, TypeOK

(* The service loop starts a renewal. *)
LEMMA RenewKeeps == ASSUME IInv, Renew PROVE IInv'
<1> DEFINE d == [Idle EXCEPT !.op = "renew", !.pc = "renew"]
<1>1. d \in ThreadType /\ d.op = "renew" /\ d.pc = "renew" /\ d.send = {}
  BY IdleType DEF ThreadType
<1>2. th' = [th EXCEPT !["svc"] = d] BY DEF Renew
<1> HIDE DEF d
<1>3. UNCHANGED locks /\ UNCHANGED <<held, due, goals, stopped, hat, stopPc, released, resent>>
  BY DEF Renew, intent, history
<1>4. Fits("svc", d) /\ Owns("svc", d, motion', authority') /\ OthersKeep("svc")
  BY <1>1, <1>3, KeepsLocks DEF Fits, Owns, UnderMotion, UnderAuthority, Threads
<1>5. ChaseFits(d, goals, resent) BY <1>1 DEF ChaseFits
<1>6. QED BY <1>1, <1>2, <1>3, <1>4, <1>5, ServiceStarts DEF IInv, TypeOK

(* The renewal reads what is held, under authority_lock. *)
LEMMA RenewCheckKeeps == ASSUME IInv, RenewCheck PROVE IInv'
<1>1. /\ th["svc"] \in ThreadType /\ th \in [Threads -> ThreadType] /\ Fits("svc", th["svc"])
      /\ th["svc"].pc = "renew" /\ th["svc"].op = "renew" /\ "svc" \in Threads
  BY Facts DEF RenewCheck, At, Fits, Threads
<1>2. UNCHANGED <<held, goals, stopped, hat, stopPc, released, resent>> /\ authority = "none"
  BY DEF RenewCheck, history
<1>3. CASE Done("svc") /\ UNCHANGED due
  <2>1. Shrinks /\ Surroundings BY <1>2, <1>3, Emptied DEF IInv, TypeOK
  <2>2. QED BY <1>1, <1>2, <1>3, <2>1, Ends
<1>4. CASE /\ due' = FALSE /\ authority' = "svc" /\ UNCHANGED motion
           /\ th' = [th EXCEPT !["svc"].pc = "prepare", !["svc"].send = held]
  <2> DEFINE d == [th["svc"] EXCEPT !.pc = "prepare", !.send = held]
  <2>1. d \in ThreadType /\ d.op = "renew" /\ d.pc = "prepare" /\ d.send = held
    BY <1>1 DEF ThreadType, IInv, TypeOK
  <2>2. th' = [th EXCEPT !["svc"] = d] BY <1>1, <1>4
  <2> HIDE DEF d
  <2>3. Fits("svc", d) /\ Owns("svc", d, motion', authority') /\ OthersKeep("svc")
    BY <1>2, <1>4, <2>1
    DEF Fits, Owns, UnderMotion, UnderAuthority, OthersKeep, Threads, IInv, TypeOK
  <2>4. ChaseFits(d, goals, resent) BY <2>1 DEF ChaseFits
  <2>5. d.send \cap released = {} BY <2>1 DEF IInv, ReleasedUnheld
  <2>6. QED BY <1>2, <1>4, <2>1, <2>2, <2>3, <2>4, <2>5, ServiceStarts
<1>5. QED BY <1>3, <1>4 DEF RenewCheck

(* The service loop starts to chase the goals. *)
LEMMA ChaseKeeps == ASSUME IInv, Chase PROVE IInv'
<1>1. goals \in [Servos -> NoGoal..Attempts] /\ held \in SUBSET Servos
      /\ HasGoal \in SUBSET Servos
  BY DEF IInv, TypeOK, HasGoal
<1> DEFINE d == [Idle EXCEPT !.op = "chase", !.pc = "look", !.out = goals, !.prev = held,
                              !.todo = HasGoal]
<1>2. th' = [th EXCEPT !["svc"] = d] BY DEF Chase
<1>3. /\ d \in ThreadType /\ d.op = "chase" /\ d.pc = "look" /\ d.send = {} /\ d.want = {}
      /\ d.out = goals
  BY <1>1, IdleType DEF ThreadType
<1>4. d.todo \subseteq Servos BY <1>3 DEF ThreadType
<1> HIDE DEF d
<1>5. /\ motion = "none" /\ motion' = "svc" /\ UNCHANGED authority
      /\ UNCHANGED <<held, due, goals, stopped, hat, stopPc, released, resent>>
  BY DEF Chase, intent, history
<1>6. Fits("svc", d) /\ Owns("svc", d, motion', authority') /\ OthersKeep("svc")
  BY <1>3, <1>5 DEF Fits, Owns, UnderMotion, UnderAuthority, OthersKeep, Threads, IInv, TypeOK
<1>7. ChaseFits(d, goals, resent)
  BY <1>3, <1>4 DEF ChaseFits, IInv, Spent
<1>8. QED BY <1>2, <1>3, <1>5, <1>6, <1>7, ServiceStarts DEF IInv, TypeOK

(* What a step of a chase knows of itself. *)
LEMMA Chasing ==
  ASSUME IInv, At("svc", "look")
  PROVE  /\ th["svc"] \in ThreadType /\ th \in [Threads -> ThreadType] /\ Fits("svc", th["svc"])
         /\ Owns("svc", th["svc"], motion, authority) /\ Clean("svc", th["svc"], released)
         /\ th["svc"].pc = "look" /\ th["svc"].op = "chase" /\ "svc" \in Threads
         /\ ChaseFits(th["svc"], goals, resent) /\ motion = "svc"
<1>1. /\ th["svc"] \in ThreadType /\ th \in [Threads -> ThreadType] /\ Fits("svc", th["svc"])
      /\ Owns("svc", th["svc"], motion, authority) /\ Clean("svc", th["svc"], released)
      /\ "svc" \in Threads /\ ChaseFits(th["svc"], goals, resent)
  BY Facts DEF Threads, IInv
<1>2. th["svc"].pc = "look" /\ th["svc"].op = "chase" BY <1>1 DEF At, Fits
<1>3. QED BY <1>1, <1>2 DEF Owns, UnderMotion

(* A goal that is reached, or replaced meanwhile, is left alone. *)
LEMMA ChaseSkipsKeeps == ASSUME IInv, NEW s \in Servos, ChaseSkips(s) PROVE IInv'
<1>1. At("svc", "look") BY DEF ChaseSkips
<1>2. UNCHANGED locks /\ UNCHANGED <<held, due, goals, stopped, hat, stopPc, released, resent>>
  BY DEF ChaseSkips, intent, history
<1>3. PICK d \in ThreadType :
        /\ th' = [th EXCEPT !["svc"] = d] /\ d.pc = "look" /\ d.op = "chase"
        /\ d.want = th["svc"].want /\ d.send = th["svc"].send /\ d.out = th["svc"].out
        /\ d.todo \subseteq th["svc"].todo
  <2>1. CASE th' = [th EXCEPT !["svc"].todo = @ \ {s}, !["svc"].over = @ \cup {s}]
    <3> DEFINE d == [th["svc"] EXCEPT !.todo = @ \ {s}, !.over = @ \cup {s}]
    <3>1. th' = [th EXCEPT !["svc"] = d] BY <1>1, <2>1, Chasing
    <3>2. /\ d \in ThreadType /\ d.pc = "look" /\ d.op = "chase"
          /\ d.want = th["svc"].want /\ d.send = th["svc"].send /\ d.out = th["svc"].out
          /\ d.todo \subseteq th["svc"].todo
      BY <1>1, Chasing DEF ThreadType
    <3> HIDE DEF d
    <3>3. QED BY <3>1, <3>2
  <2>2. CASE Looked(s)
    <3> DEFINE d == [th["svc"] EXCEPT !.todo = @ \ {s}]
    <3>1. th' = [th EXCEPT !["svc"] = d] BY <1>1, <2>2, Chasing DEF Looked
    <3>2. /\ d \in ThreadType /\ d.pc = "look" /\ d.op = "chase"
          /\ d.want = th["svc"].want /\ d.send = th["svc"].send /\ d.out = th["svc"].out
          /\ d.todo \subseteq th["svc"].todo
      BY <1>1, Chasing DEF ThreadType
    <3> HIDE DEF d
    <3>3. QED BY <3>1, <3>2
  <2>3. QED BY <2>1, <2>2 DEF ChaseSkips
<1>4. Fits("svc", d) /\ Owns("svc", d, motion', authority') /\ OthersKeep("svc")
  BY <1>1, <1>2, <1>3, Chasing, KeepsLocks DEF Fits, Owns, UnderMotion, UnderAuthority, locks
<1>5. ChaseFits(d, goals, resent) BY <1>1, <1>3, Chasing DEF ChaseFits
<1>6. d.send \cap released = {} BY <1>1, <1>3, Chasing DEF Clean
<1>7. QED BY <1>2, <1>3, <1>4, <1>5, <1>6, ServiceStarts DEF IInv, TypeOK

(* A goal is resent: it has one resend less. *)
LEMMA ChaseResendsKeeps == ASSUME IInv, NEW s \in Servos, ChaseResends(s) PROVE IInv'
<1>1. At("svc", "look") BY DEF ChaseResends
<1>2. /\ UNCHANGED locks /\ UNCHANGED <<held, due, stopped, hat, stopPc, released, resent>>
      /\ s \in th["svc"].todo /\ th["svc"].out[s] > 0
      /\ goals' = [goals EXCEPT ![s] = th["svc"].out[s] - 1]
  BY DEF ChaseResends, history
<1>3. /\ th["svc"].out \in [Servos -> NoGoal..Attempts] /\ th["svc"].todo \in SUBSET Servos
      /\ goals \in [Servos -> NoGoal..Attempts] /\ resent \in [Servos -> Nat]
  BY <1>1, Chasing DEF ThreadType, IInv, TypeOK
<1> DEFINE d == [th["svc"] EXCEPT !.todo = @ \ {s}, !.want = {s}, !.pc = "check",
                                  !.retried = FALSE]
<1>4. th' = [th EXCEPT !["svc"] = d] BY <1>1, Chasing DEF ChaseResends
<1>5. /\ d \in ThreadType /\ d.pc = "check" /\ d.op = "chase" /\ d.want = {s}
      /\ d.send = th["svc"].send /\ d.out = th["svc"].out /\ d.todo = th["svc"].todo \ {s}
  BY <1>1, Chasing DEF ThreadType
<1> HIDE DEF d
<1>6. resent[s] + Budget(th["svc"].out[s]) <= Attempts
  BY <1>1, <1>2, Chasing DEF ChaseFits
<1>7. goals'[s] = th["svc"].out[s] - 1 /\ goals' \in [Servos -> NoGoal..Attempts]
  BY <1>2, <1>3, MotionAssumption DEF NoGoal
<1>8. resent[s] + 1 + Budget(goals'[s]) <= Attempts
  BY <1>2, <1>3, <1>6, <1>7, MotionAssumption DEF Budget, NoGoal
<1>9. ChaseFits(d, goals', resent')
  BY <1>1, <1>2, <1>5, <1>8, Chasing DEF ChaseFits
<1>10. Spent'
  <2>1. \A u \in Servos : u # s => goals'[u] = goals[u] BY <1>2, <1>3
  <2>2. \A u \in Servos : resent[u] + Budget(goals[u]) <= Attempts BY DEF IInv, Spent
  <2>3. resent[s] + Budget(goals'[s]) <= Attempts
    <3>1. Budget(goals'[s]) \in Nat BY <1>3, <1>7, MotionAssumption DEF Budget, NoGoal
    <3>2. QED BY <1>3, <1>8, <3>1, MotionAssumption
  <2>4. QED BY <1>2, <2>1, <2>2, <2>3 DEF Spent
<1>11. Fits("svc", d) /\ Owns("svc", d, motion', authority') /\ OthersKeep("svc")
  BY <1>1, <1>2, <1>5, Chasing, KeepsLocks DEF Fits, Owns, UnderMotion, UnderAuthority, locks
<1>12. Becomes("svc", d) BY <1>4, <1>5, <1>11 DEF Becomes
<1>13. Clean("svc", d, released') BY <1>1, <1>2, <1>5, Chasing DEF Clean
<1>14. \A u \in Threads : Clean(u, th[u], released') BY <1>2, Facts
<1>15. LaneFits(th["lane"], held', goals', hat'.held)
  <2>1. th["lane"].pc \notin {"clearReset", "clearCommit"}
    <3>1. Fits("lane", th["lane"]) BY Facts DEF Threads
    <3>2. th["lane"].op # "clear" BY <1>1, Facts, Chasing DEF Owns, UnderMotion, Threads
    <3>3. QED BY <3>1, <3>2, IdleType DEF Fits
  <2>2. QED BY <1>2, <2>1 DEF IInv, LaneFits
<1>16. Surroundings BY <1>2 DEF Surroundings, IInv, TypeOK
<1>17. /\ held' \in SUBSET Servos /\ Cardinality(held') <= MaxHeld
       /\ resent' \in [Servos -> Nat] /\ released' \in SUBSET Servos /\ ReleasedUnheld'
  BY <1>2 DEF IInv, TypeOK, ReleasedUnheld
<1>18. QED
  BY <1>1, <1>7, <1>9, <1>10, <1>12, <1>13, <1>14, <1>15, <1>16, <1>17, Chasing, Stepped

(* The chase is through its goals. *)
LEMMA ChaseEndsKeeps == ASSUME IInv, ChaseEnds PROVE IInv'
<1>1. At("svc", "look") BY DEF ChaseEnds
<1>2. UNCHANGED <<held, due, stopped, hat, stopPc, released>> /\ Done("svc") BY DEF ChaseEnds
<1>3. PICK gone \in SUBSET Servos :
        /\ goals' = [s \in Servos |-> IF s \in gone THEN NoGoal ELSE goals[s]]
        /\ resent' = [s \in Servos |-> IF s \in gone THEN 0 ELSE resent[s]]
  <2>1. th["svc"].over \in SUBSET Servos BY <1>1, Chasing DEF ThreadType
  <2>2. {s \in Servos : th["svc"].out[s] # NoGoal} \in SUBSET Servos OBVIOUS
  <2>3. QED BY <2>1, <2>2 DEF ChaseEnds
<1>4. goals \in [Servos -> NoGoal..Attempts] /\ resent \in [Servos -> Nat]
  BY DEF IInv, TypeOK
<1>5. goals' \in [Servos -> NoGoal..Attempts] /\ resent' \in [Servos -> Nat]
  BY <1>3, <1>4, MotionAssumption DEF NoGoal
<1>6. Spent'
  <2>1. \A s \in Servos : resent[s] + Budget(goals[s]) <= Attempts BY DEF IInv, Spent
  <2>2. \A s \in Servos : \/ (goals'[s] = NoGoal /\ resent'[s] = 0)
                         \/ (goals'[s] = goals[s] /\ resent'[s] = resent[s])
    BY <1>3
  <2>3. QED BY <1>4, <2>1, <2>2, MotionAssumption DEF Spent, Budget, NoGoal
<1>7. Becomes("svc", Idle)
  BY <1>1, <1>2, IdleType, Chasing
  DEF Becomes, Done, Fits, Owns, UnderMotion, UnderAuthority, OthersKeep, Without, IInv, TypeOK
<1>8. Clean("svc", Idle, released') BY IdleType DEF Clean
<1>9. \A u \in Threads : Clean(u, th[u], released') BY <1>2, Facts
<1>10. LaneFits(th["lane"], held', goals', hat'.held)
  <2>1. th["lane"].pc \notin {"clearReset", "clearCommit"}
    <3>1. Fits("lane", th["lane"]) BY Facts DEF Threads
    <3>2. th["lane"].op # "clear" BY <1>1, Facts, Chasing DEF Owns, UnderMotion, Threads
    <3>3. QED BY <3>1, <3>2, IdleType DEF Fits
  <2>2. QED BY <1>2, <2>1 DEF IInv, LaneFits
<1>11. ChaseFits(Idle, goals', resent') BY IdleType DEF ChaseFits
<1>12. Surroundings BY <1>2 DEF Surroundings, IInv, TypeOK
<1>13. /\ held' \in SUBSET Servos /\ Cardinality(held') <= MaxHeld
       /\ released' \in SUBSET Servos /\ ReleasedUnheld'
  BY <1>2 DEF IInv, TypeOK, ReleasedUnheld
<1>14. QED
  BY <1>1, <1>5, <1>6, <1>7, <1>8, <1>9, <1>10, <1>11, <1>12, <1>13, Chasing, Stepped

-----------------------------------------------------------------------------
(* No thread moves, except that it may learn of a STOP: what is held, meant *)
(* and taken stays or goes.                                                 *)
LEMMA StandsBeside ==
  ASSUME IInv, Shrinks, Surroundings, released' = released, UNCHANGED locks,
         th' = th \/ th' = [t \in Threads |-> [th[t] EXCEPT !.raced = th[t].pc \in Sampled]]
  PROVE  IInv'
<1>1. ASSUME NEW t \in Threads
      PROVE  /\ th'[t] \in ThreadType /\ Fits(t, th'[t]) /\ th'[t].pc = th[t].pc
             /\ th'[t].op = th[t].op /\ th'[t].send = th[t].send /\ th'[t].prev = th[t].prev
             /\ th'[t].want = th[t].want /\ th'[t].todo = th[t].todo /\ th'[t].out = th[t].out
  <2>1. th[t] \in ThreadType /\ Fits(t, th[t]) BY Facts
  <2>2. CASE th' = th BY <2>1, <2>2
  <2>3. CASE th' = [u \in Threads |-> [th[u] EXCEPT !.raced = th[u].pc \in Sampled]]
    <3> DEFINE r == th[t].pc \in Sampled
               d == [th[t] EXCEPT !.raced = r]
    <3>1. r \in BOOLEAN OBVIOUS
    <3>2. th'[t] = d BY <2>3
    <3>3. th[t].pc = "idle" => r = FALSE BY DEF Sampled
    <3> HIDE DEF r
    <3>4. /\ d \in ThreadType /\ d.pc = th[t].pc /\ d.op = th[t].op
          /\ d.send = th[t].send /\ d.prev = th[t].prev
          /\ d.want = th[t].want /\ d.todo = th[t].todo /\ d.out = th[t].out
      BY <2>1, <3>1 DEF ThreadType
    <3>5. th[t] = Idle => d = Idle
      <4>1. th[t] = Idle => th[t].pc = "idle" /\ th[t].raced = FALSE BY DEF Idle
      <4>2. QED BY <3>3, <4>1 DEF Idle
    <3> HIDE DEF d
    <3>6. Fits(t, d) BY <2>1, <3>4, <3>5 DEF Fits
    <3>7. QED BY <3>2, <3>4, <3>6
  <2>4. QED BY <2>2, <2>3
<1>2. th' \in [Threads -> ThreadType]
  <2>1. th \in [Threads -> ThreadType] BY DEF IInv, TypeOK
  <2>2. QED BY <1>1, <2>1
<1>3. Each'
  <2>1. ASSUME NEW t \in Threads
        PROVE  Fits(t, th'[t]) /\ Owns(t, th'[t], motion', authority') /\ Clean(t, th'[t], released')
    <3>1. Owns(t, th[t], motion, authority) /\ Clean(t, th[t], released) BY Facts
    <3>2. QED BY <1>1, <3>1 DEF Owns, UnderMotion, UnderAuthority, Clean, locks
  <2>2. QED BY <2>1 DEF Each
<1>4. LaneFits(th'["lane"], held', goals', hat'.held)
  <2>1. "lane" \in Threads BY DEF Threads
  <2>2. LaneFits(th["lane"], held', goals', hat'.held) BY ShrinksKeeps
  <2>3. QED BY <1>1, <2>1, <2>2 DEF LaneFits
<1>5. ChaseFits(th'["svc"], goals', resent')
  <2>1. "svc" \in Threads BY DEF Threads
  <2>2. ChaseFits(th["svc"], goals', resent') BY <2>1, Facts, ShrinksKeeps DEF IInv
  <2>3. QED BY <1>1, <2>1, <2>2 DEF ChaseFits
<1>6. TypeOK' BY <1>2, ShrinksKeeps DEF TypeOK, Surroundings, IInv, locks
<1>7. ReleasedUnheld' BY DEF ReleasedUnheld, IInv, Shrinks
<1>8. QED BY <1>3, <1>4, <1>5, <1>6, <1>7, ShrinksKeeps DEF IInv

(* STOP, a lapsed lease and a renewal that falls due. *)
LEMMA BesideKeeps ==
  ASSUME IInv,
         StopAsked \/ StopLatches \/ StopSent \/ StopUnknown \/ HatLapses \/ HoldFallsDue
           \/ UNCHANGED vars
  PROVE  IInv'
<1>1. UNCHANGED locks /\ released' = released /\ resent' = resent
  BY DEF StopAsked, StopLatches, StopSent, StopUnknown, HatLapses, HoldFallsDue, vars, history,
         locks
<1>2. /\ held' \in {held, {}} /\ goals' \in {goals, NoGoals} /\ due' \in BOOLEAN
      /\ stopped' \in BOOLEAN /\ stopPc' \in {"idle", "asked", "send", "unknown"}
  BY DEF StopAsked, StopLatches, StopSent, StopUnknown, HatLapses, HoldFallsDue, vars, intent,
         IInv, TypeOK
<1>3. hat' = hat \/ \E stops \in BOOLEAN : hat' = [held |-> {}, stopped |-> stops]
  BY DEF StopAsked, StopLatches, StopSent, StopUnknown, HatLapses, HoldFallsDue, vars, StopTaken
<1>4. hat'.held \subseteq hat.held /\ hat' \in [held : SUBSET Servos, stopped : BOOLEAN]
  <2>1. CASE hat' = hat BY <2>1 DEF IInv, TypeOK
  <2>2. ASSUME NEW stops \in BOOLEAN, hat' = [held |-> {}, stopped |-> stops]
        PROVE  hat'.held \subseteq hat.held /\ hat' \in [held : SUBSET Servos, stopped : BOOLEAN]
    BY <2>2
  <2>3. QED BY <1>3, <2>1, <2>2
<1>5. th' = th \/ th' = [t \in Threads |-> [th[t] EXCEPT !.raced = th[t].pc \in Sampled]]
  BY DEF StopAsked, StopLatches, StopSent, StopUnknown, HatLapses, HoldFallsDue, vars
<1>6. Shrinks /\ Surroundings BY <1>1, <1>2, <1>4, Emptied
<1>7. QED BY <1>1, <1>5, <1>6, StandsBeside

-----------------------------------------------------------------------------
(* Nothing is held, owed or released at the start. *)
LEMMA InitHolds == Init => IInv
<1> SUFFICES ASSUME Init PROVE IInv OBVIOUS
<1>1. th \in [Threads -> ThreadType] /\ \A t \in Threads : th[t] = Idle
  BY IdleType DEF Init
<1>2. /\ goals \in [Servos -> NoGoal..Attempts] /\ resent \in [Servos -> Nat]
      /\ hat \in [held : SUBSET Servos, stopped : BOOLEAN] /\ hat.held = {}
  BY MotionAssumption DEF Init, NoGoals, NoGoal
<1>3. TypeOK BY <1>1, <1>2, Empty DEF Init, TypeOK
<1>4. Each
  BY <1>1, IdleType DEF Init, Each, Fits, Owns, UnderMotion, UnderAuthority, Clean
<1>5. ReleasedUnheld BY DEF Init, ReleasedUnheld
<1>6. Spent BY MotionAssumption DEF Init, Spent, NoGoals, NoGoal, Budget
<1>7. th["lane"] = Idle /\ th["svc"] = Idle BY <1>1 DEF Threads
<1>8. LaneFits(th["lane"], held, goals, hat.held) BY <1>7, IdleType, Empty DEF LaneFits
<1>9. ChaseFits(th["svc"], goals, resent) BY <1>7, IdleType DEF ChaseFits
<1>10. QED BY <1>3, <1>4, <1>5, <1>6, <1>8, <1>9 DEF IInv

(* The steps both threads take. *)
LEMMA ThreadKeeps == ASSUME IInv, NEW t \in Threads, Step(t) PROVE IInv'
BY CheckKeeps, EnsureKeeps, PrepareKeeps, HoldKeeps, RestoreKeeps, MoveKeeps, RecordKeeps,
   RetakeKeeps, RetakeHoldKeeps, AbortKeeps, AbortSendKeeps, RecoverKeeps, ResetKeeps,
   VerdictKeeps, RestopKeeps
DEF Step

(* Every step of the arm keeps the invariant. *)
LEMMA StepKeeps == IInv /\ [Next]_vars => IInv'
<1> SUFFICES ASSUME IInv, [Next]_vars PROVE IInv' OBVIOUS
<1>1. CASE Targets \/ Torque \/ ClearStop
  BY <1>1, RequestKeeps DEF Targets, Torque, ClearStop
<1>2. CASE LaneStep
  BY <1>2, ThreadKeeps, LaneTakesAuthorityKeeps, TorqueSetKeeps, TorqueOffKeeps,
     TorqueForgetKeeps, ClearBeginKeeps, ClearResetKeeps, ClearCommitKeeps
  DEF LaneStep, Threads
<1>3. CASE ServiceStep
  BY <1>3, ThreadKeeps, RenewCheckKeeps, ChaseSkipsKeeps, ChaseResendsKeeps, ChaseEndsKeeps
  DEF ServiceStep, ChaseStep, Threads
<1>4. CASE ServiceRecovers \/ Renew \/ Chase
  BY <1>4, ServiceRecoversKeeps, RenewKeeps, ChaseKeeps
<1>5. CASE StopAsked \/ StopStep \/ HatLapses \/ HoldFallsDue \/ UNCHANGED vars
  BY <1>5, BesideKeeps DEF StopStep
<1>6. QED BY <1>1, <1>2, <1>3, <1>4, <1>5 DEF Next

(* The invariant holds in every state of the arm. *)
THEOREM MotionInductive == Spec => []IInv
<1>1. Init => IInv BY InitHolds
<1>2. IInv /\ [Next]_vars => IInv' BY StepKeeps
<1>3. QED BY <1>1, <1>2, PTL DEF Spec

(* A goal is resent no more often than the attempts allow. *)
LEMMA BoundedChase == IInv => ChaseIsBounded
<1> SUFFICES ASSUME IInv, NEW s \in Servos PROVE resent[s] <= Attempts BY DEF ChaseIsBounded
<1>1. resent[s] \in Nat /\ goals[s] \in NoGoal..Attempts BY DEF IInv, TypeOK
<1>2. Budget(goals[s]) \in Nat BY <1>1, MotionAssumption DEF Budget, NoGoal
<1>3. resent[s] + Budget(goals[s]) <= Attempts BY DEF IInv, Spent
<1>4. QED BY <1>1, <1>2, <1>3, MotionAssumption

(* A joint whose torque was released on request is held neither by the *)
(* intent nor by the controller until it is asked for again, whatever  *)
(* renewal, recovery or restore was under way, and no goal is resent   *)
(* without end.                                                        *)
THEOREM ReleasedIsFree == Spec => []ReleasedJointsStayFree
<1>1. IInv => ReleasedJointsStayFree
  BY BoundedChase DEF IInv, ReleasedUnheld, ReleasedStaysFree, ReleasedJointsStayFree
<1>2. QED BY <1>1, MotionInductive, PTL

(* Only a clear that commits releases the latch. *)
LEMMA OnlyClearReleases ==
  ASSUME IInv, [Next]_vars, stopped, ~stopped' PROVE ClearCommit
<1>1. ASSUME NEW t \in Threads, Step(t) PROVE stopped'
  BY <1>1 DEF Step, Check, Ensure, Prepare, Hold, Restore, Move, Record, Retake, RetakeHold,
              Abort, AbortSend, Recover, Reset, Verdict, Restop
<1>2. CASE Targets \/ Torque \/ ClearStop
  BY <1>2 DEF Targets, Torque, ClearStop, Request
<1>3. CASE LaneStep
  BY <1>1, <1>3 DEF LaneStep, Threads, LaneTakesAuthority, TorqueSet, TorqueOff, TorqueForget,
                    ClearBegin, ClearReset
<1>4. CASE ServiceStep \/ ServiceRecovers \/ Renew \/ Chase
  BY <1>1, <1>4 DEF ServiceStep, Threads, RenewCheck, ChaseStep, ChaseSkips, ChaseResends,
                    ChaseEnds, ServiceRecovers, Renew, Chase
<1>5. CASE StopAsked \/ StopStep \/ HatLapses \/ HoldFallsDue \/ UNCHANGED vars
  BY <1>5 DEF StopAsked, StopStep, StopLatches, StopSent, StopUnknown, HatLapses, HoldFallsDue,
              vars
<1>6. QED BY <1>2, <1>3, <1>4, <1>5 DEF Next

(* After the clear that releases the latch nothing is held, wanted or *)
(* chased.                                                            *)
LEMMA ReleaseIsFresh ==
  ASSUME IInv, [Next]_vars, stopped, ~stopped'
  PROVE  held' = {} /\ goals' = NoGoals /\ th'["svc"].op \notin {"chase", "recover"}
<1>1. ClearCommit BY OnlyClearReleases
<1>2. th["lane"].pc = "clearCommit" /\ UNCHANGED <<held, goals>> /\ Done("lane")
  BY <1>1 DEF ClearCommit, At, intent
<1>3. th["lane"].op = "clear" BY <1>2, Facts, IdleType DEF Fits, Threads
<1>4. th["svc"].op \notin {"chase", "recover"} BY <1>2, <1>3, ServiceWaits
<1>5. th'["svc"] = th["svc"] BY <1>2, Facts DEF Done, Threads
<1>6. held = {} /\ goals = NoGoals BY <1>2 DEF IInv, LaneFits
<1>7. QED BY <1>2, <1>4, <1>5, <1>6

(* Whoever clears a STOP starts from nothing: no hold, no goal, no chase *)
(* and no recovery of before (clear_stop).                               *)
THEOREM ClearIsFresh == Spec => ClearStartsFresh
<1>1. IInv /\ [Next]_vars
        => [stopped /\ ~stopped' => /\ held' = {} /\ goals' = NoGoals
                                   /\ th'["svc"].op \notin {"chase", "recover"}]_vars
  BY ReleaseIsFresh
<1>2. QED BY <1>1, MotionInductive, PTL DEF Spec, ClearStartsFresh

-----------------------------------------------------------------------------
(* Live Follow. *)

(* A thread at rest: no operation, no attempt, no end to bring about. *)
LEMMA LiveIdleType ==
  /\ F!Idle \in F!ThreadType /\ F!Idle.op = "idle" /\ F!Idle.pc = "idle"
  /\ F!Idle.attempt = F!NoOne /\ F!Idle.seq = 0 /\ F!Idle.age = 0
  /\ F!Idle.fin = [how |-> "none", lease |-> FALSE]
BY SessionAssumption DEF F!Idle, F!ThreadType, F!NoFinish, F!Ids

(* What the invariant says of one thread. *)
LEMMA LiveFacts ==
  ASSUME F!IInv, NEW t \in F!Threads
  PROVE  run \in [F!Threads -> F!ThreadType] /\ run[t] \in F!ThreadType /\ F!Stands(t)
BY DEF F!IInv, F!TypeOK

(* A thread goes on to its next place and changes nothing else of itself. *)
LEMMA LiveWent ==
  ASSUME F!IInv, NEW t \in F!Threads, NEW pc \in F!Places, F!Goto(t, pc)
  PROVE  /\ F!Moved(t) /\ run'[t] \in F!ThreadType /\ run'[t].pc = pc /\ run'[t].op = run[t].op
         /\ run'[t].attempt = run[t].attempt /\ run'[t].seq = run[t].seq
         /\ run'[t].age = run[t].age /\ run'[t].fin = run[t].fin
<1>1. run \in [F!Threads -> F!ThreadType] /\ run[t] \in F!ThreadType BY LiveFacts
<1>2. [run[t] EXCEPT !.pc = pc] \in F!ThreadType BY <1>1 DEF F!ThreadType, F!Places
<1> DEFINE c == [run[t] EXCEPT !.pc = pc]
<1>3. run' = [run EXCEPT ![t] = c] BY <1>1 DEF F!Goto
<1>4. /\ c \in F!ThreadType /\ c.pc = pc /\ c.op = run[t].op /\ c.attempt = run[t].attempt
      /\ c.seq = run[t].seq /\ c.age = run[t].age /\ c.fin = run[t].fin
  BY <1>1, <1>2 DEF F!ThreadType
<1> HIDE DEF c
<1>5. QED BY <1>1, <1>3, <1>4 DEF F!Moved

(* A thread turns to ending its session, for the reason it gives. *)
LEMMA LiveFinished ==
  ASSUME F!IInv, NEW t \in F!Threads, NEW how \in {"ended", "flushed", "expired", "faulted"},
         NEW lease \in BOOLEAN, F!Finish(t, how, lease)
  PROVE  /\ F!Moved(t) /\ run'[t] \in F!ThreadType
         /\ run'[t].pc = IF how = "flushed" THEN "commitEnd" ELSE "finish"
         /\ run'[t].op = run[t].op /\ run'[t].attempt = run[t].attempt
         /\ run'[t].fin = [how |-> how, lease |-> lease]
         /\ run'[t].fin.how = how /\ run'[t].fin.lease = lease
<1>1. run \in [F!Threads -> F!ThreadType] /\ run[t] \in F!ThreadType BY LiveFacts
<1> DEFINE age == IF lease THEN run[t].age ELSE 0
           seq == IF run[t].op = "frame" THEN run[t].seq ELSE 0
           pc == IF how = "flushed" THEN "commitEnd" ELSE "finish"
           fin == [how |-> how, lease |-> lease]
           d == [run[t] EXCEPT !.pc = pc, !.fin = fin, !.age = age, !.seq = seq]
<1>2. run' = [run EXCEPT ![t] = d] BY <1>1 DEF F!Finish
<1>3. /\ age \in 0..MaxWait /\ seq \in 0..MaxSeq /\ pc \in F!Places
      /\ fin \in [how : {"none", "ended", "flushed", "expired", "faulted"}, lease : BOOLEAN]
  BY <1>1, SessionAssumption DEF F!ThreadType, F!Places
<1> HIDE DEF age, seq, pc, fin
<1>4. /\ d \in F!ThreadType /\ d.pc = pc
      /\ d.op = run[t].op /\ d.attempt = run[t].attempt /\ d.fin = fin
  <2> DEFINE e == [run[t] EXCEPT !.pc = pc, !.fin = fin]
             g == [e EXCEPT !.age = age]
  <2>1. e \in F!ThreadType BY <1>1, <1>3, ZenonT(40) DEF F!ThreadType, F!Places
  <2>2. g \in F!ThreadType BY <2>1, <1>3, SessionAssumption DEF F!ThreadType
  <2>3. [g EXCEPT !.seq = seq] \in F!ThreadType BY <2>2, <1>3, SessionAssumption DEF F!ThreadType
  <2>4. d = [g EXCEPT !.seq = seq] BY <1>1 DEF F!ThreadType
  <2>5. /\ d.pc = pc /\ d.op = run[t].op /\ d.attempt = run[t].attempt /\ d.fin = fin
    BY <1>1 DEF F!ThreadType
  <2>6. QED BY <2>3, <2>4, <2>5
<1> HIDE DEF d
<1>5. QED BY <1>1, <1>2, <1>4 DEF F!Moved, pc, fin

(* A thread whose end was refused goes back to what it was doing. *)
LEMMA LiveAgainGoes ==
  ASSUME F!IInv, NEW t \in F!Threads, NEW pc \in F!Places, F!Again(t, pc)
  PROVE  /\ F!Moved(t) /\ run'[t] \in F!ThreadType /\ run'[t].pc = pc
         /\ run'[t].op = run[t].op /\ run'[t].attempt = run[t].attempt
         /\ run'[t].fin = [how |-> "none", lease |-> FALSE]
<1>1. run \in [F!Threads -> F!ThreadType] /\ run[t] \in F!ThreadType BY LiveFacts
<1> DEFINE age == IF pc = "due" THEN 0 ELSE run[t].age
           d == [run[t] EXCEPT !.pc = pc, !.fin = F!NoFinish, !.age = age]
<1>2. run' = [run EXCEPT ![t] = d] BY <1>1 DEF F!Again
<1>3. /\ age \in 0..MaxWait
      /\ F!NoFinish \in [how : {"none", "ended", "flushed", "expired", "faulted"}, lease : BOOLEAN]
  BY <1>1, SessionAssumption DEF F!ThreadType, F!NoFinish
<1> HIDE DEF age
<1>4. /\ d \in F!ThreadType /\ d.pc = pc
      /\ d.op = run[t].op /\ d.attempt = run[t].attempt /\ d.fin = F!NoFinish
  <2> DEFINE e == [run[t] EXCEPT !.pc = pc, !.fin = F!NoFinish]
  <2>1. e \in F!ThreadType BY <1>1, <1>3, ZenonT(40) DEF F!ThreadType, F!Places
  <2>2. [e EXCEPT !.age = age] \in F!ThreadType
    BY <2>1, <1>3, SessionAssumption DEF F!ThreadType
  <2>3. d = [e EXCEPT !.age = age] BY <1>1 DEF F!ThreadType
  <2>4. /\ d.pc = pc /\ d.op = run[t].op /\ d.attempt = run[t].attempt /\ d.fin = F!NoFinish
    BY <1>1 DEF F!ThreadType
  <2>5. QED BY <2>2, <2>3, <2>4
<1> HIDE DEF d
<1>5. QED BY <1>1, <1>2, <1>4 DEF F!Moved, F!NoFinish

(* A thread that is done lets go of its locks and rests. *)
LEMMA LiveRests ==
  ASSUME F!IInv, NEW t \in F!Threads, F!Done(t)
  PROVE  F!Moved(t) /\ F!Lets(t) /\ run'[t] = F!Idle /\ run'[t] \in F!ThreadType
<1>1. run \in [F!Threads -> F!ThreadType] BY LiveFacts
<1>2. motionLock \in F!Threads \cup {F!NoOne} /\ authorityLock \in F!Threads \cup {F!NoOne}
  BY DEF F!IInv, F!TypeOK
<1>3. QED BY <1>1, <1>2, LiveIdleType DEF F!Done, F!Moved, F!Lets, F!Without

(* Nothing but a thread and its locks changes. *)
LEMMA LiveQuietKeeps ==
  ASSUME F!IInv, NEW t \in F!Threads, F!Moved(t), F!Lets(t), UNCHANGED F!rest, F!Stands(t)',
         F!Owed /\ F!Carries(t) => F!Carries(t)'
  PROVE  F!IInv'
<1>1. /\ session' = session /\ last' = last /\ attempts' = attempts /\ wanted' = wanted
      /\ latch' = latch /\ arm' = arm /\ stopper' = stopper /\ freed' = freed
      /\ commits' = commits /\ cancelled' = cancelled
  BY DEF F!rest, F!history
<1>2. ASSUME NEW u \in F!Threads, u # t PROVE F!Stands(u)' /\ (F!Carries(u) => F!Carries(u)')
  <2>1. run'[u] = run[u] BY <1>2 DEF F!Moved
  <2>2. F!Stands(u) BY LiveFacts
  <2>3. F!Runs(u)'
    BY <1>1, <1>2, <2>1, <2>2 DEF F!Stands, F!Runs, F!Lets, F!Threads, F!NoOne
  <2>4. F!Carried(u)' BY <1>1, <2>1, <2>2 DEF F!Stands, F!Carried
  <2>5. F!Ending(u)' BY <1>1, <2>1, <2>2 DEF F!Stands, F!Ending
  <2>6. F!Begun(u)' BY <1>1, <2>1, <2>2 DEF F!Stands, F!Begun
  <2>7. F!Carries(u) => F!Carries(u)'
    BY <1>1, <1>2, <2>1 DEF F!Carries, F!Lets, F!Threads, F!NoOne
  <2>8. QED BY <2>3, <2>4, <2>5, <2>6, <2>7 DEF F!Stands
<1>3. \A u \in F!Threads : F!Stands(u)' BY <1>2
<1>4. F!Shared'
  BY <1>1 DEF F!IInv, F!Shared, F!Ledger, F!Freed, F!Frames, F!StopEndsSession,
     F!FlushedIsSent
<1>5. F!Flushed' BY <1>1, <1>2 DEF F!IInv, F!Flushed, F!Owed
<1>6. F!TypeOK' BY <1>1 DEF F!IInv, F!TypeOK, F!Moved, F!Lets
<1>7. QED BY <1>3, <1>4, <1>5, <1>6 DEF F!IInv


(* Each lock is owned by a thread or by no one. *)
LEMMA LiveLockTypes ==
  ASSUME F!IInv
  PROVE  motionLock \in F!Threads \cup {F!NoOne} /\ authorityLock \in F!Threads \cup {F!NoOne}
BY DEF F!IInv, F!TypeOK

(* A thread that has nothing left to carry is done. *)
LEMMA LiveRestKeeps ==
  ASSUME F!IInv, NEW t \in F!Threads, F!Done(t), UNCHANGED F!rest, ~(F!Owed /\ F!Carries(t))
  PROVE  F!IInv'
<1>1. F!Moved(t) /\ F!Lets(t) /\ run'[t] = F!Idle BY LiveRests
<1>2. F!Stands(t)'
  BY <1>1, LiveIdleType DEF F!Stands, F!Runs, F!Fits, F!UnderMotion, F!UnderAuthority,
     F!Knows, F!Carried, F!Ending, F!Begun, F!Starting, F!Dispatching, F!Finishing,
     F!Carrying, F!Threads
<1>3. QED BY <1>1, <1>2, LiveQuietKeeps

(* A step to a plain place, of a thread that owes no frame, breaks nothing. *)
LEMMA LivePlainKeeps ==
  ASSUME F!IInv, NEW t \in F!Threads, F!Moved(t), UNCHANGED F!rest, F!Lets(t),
         F!Runs(t)', run'[t].pc \in F!Plain, ~(F!Owed /\ F!Carries(t))
  PROVE  F!IInv'
<1>1. F!Carried(t)' /\ F!Ending(t)' /\ F!Begun(t)'
  BY DEF F!Carried, F!Ending, F!Begun, F!Plain, F!Starting, F!Carrying, F!Finishing
<1>2. QED BY <1>1, LiveQuietKeeps DEF F!Stands

(* A dispatch is over; an end goes on to conclude. *)
LEMMA LiveLeavesGoes ==
  ASSUME F!IInv, NEW t \in F!Threads, F!Leaves(t), run[t].pc \in F!Dispatching
  PROVE  /\ F!Moved(t) /\ F!Lets(t) /\ run'[t].pc \in {"idle", "conclude"}
         /\ commits' = commits => F!Runs(t)'
<1>1. run \in [F!Threads -> F!ThreadType] /\ run[t] \in F!ThreadType /\ F!Stands(t)
  BY LiveFacts
<1>2. CASE F!Done(t)
  <2>1. F!Moved(t) /\ F!Lets(t) /\ run'[t] = F!Idle BY <1>2, LiveRests
  <2>2. F!Runs(t)'
    BY <2>1, LiveIdleType DEF F!Runs, F!Fits, F!UnderMotion, F!UnderAuthority, F!Knows,
       F!Starting, F!Dispatching, F!Finishing, F!Carrying, F!Threads
  <2>3. QED BY <2>1, <2>2, LiveIdleType
<1>3. CASE /\ run[t].op = "end" /\ UNCHANGED F!locks
           /\ run' = [run EXCEPT ![t].pc = "conclude", ![t].seq = 0, ![t].age = 0]
  <2> DEFINE d == [run[t] EXCEPT !.pc = "conclude", !.seq = 0, !.age = 0]
  <2>1. run' = [run EXCEPT ![t] = d] BY <1>1, <1>3
  <2>2. 0 \in 0..MaxSeq /\ 0 \in 0..MaxWait BY SessionAssumption
  <2>3. /\ d \in F!ThreadType /\ d.pc = "conclude" /\ d.op = "end"
        /\ d.attempt = run[t].attempt /\ d.fin = run[t].fin
    BY <1>1, <1>3, <2>2 DEF F!ThreadType
  <2> HIDE DEF d
  <2>4. F!Moved(t) /\ run'[t] = d BY <1>1, <2>1, <2>3 DEF F!Moved
  <2>5. F!Lets(t) BY <1>3, LiveLockTypes DEF F!Lets, F!locks
  <2>6. commits' = commits => F!Runs(t)'
    BY <1>1, <1>3, <2>3, <2>4 DEF F!Stands, F!Runs, F!Fits, F!UnderMotion, F!UnderAuthority,
       F!Knows, F!Starting, F!Dispatching, F!Finishing, F!Carrying, F!locks
  <2>7. QED BY <2>3, <2>4, <2>5, <2>6
<1>4. QED BY <1>2, <1>3 DEF F!Leaves

(* A dispatch that owes no frame may be left. *)
LEMMA LiveLeavesKeeps ==
  ASSUME F!IInv, NEW t \in F!Threads, F!Leaves(t), run[t].pc \in F!Dispatching,
         UNCHANGED F!rest,
         ~(F!Owed /\ F!Carries(t))
  PROVE  F!IInv'
<1>1. F!Moved(t) /\ F!Lets(t) /\ run'[t].pc \in {"idle", "conclude"} /\ F!Runs(t)'
  BY LiveLeavesGoes DEF F!rest, F!history
<1>2. run'[t].pc \in F!Plain
  BY <1>1 DEF F!Plain, F!Places, F!Starting, F!Carrying, F!Finishing
<1>3. QED BY <1>1, <1>2, LivePlainKeeps

(* A thread is to end the session it is about. *)
LEMMA LiveFinishKeeps ==
  ASSUME F!IInv, NEW t \in F!Threads,
         NEW how \in {"ended", "flushed", "expired", "faulted"}, NEW lease \in BOOLEAN,
         F!Finish(t, how, lease), UNCHANGED F!rest, F!Lets(t),
         run[t].op \in {"frame", "hb", "cancel", "follow", "end"}, run[t].op = "end"
              => motionLock' = t,
         commits[run[t].attempt] = 1, run[t].op = "cancel" => how # "expired",
         lease => how = "expired", how = "flushed" => run[t].op = "end",
         how = "expired" /\ ~lease => session.overlong,
         how = "flushed" => session.pending = 0,
         F!Owed /\ F!Carries(t) => how = "faulted" /\ motionLock' = t
  PROVE  F!IInv'
<1>1. /\ F!Moved(t) /\ run'[t].pc = IF how = "flushed" THEN "commitEnd" ELSE "finish"
      /\ run'[t].op = run[t].op /\ run'[t].attempt = run[t].attempt
      /\ run'[t].fin.how = how /\ run'[t].fin.lease = lease
  BY LiveFinished
<1>2. run[t] \in F!ThreadType /\ F!Stands(t) BY LiveFacts
<1>3. F!Runs(t)'
  BY <1>1, <1>2 DEF F!Stands, F!Runs, F!Fits, F!UnderMotion, F!UnderAuthority, F!Knows,
     F!Starting, F!Dispatching, F!Finishing, F!Carrying, F!rest, F!history
<1>4. F!Carried(t)' /\ F!Ending(t)' /\ F!Begun(t)'
  BY <1>1 DEF F!Carried, F!Ending, F!Begun, F!Starting, F!Carrying, F!rest
<1>5. F!Owed /\ F!Carries(t) => F!Carries(t)' BY <1>1 DEF F!Carries, F!Owed, F!rest
<1>6. QED BY <1>1, <1>3, <1>4, <1>5, LiveQuietKeeps DEF F!Stands

-----------------------------------------------------------------------------
(* An operation begins. *)
LEMMA LiveBeginsKeeps ==
  ASSUME F!IInv, NEW t \in F!Threads, NEW c \in F!ThreadType, run[t].pc = "idle",
         run' = [run EXCEPT ![t] = c], UNCHANGED F!rest, F!Lets(t), F!Fits(t, c),
         c.pc \in F!Plain,
         F!UnderMotion(c) => motionLock' = t, F!UnderAuthority(c) => authorityLock' = t,
         F!Knows(c) => commits[c.attempt] = 1
  PROVE  F!IInv'
<1>1. F!Moved(t) /\ run'[t] = c BY LiveFacts DEF F!Moved
<1>2. F!Runs(t)'
  BY <1>1 DEF F!Runs, F!Fits, F!UnderMotion, F!UnderAuthority, F!Knows, F!rest, F!history
<1>3. ~F!Carries(t) BY DEF F!Carries, F!Carrying
<1>4. QED BY <1>1, <1>2, <1>3, LivePlainKeeps

(* The requests: a thread takes an operation up at its first place. *)
LEMMA LiveStartKeeps == ASSUME F!IInv, NEW a \in Starts, F!Start(a) PROVE F!IInv'
<1> DEFINE c == [F!Idle EXCEPT !.op = "start", !.pc = "motion", !.attempt = a]
<1>1. c \in F!ThreadType /\ c.op = "start" /\ c.pc = "motion" /\ c.attempt = a
      /\ c.fin = F!Idle.fin
  BY LiveIdleType DEF F!ThreadType, F!Ids
<1>2. /\ run["lane"].pc = "idle" /\ run' = [run EXCEPT !["lane"] = c] /\ UNCHANGED F!rest
      /\ UNCHANGED F!locks
  BY DEF F!Start, F!At, F!rest, F!history
<1> HIDE DEF c
<1>3. F!Lets("lane") BY <1>2, LiveLockTypes DEF F!Lets, F!locks
<1>4. F!Fits("lane", c) /\ c.pc \in F!Plain /\ ~F!UnderMotion(c) /\ ~F!UnderAuthority(c)
      /\ ~F!Knows(c)
  BY <1>1, LiveIdleType DEF F!Fits, F!UnderMotion, F!UnderAuthority, F!Knows, F!Plain,
     F!Places, F!Starting, F!Carrying, F!Finishing
<1>5. QED BY <1>1, <1>2, <1>3, <1>4, LiveBeginsKeeps DEF F!Threads

LEMMA LiveCancelKeeps == ASSUME F!IInv, NEW a \in Starts, F!Cancel(a) PROVE F!IInv'
<1> DEFINE c == [F!Idle EXCEPT !.op = "cancel", !.pc = "look", !.attempt = a]
<1>1. c \in F!ThreadType /\ c.op = "cancel" /\ c.pc = "look" /\ c.attempt = a
      /\ c.fin = F!Idle.fin
  BY LiveIdleType DEF F!ThreadType, F!Ids
<1>2. /\ run["cancel"].pc = "idle" /\ run' = [run EXCEPT !["cancel"] = c] /\ UNCHANGED F!rest
      /\ UNCHANGED F!locks
  BY DEF F!Cancel, F!At, F!rest, F!history
<1> HIDE DEF c
<1>3. F!Lets("cancel") BY <1>2, LiveLockTypes DEF F!Lets, F!locks
<1>4. F!Fits("cancel", c) /\ c.pc \in F!Plain /\ ~F!UnderMotion(c) /\ ~F!UnderAuthority(c)
      /\ ~F!Knows(c)
  BY <1>1, LiveIdleType DEF F!Fits, F!UnderMotion, F!UnderAuthority, F!Knows, F!Plain,
     F!Places, F!Starting, F!Carrying, F!Finishing
<1>5. QED BY <1>1, <1>2, <1>3, <1>4, LiveBeginsKeeps DEF F!Threads

LEMMA LiveKnownIsInstalled ==
  ASSUME F!IInv, NEW a \in F!Known PROVE a \in Starts /\ commits[a] = 1
BY DEF F!Known, F!IInv, F!TypeOK, F!Shared, F!Ledger

LEMMA LiveEndKeeps ==
  ASSUME F!IInv, NEW a \in F!Known, NEW flush \in BOOLEAN, F!End(a, flush) PROVE F!IInv'
<1> DEFINE c == [F!Idle EXCEPT !.op = "end", !.pc = "motion", !.attempt = a, !.flush = flush]
<1>0. a \in Starts /\ commits[a] = 1 BY LiveKnownIsInstalled
<1>1. c \in F!ThreadType /\ c.op = "end" /\ c.pc = "motion" /\ c.attempt = a
      /\ c.fin = F!Idle.fin
  BY <1>0, LiveIdleType, ZenonT(40) DEF F!ThreadType, F!Ids
<1>2. /\ run["lane"].pc = "idle" /\ run' = [run EXCEPT !["lane"] = c] /\ UNCHANGED F!rest
      /\ UNCHANGED F!locks
  BY DEF F!End, F!At, F!rest, F!history
<1> HIDE DEF c
<1>3. F!Lets("lane") BY <1>2, LiveLockTypes DEF F!Lets, F!locks
<1>4. F!Fits("lane", c) /\ c.pc \in F!Plain /\ ~F!UnderMotion(c) /\ ~F!UnderAuthority(c)
  BY <1>0, <1>1, LiveIdleType DEF F!Fits, F!UnderMotion, F!UnderAuthority, F!Plain,
     F!Places, F!Starting, F!Carrying, F!Finishing
<1>5. QED BY <1>0, <1>1, <1>2, <1>3, <1>4, LiveBeginsKeeps DEF F!Threads

LEMMA LiveAskKeeps ==
  ASSUME F!IInv, NEW a \in F!Known, NEW s \in 0..MaxSeq, NEW t \in F!Threads,
         NEW op \in {"frame", "hb"}, op = "frame" => t = "lane", op = "hb" => t = "hb",
         F!Ask(t, op, a, s)
  PROVE  F!IInv'
<1> DEFINE c == [F!Idle EXCEPT !.op = op, !.pc = op, !.attempt = a, !.seq = s]
<1>0. a \in Starts /\ commits[a] = 1 BY LiveKnownIsInstalled
<1>1. c \in F!ThreadType /\ c.op = op /\ c.pc = op /\ c.attempt = a /\ c.fin = F!Idle.fin
  BY <1>0, LiveIdleType DEF F!ThreadType, F!Ids
<1>2. /\ run[t].pc = "idle" /\ run' = [run EXCEPT ![t] = c] /\ UNCHANGED F!rest
      /\ UNCHANGED F!locks
  BY DEF F!Ask, F!At, F!rest, F!history
<1> HIDE DEF c
<1>3. F!Lets(t) BY <1>2, LiveLockTypes DEF F!Lets, F!locks
<1>4. F!Fits(t, c) /\ c.pc \in F!Plain /\ ~F!UnderMotion(c) /\ ~F!UnderAuthority(c)
  BY <1>0, <1>1, LiveIdleType DEF F!Fits, F!UnderMotion, F!UnderAuthority, F!Plain,
     F!Places, F!Starting, F!Carrying, F!Finishing
<1>5. QED BY <1>0, <1>1, <1>2, <1>3, <1>4, LiveBeginsKeeps DEF F!Threads

LEMMA LiveClearStopKeeps == ASSUME F!IInv, F!ClearStop PROVE F!IInv'
<1> DEFINE c == [F!Idle EXCEPT !.op = "clear", !.pc = "motion"]
<1>1. c \in F!ThreadType /\ c.op = "clear" /\ c.pc = "motion" /\ c.fin = F!Idle.fin
  BY LiveIdleType DEF F!ThreadType
<1>2. /\ run["lane"].pc = "idle" /\ run' = [run EXCEPT !["lane"] = c] /\ UNCHANGED F!rest
      /\ UNCHANGED F!locks
  BY DEF F!ClearStop, F!At, F!rest, F!history
<1> HIDE DEF c
<1>3. F!Lets("lane") BY <1>2, LiveLockTypes DEF F!Lets, F!locks
<1>4. F!Fits("lane", c) /\ c.pc \in F!Plain /\ ~F!UnderMotion(c) /\ ~F!UnderAuthority(c)
      /\ ~F!Knows(c)
  BY <1>1, LiveIdleType DEF F!Fits, F!UnderMotion, F!UnderAuthority, F!Knows, F!Plain,
     F!Places, F!Starting, F!Carrying, F!Finishing
<1>5. QED BY <1>1, <1>2, <1>3, <1>4, LiveBeginsKeeps DEF F!Threads

(* The service thread takes up a session, a recovery or a renewal. *)
LEMMA LiveFollowKeeps == ASSUME F!IInv, F!Follow PROVE F!IInv'
<1> DEFINE a == session.attempt
           c == [F!Idle EXCEPT !.op = "follow", !.pc = "tick", !.attempt = a]
<1>0. a \in Starts /\ commits[a] = 1
  BY DEF F!Follow, F!IInv, F!TypeOK, F!SessionType, F!Ids, F!Shared, F!Ledger
<1>1. c \in F!ThreadType /\ c.op = "follow" /\ c.pc = "tick" /\ c.attempt = a
      /\ c.fin = F!Idle.fin
  BY <1>0, LiveIdleType DEF F!ThreadType, F!Ids
<1>2. /\ run["svc"].pc = "idle" /\ run' = [run EXCEPT !["svc"] = c] /\ UNCHANGED F!rest
      /\ UNCHANGED F!locks
  BY DEF F!Follow, F!At, F!rest, F!history
<1> HIDE DEF c
<1>3. F!Lets("svc") BY <1>2, LiveLockTypes DEF F!Lets, F!locks
<1>4. F!Fits("svc", c) /\ c.pc \in F!Plain /\ ~F!UnderMotion(c) /\ ~F!UnderAuthority(c)
  BY <1>0, <1>1, LiveIdleType DEF F!Fits, F!UnderMotion, F!UnderAuthority, F!Plain,
     F!Places, F!Starting, F!Carrying, F!Finishing, F!Dispatching
<1>5. QED BY <1>0, <1>1, <1>2, <1>3, <1>4, LiveBeginsKeeps DEF F!Threads

LEMMA LiveServiceLooksKeeps == ASSUME F!IInv, F!ServiceLooks PROVE F!IInv'
<1> DEFINE c == [F!Idle EXCEPT !.op = "recover", !.pc = "recover"]
<1>1. c \in F!ThreadType /\ c.op = "recover" /\ c.pc = "recover" /\ c.fin = F!Idle.fin
  BY LiveIdleType DEF F!ThreadType
<1>2. /\ run["svc"].pc = "idle" /\ run' = [run EXCEPT !["svc"] = c] /\ UNCHANGED F!rest
      /\ UNCHANGED F!locks
  BY DEF F!ServiceLooks, F!Service, F!At, F!rest, F!history
<1> HIDE DEF c
<1>3. F!Lets("svc") BY <1>2, LiveLockTypes DEF F!Lets, F!locks
<1>4. F!Fits("svc", c) /\ c.pc \in F!Plain /\ ~F!UnderMotion(c) /\ ~F!UnderAuthority(c)
      /\ ~F!Knows(c)
  BY <1>1, LiveIdleType DEF F!Fits, F!UnderMotion, F!UnderAuthority, F!Knows, F!Plain,
     F!Places, F!Starting, F!Carrying, F!Finishing
<1>5. QED BY <1>1, <1>2, <1>3, <1>4, LiveBeginsKeeps DEF F!Threads

LEMMA LiveRenewKeeps == ASSUME F!IInv, F!Renew PROVE F!IInv'
<1> DEFINE c == [F!Idle EXCEPT !.op = "renew", !.pc = "renew"]
<1>1. c \in F!ThreadType /\ c.op = "renew" /\ c.pc = "renew" /\ c.fin = F!Idle.fin
  BY LiveIdleType DEF F!ThreadType
<1>2. /\ run["svc"].pc = "idle" /\ run' = [run EXCEPT !["svc"] = c] /\ UNCHANGED F!rest
      /\ motionLock' = motionLock /\ authorityLock = F!NoOne /\ authorityLock' = "svc" /\ wanted
  BY DEF F!Renew, F!Service, F!At, F!rest, F!history
<1> HIDE DEF c
<1>3. F!Lets("svc") BY <1>2, LiveLockTypes DEF F!Lets, F!Threads
<1>4. F!Moved("svc") /\ run'["svc"] = c BY <1>1, <1>2, LiveFacts DEF F!Moved, F!Threads
<1>5. F!Fits("svc", c) /\ ~F!UnderMotion(c) /\ ~F!Knows(c)
  BY <1>1, LiveIdleType DEF F!Fits, F!UnderMotion, F!Knows, F!Starting, F!Carrying,
     F!Finishing
<1>6. F!Runs("svc")' BY <1>2, <1>4, <1>5 DEF F!Runs
<1>7. F!Carried("svc")' /\ F!Ending("svc")'
  BY <1>1, <1>4 DEF F!Carried, F!Ending, F!Carrying
<1>8. F!Begun("svc")'
  <2>1. ~freed BY <1>2 DEF F!IInv, F!Shared, F!Freed
  <2>2. QED BY <1>1, <1>2, <1>4, <2>1 DEF F!Begun, F!Starting, F!rest, F!history
<1>9. ~F!Carries("svc") BY <1>2 DEF F!Carries, F!Carrying
<1>10. QED BY <1>2, <1>3, <1>4, <1>6, <1>7, <1>8, <1>9, LiveQuietKeeps DEF F!Stands,
     F!Threads

-----------------------------------------------------------------------------
(* The lane takes its locks. *)
LEMMA LiveLaneTakesMotionKeeps == ASSUME F!IInv, F!LaneTakesMotion PROVE F!IInv'
<1> DEFINE pc == IF run["lane"].op = "end" THEN "end" ELSE "authority"
<1>1. /\ run["lane"].pc = "motion" /\ motionLock = F!NoOne /\ motionLock' = "lane"
      /\ authorityLock' = authorityLock
      /\ UNCHANGED F!rest /\ F!Goto("lane", pc)
  BY DEF F!LaneTakesMotion, F!At, F!rest, F!history
<1>2. pc \in {"end", "authority"} /\ (pc = "end" <=> run["lane"].op = "end") OBVIOUS
<1> HIDE DEF pc
<1>3. /\ F!Moved("lane") /\ run'["lane"].pc = pc /\ run'["lane"].op = run["lane"].op
      /\ run'["lane"].attempt = run["lane"].attempt /\ run'["lane"].fin = run["lane"].fin
  BY <1>1, <1>2, LiveWent DEF F!Places, F!Threads
<1>4. F!Stands("lane") BY LiveFacts DEF F!Threads
<1>5. F!Runs("lane")'
  BY <1>1, <1>2, <1>3, <1>4 DEF F!Stands, F!Runs, F!Fits, F!UnderMotion, F!UnderAuthority,
     F!Knows, F!Starting, F!Dispatching, F!Finishing, F!Carrying, F!rest, F!history
<1>6. F!Lets("lane") BY <1>1, LiveLockTypes DEF F!Lets, F!Threads
<1>7. run'["lane"].pc \in F!Plain
  BY <1>2, <1>3 DEF F!Plain, F!Places, F!Starting, F!Carrying, F!Finishing
<1>8. ~F!Carries("lane") BY <1>1 DEF F!Carries, F!Carrying
<1>9. QED BY <1>1, <1>3, <1>5, <1>6, <1>7, <1>8, LivePlainKeeps DEF F!Threads

LEMMA LiveLaneTakesAuthorityKeeps == ASSUME F!IInv, F!LaneTakesAuthority PROVE F!IInv'
<1> DEFINE pc == IF run["lane"].op = "clear" THEN "clear" ELSE "register"
<1>1. /\ run["lane"].pc = "authority" /\ authorityLock = F!NoOne /\ authorityLock' = "lane"
      /\ motionLock' = motionLock /\ UNCHANGED F!rest /\ F!Goto("lane", pc)
  BY DEF F!LaneTakesAuthority, F!At, F!rest, F!history
<1>2. pc \in {"clear", "register"} /\ (pc = "clear" <=> run["lane"].op = "clear") OBVIOUS
<1> HIDE DEF pc
<1>3. /\ F!Moved("lane") /\ run'["lane"].pc = pc /\ run'["lane"].op = run["lane"].op
      /\ run'["lane"].attempt = run["lane"].attempt /\ run'["lane"].fin = run["lane"].fin
  BY <1>1, <1>2, LiveWent DEF F!Places, F!Threads
<1>4. F!Stands("lane") BY LiveFacts DEF F!Threads
<1>5. F!Runs("lane")'
  BY <1>1, <1>2, <1>3, <1>4 DEF F!Stands, F!Runs, F!Fits, F!UnderMotion, F!UnderAuthority,
     F!Knows, F!Starting, F!Dispatching, F!Finishing, F!Carrying, F!rest, F!history
<1>6. F!Lets("lane") BY <1>1, LiveLockTypes DEF F!Lets, F!Threads
<1>7. run'["lane"].pc \in F!Plain
  BY <1>2, <1>3 DEF F!Plain, F!Places, F!Starting, F!Carrying, F!Finishing
<1>8. ~F!Carries("lane") BY <1>1 DEF F!Carries, F!Carrying
<1>9. QED BY <1>1, <1>3, <1>5, <1>6, <1>7, <1>8, LivePlainKeeps DEF F!Threads

(* Whoever ends a session waits for the motion lock. *)
LEMMA LiveFinishTakesMotionKeeps ==
  ASSUME F!IInv, NEW t \in F!Threads, F!FinishTakesMotion(t) PROVE F!IInv'
<1>1. /\ run[t].pc = "finish" /\ F!Goto(t, "commitEnd") /\ motionLock \in {F!NoOne, t}
      /\ motionLock' = t
      /\ authorityLock' = authorityLock /\ UNCHANGED F!rest
  BY DEF F!FinishTakesMotion, F!At, F!Free, F!rest, F!history
<1>2. /\ F!Moved(t) /\ run'[t].pc = "commitEnd" /\ run'[t].op = run[t].op
      /\ run'[t].attempt = run[t].attempt /\ run'[t].fin = run[t].fin
  BY <1>1, LiveWent DEF F!Places
<1>3. run[t] \in F!ThreadType /\ F!Stands(t) BY LiveFacts
<1>4. F!Runs(t)'
  BY <1>1, <1>2, <1>3 DEF F!Stands, F!Runs, F!Fits, F!UnderMotion, F!UnderAuthority,
     F!Knows, F!Starting, F!Dispatching, F!Finishing, F!Carrying, F!rest, F!history,
     F!Threads
<1>5. F!Carried(t)' /\ F!Ending(t)' /\ F!Begun(t)'
  BY <1>1, <1>2, <1>3 DEF F!Stands, F!Runs, F!Fits, F!Carried, F!Ending, F!Begun,
     F!Starting, F!Carrying, F!rest, F!history
<1>6. F!Lets(t) BY <1>1, LiveLockTypes DEF F!Lets, F!Threads
<1>7. F!Carries(t) => F!Carries(t)' BY <1>1, <1>2 DEF F!Carries, F!Carrying, F!rest
<1>8. QED BY <1>1, <1>2, <1>4, <1>5, <1>6, <1>7, LiveQuietKeeps DEF F!Stands

(* A frame or a heartbeat that came too late, or to no session. *)
LEMMA LiveInputTooLateKeeps ==
  ASSUME F!IInv, NEW t \in F!Threads, F!InputTooLate(t) PROVE F!IInv'
<1>1. /\ run[t].op \in {"frame", "hb"} /\ run[t].pc = run[t].op /\ F!Finish(t, "expired", TRUE)
      /\ UNCHANGED F!rest /\ UNCHANGED F!locks
  BY DEF F!InputTooLate, F!At, F!rest, F!history
<1>2. F!Lets(t) BY <1>1, LiveLockTypes DEF F!Lets, F!locks
<1>3. commits[run[t].attempt] = 1 BY <1>1, LiveFacts DEF F!Stands, F!Runs, F!Knows
<1>4. ~F!Carries(t) BY <1>1 DEF F!Carries, F!Carrying
<1>5. QED BY <1>1, <1>2, <1>3, <1>4, LiveFinishKeeps

LEMMA LiveInputForNoSessionKeeps ==
  ASSUME F!IInv, NEW t \in F!Threads, F!InputForNoSession(t) PROVE F!IInv'
<1>1. /\ run[t].op \in {"frame", "hb"} /\ run[t].pc = run[t].op /\ F!Done(t) /\ UNCHANGED F!rest
  BY DEF F!InputForNoSession, F!At, F!rest, F!history
<1>2. ~F!Carries(t) BY <1>1 DEF F!Carries, F!Carrying
<1>3. QED BY <1>1, <1>2, LiveRestKeeps

(* What a dispatch is: of the lane's end, under the motion lock, or of the *)
(* service thread.                                                         *)
LEMMA LiveDispatch ==
  ASSUME F!IInv, NEW t \in F!Threads, run[t].pc \in F!Dispatching
  PROVE  /\ run[t] \in F!ThreadType /\ F!Stands(t)
         /\ run[t].op \in {"end", "follow"} /\ run[t].attempt \in Starts
         /\ commits[run[t].attempt] = 1 /\ t \in {"lane", "svc"}
         /\ run[t].op = "end" => motionLock = t
<1>1. run[t] \in F!ThreadType /\ F!Stands(t) BY LiveFacts
<1>2. F!Fits(t, run[t]) BY <1>1 DEF F!Stands, F!Runs
<1>3. run[t].op \in {"end", "follow"} /\ t \in {"lane", "svc"}
  BY <1>1, <1>2 DEF F!Fits, F!Dispatching, F!Starting, F!Finishing, F!ThreadType, F!Threads
<1>4. QED
  BY <1>1, <1>2, <1>3 DEF F!Stands, F!Runs, F!Fits, F!Knows, F!UnderMotion, F!Dispatching

(* A dispatch goes on from place to place before it takes a frame. *)
LEMMA LiveTickKeeps == ASSUME F!IInv, NEW t \in F!Threads, F!Tick(t) PROVE F!IInv'
<1>1. run[t].pc = "tick" /\ UNCHANGED F!rest BY DEF F!Tick, F!At, F!rest, F!history
<1>2. run[t].pc \in F!Dispatching /\ ~F!Carries(t)
  BY <1>1 DEF F!Dispatching, F!Carries, F!Carrying
<1>3. CASE F!Leaves(t) BY <1>1, <1>2, <1>3, LiveLeavesKeeps
<1>4. CASE UNCHANGED F!locks /\ session.overlong /\ F!Finish(t, "expired", FALSE)
  <2>1. F!Lets(t) BY <1>4, LiveLockTypes DEF F!Lets, F!locks
  <2>2. QED BY <1>1, <1>2, <1>4, <2>1, LiveDispatch, LiveFinishKeeps DEF F!locks
<1>5. CASE UNCHANGED F!locks /\ F!Finish(t, "expired", TRUE)
  <2>1. F!Lets(t) BY <1>5, LiveLockTypes DEF F!Lets, F!locks
  <2>2. QED BY <1>1, <1>2, <1>5, <2>1, LiveDispatch, LiveFinishKeeps DEF F!locks
<1>6. CASE UNCHANGED F!locks /\ F!Again(t, "due")
  <2>1. F!Lets(t) BY <1>6, LiveLockTypes DEF F!Lets, F!locks
  <2>2. /\ F!Moved(t) /\ run'[t].pc = "due" /\ run'[t].op = run[t].op
        /\ run'[t].attempt = run[t].attempt /\ run'[t].fin = [how |-> "none", lease |-> FALSE]
    BY <1>6, LiveAgainGoes DEF F!Places
  <2>3. F!Runs(t)'
    BY <1>1, <1>2, <1>6, <2>2, LiveDispatch DEF F!Stands, F!Runs, F!Fits, F!UnderMotion,
       F!UnderAuthority, F!Knows, F!Starting, F!Dispatching, F!Finishing, F!Carrying,
       F!rest, F!history, F!locks
  <2>4. run'[t].pc \in F!Plain
    BY <2>2 DEF F!Plain, F!Places, F!Starting, F!Carrying, F!Finishing
  <2>5. QED BY <1>1, <1>2, <2>1, <2>2, <2>3, <2>4, LivePlainKeeps
<1>7. QED BY <1>3, <1>4, <1>5, <1>6 DEF F!Tick

(* A dispatch goes on, to a place without a frame in its hands. *)
LEMMA LiveDispatchGoes ==
  ASSUME F!IInv, NEW t \in F!Threads, NEW pc \in {"due", "quiet", "read", "readback", "pop"},
         F!Goto(t, pc), UNCHANGED F!rest, F!Lets(t), run[t].pc \in F!Dispatching \ F!Carrying,
         run[t].op = "end" \/ pc = "readback" => motionLock' = t
  PROVE  F!IInv'
<1>1. /\ run[t] \in F!ThreadType /\ F!Stands(t) /\ run[t].op \in {"end", "follow"}
      /\ t \in {"lane", "svc"}
  BY LiveDispatch
<1>2. /\ F!Moved(t) /\ run'[t].pc = pc /\ run'[t].op = run[t].op
      /\ run'[t].attempt = run[t].attempt /\ run'[t].fin = run[t].fin
  BY LiveWent DEF F!Places
<1>3. F!Runs(t)'
  BY <1>1, <1>2 DEF F!Stands, F!Runs, F!Fits, F!UnderMotion, F!UnderAuthority, F!Knows,
     F!Starting, F!Dispatching, F!Finishing, F!Carrying, F!rest, F!history
<1>4. run'[t].pc \in F!Plain
  BY <1>2 DEF F!Plain, F!Places, F!Starting, F!Carrying, F!Finishing
<1>5. ~F!Carries(t) BY DEF F!Carries, F!Dispatching
<1>6. QED BY <1>2, <1>3, <1>4, <1>5, LivePlainKeeps

LEMMA LiveDueKeeps == ASSUME F!IInv, NEW t \in F!Threads, F!Due(t) PROVE F!IInv'
<1>1. run[t].pc = "due" /\ UNCHANGED F!rest BY DEF F!Due, F!At, F!rest, F!history
<1>2. run[t].pc \in F!Dispatching \ F!Carrying /\ ~F!Carries(t)
  BY <1>1 DEF F!Dispatching, F!Carries, F!Carrying
<1>3. CASE F!Leaves(t) BY <1>1, <1>2, <1>3, LiveLeavesKeeps
<1>4. ASSUME NEW pc \in {"pop", "quiet"}, UNCHANGED F!locks, F!Goto(t, pc) PROVE F!IInv'
  <2>1. F!Lets(t) BY <1>4, LiveLockTypes DEF F!Lets, F!locks
  <2>2. QED BY <1>1, <1>2, <1>4, <2>1, LiveDispatch, LiveDispatchGoes DEF F!locks
<1>5. QED BY <1>3, <1>4 DEF F!Due

LEMMA LiveQuietLooksKeeps == ASSUME F!IInv, NEW t \in F!Threads, F!Quiet(t) PROVE F!IInv'
<1>1. run[t].pc = "quiet" /\ UNCHANGED F!rest BY DEF F!Quiet, F!At, F!rest, F!history
<1>2. run[t].pc \in F!Dispatching \ F!Carrying /\ ~F!Carries(t)
  BY <1>1 DEF F!Dispatching, F!Carries, F!Carrying
<1>3. CASE F!Leaves(t) BY <1>1, <1>2, <1>3, LiveLeavesKeeps
<1>4. CASE UNCHANGED F!locks /\ F!Goto(t, "read")
  <2>1. F!Lets(t) BY <1>4, LiveLockTypes DEF F!Lets, F!locks
  <2>2. QED BY <1>1, <1>2, <1>4, <2>1, LiveDispatch, LiveDispatchGoes DEF F!locks
<1>5. CASE UNCHANGED F!locks /\ F!Finish(t, "faulted", FALSE)
  <2>1. F!Lets(t) BY <1>5, LiveLockTypes DEF F!Lets, F!locks
  <2>2. QED BY <1>1, <1>2, <1>5, <2>1, LiveDispatch, LiveFinishKeeps DEF F!locks
<1>6. QED BY <1>3, <1>4, <1>5 DEF F!Quiet

LEMMA LiveReadBeginsKeeps == ASSUME F!IInv, NEW t \in F!Threads, F!ReadBegins(t) PROVE F!IInv'
<1>1. run[t].pc = "read" /\ UNCHANGED F!rest /\ motionLock \in {F!NoOne, t}
  BY DEF F!ReadBegins, F!At, F!Free, F!rest, F!history
<1>2. run[t].pc \in F!Dispatching \ F!Carrying /\ ~F!Carries(t)
  BY <1>1 DEF F!Dispatching, F!Carries, F!Carrying
<1>3. CASE F!Leaves(t) BY <1>1, <1>2, <1>3, LiveLeavesKeeps
<1>4. CASE motionLock' = t /\ UNCHANGED authorityLock /\ F!Goto(t, "readback")
  <2>1. F!Lets(t) BY <1>1, <1>4, LiveLockTypes DEF F!Lets
  <2>2. QED BY <1>1, <1>2, <1>4, <2>1, LiveDispatch, LiveDispatchGoes
<1>5. QED BY <1>3, <1>4 DEF F!ReadBegins

(* A thread that carries a frame owns the motion lock: no other carries one. *)
LEMMA LiveAlone ==
  ASSUME F!IInv, NEW t \in F!Threads, run[t].pc \in F!Carrying
  PROVE  motionLock = t
BY LiveDispatch DEF F!Stands, F!Runs, F!UnderMotion, F!Dispatching, F!Carrying

LEMMA LiveVetKeeps == ASSUME F!IInv, NEW t \in F!Threads, F!Vet(t) PROVE F!IInv'
<1>1. run[t].pc = "vet" /\ UNCHANGED F!rest /\ UNCHANGED F!locks
  BY DEF F!Vet, F!At, F!rest, F!history
<1>2. run[t].pc \in F!Dispatching BY <1>1 DEF F!Dispatching
<1>3. F!Lets(t) BY <1>1, LiveLockTypes DEF F!Lets, F!locks
<1>4. motionLock = t /\ motionLock' = motionLock BY <1>1, LiveAlone DEF F!Carrying, F!locks
<1>5. CASE F!Goto(t, "send")
  <2>1. /\ F!Moved(t) /\ run'[t].pc = "send" /\ run'[t].op = run[t].op
        /\ run'[t].seq = run[t].seq
        /\ run'[t].attempt = run[t].attempt /\ run'[t].fin = run[t].fin
    BY <1>5, LiveWent DEF F!Places
  <2>2. F!Runs(t)'
    BY <1>1, <1>2, <1>4, <2>1, LiveDispatch DEF F!Stands, F!Runs, F!Fits, F!UnderMotion,
       F!UnderAuthority, F!Knows, F!Starting, F!Dispatching, F!Finishing, F!Carrying,
       F!rest, F!history
  <2>3. F!Carried(t)' /\ F!Ending(t)' /\ F!Begun(t)'
    BY <1>1, <1>2, <2>1, LiveDispatch DEF F!Stands, F!Carried, F!Ending, F!Begun,
       F!Starting, F!Carrying, F!rest, F!history
  <2>4. F!Carries(t) => F!Carries(t)' BY <1>1, <1>4, <2>1 DEF F!Carries, F!Carrying, F!rest
  <2>5. QED BY <1>1, <1>3, <2>1, <2>2, <2>3, <2>4, LiveQuietKeeps DEF F!Stands
<1>6. CASE F!Finish(t, "faulted", FALSE)
  BY <1>1, <1>2, <1>3, <1>4, <1>6, LiveDispatch, LiveFinishKeeps
<1>7. QED BY <1>5, <1>6 DEF F!Vet

(* The lane is at an end it was asked for, or that has nothing to send. *)
LEMMA LiveEndsKeeps == ASSUME F!IInv, F!Ends PROVE F!IInv'
<1>1. run["lane"].pc = "end" /\ UNCHANGED F!rest BY DEF F!Ends, F!At, F!rest, F!history
<1>2. /\ run["lane"] \in F!ThreadType /\ run \in [F!Threads -> F!ThreadType] /\ F!Stands("lane")
      /\ "lane" \in F!Threads
  BY LiveFacts DEF F!Threads
<1>3. run["lane"].op = "end" /\ motionLock = "lane" /\ commits[run["lane"].attempt] = 1
  BY <1>1, <1>2 DEF F!Stands, F!Runs, F!Fits, F!UnderMotion, F!Knows, F!ThreadType,
     F!Dispatching, F!Finishing, F!Starting
<1>4. ~F!Carries("lane") BY <1>1 DEF F!Carries, F!Carrying
<1>5. CASE F!Done("lane") BY <1>1, <1>2, <1>4, <1>5, LiveRestKeeps
<1>6. CASE UNCHANGED F!locks /\ F!Finish("lane", "ended", FALSE)
  <2>1. F!Lets("lane") BY <1>6, LiveLockTypes DEF F!Lets, F!locks
  <2>2. QED BY <1>1, <1>2, <1>3, <1>4, <1>6, <2>1, LiveFinishKeeps DEF F!locks
<1>7. CASE /\ UNCHANGED F!locks
           /\ run' = [run EXCEPT !["lane"].age = 0,
                       !["lane"].pc = IF session.pending # 0 THEN "tick" ELSE "conclude"]
  <2> DEFINE pc == IF session.pending # 0 THEN "tick" ELSE "conclude"
             d == [run["lane"] EXCEPT !.age = 0, !.pc = pc]
  <2>1. run' = [run EXCEPT !["lane"] = d] BY <1>2, <1>7
  <2>2. pc \in {"tick", "conclude"} /\ 0 \in 0..MaxWait BY SessionAssumption
  <2> HIDE DEF pc
  <2>3. /\ d \in F!ThreadType /\ d.pc = pc /\ d.op = "end"
        /\ d.attempt = run["lane"].attempt /\ d.fin = run["lane"].fin
    BY <1>2, <1>3, <2>2 DEF F!ThreadType
  <2> HIDE DEF d
  <2>4. F!Moved("lane") /\ run'["lane"] = d BY <1>2, <2>1, <2>3 DEF F!Moved
  <2>5. F!Lets("lane") BY <1>7, LiveLockTypes DEF F!Lets, F!locks
  <2>6. F!Runs("lane")'
    BY <1>1, <1>2, <1>3, <1>7, <2>2, <2>3, <2>4 DEF F!Stands, F!Runs, F!Fits, F!UnderMotion,
       F!UnderAuthority, F!Knows, F!Starting, F!Dispatching, F!Finishing, F!Carrying,
       F!rest, F!history, F!locks
  <2>7. run'["lane"].pc \in F!Plain
    BY <2>2, <2>3, <2>4 DEF F!Plain, F!Places, F!Starting, F!Carrying, F!Finishing
  <2>8. QED BY <1>1, <1>2, <1>4, <2>4, <2>5, <2>6, <2>7, LivePlainKeeps
<1>8. QED BY <1>5, <1>6, <1>7 DEF F!Ends

LEMMA LiveConcludeKeeps == ASSUME F!IInv, F!Conclude PROVE F!IInv'
<1>1. run["lane"].pc = "conclude" /\ UNCHANGED F!rest
  BY DEF F!Conclude, F!At, F!rest, F!history
<1>2. run["lane"] \in F!ThreadType /\ F!Stands("lane") /\ "lane" \in F!Threads
  BY LiveFacts DEF F!Threads
<1>3. run["lane"].op = "end" /\ motionLock = "lane" /\ commits[run["lane"].attempt] = 1
  BY <1>1, <1>2 DEF F!Stands, F!Runs, F!Fits, F!UnderMotion, F!Knows, F!ThreadType,
     F!Dispatching, F!Finishing, F!Starting
<1>4. ~F!Carries("lane") BY <1>1 DEF F!Carries, F!Carrying
<1>5. CASE F!Done("lane") BY <1>1, <1>2, <1>4, <1>5, LiveRestKeeps
<1>6. CASE /\ UNCHANGED F!locks
           /\ F!Finish("lane", IF session.pending # 0 THEN "faulted" ELSE "flushed", FALSE)
  <2> DEFINE how == IF session.pending # 0 THEN "faulted" ELSE "flushed"
  <2>1. how \in {"faulted", "flushed"} /\ (how = "flushed" => session.pending = 0) OBVIOUS
  <2>2. F!Finish("lane", how, FALSE) BY <1>6
  <2> HIDE DEF how
  <2>3. F!Lets("lane") BY <1>6, LiveLockTypes DEF F!Lets, F!locks
  <2>4. QED BY <1>1, <1>2, <1>3, <1>4, <1>6, <2>1, <2>2, <2>3, LiveFinishKeeps DEF F!locks
<1>7. QED BY <1>5, <1>6 DEF F!Conclude

(* STOP, the ledger and the latch may refuse a start under its locks. *)
LEMMA LiveStartCheckKeeps == ASSUME F!IInv, F!StartCheck PROVE F!IInv'
<1>1. run["lane"].pc = "check" /\ UNCHANGED F!rest /\ UNCHANGED F!locks
  BY DEF F!StartCheck, F!At, F!rest, F!history
<1>2. /\ run["lane"] \in F!ThreadType /\ run \in [F!Threads -> F!ThreadType] /\ F!Stands("lane")
      /\ "lane" \in F!Threads
  BY LiveFacts DEF F!Threads
<1>3. PICK pc \in {"commit", "abort"} :
        /\ F!Moved("lane") /\ run'["lane"].pc = pc /\ run'["lane"].op = run["lane"].op
        /\ run'["lane"].attempt = run["lane"].attempt /\ run'["lane"].fin = run["lane"].fin
  <2>1. CASE F!Goto("lane", "commit") BY <1>2, <2>1, LiveWent DEF F!Places
  <2>2. CASE F!Fails
    <3> DEFINE d == [run["lane"] EXCEPT !.pc = "abort", !.raced = FALSE]
    <3>1. run' = [run EXCEPT !["lane"] = d] BY <1>2, <2>2 DEF F!Fails
    <3>2. /\ d \in F!ThreadType /\ d.pc = "abort" /\ d.op = run["lane"].op
          /\ d.attempt = run["lane"].attempt /\ d.fin = run["lane"].fin
      BY <1>2 DEF F!ThreadType
    <3> HIDE DEF d
    <3>3. QED BY <1>2, <3>1, <3>2 DEF F!Moved
  <2>3. QED BY <2>1, <2>2 DEF F!StartCheck
<1>4. F!Runs("lane")'
  BY <1>1, <1>2, <1>3 DEF F!Stands, F!Runs, F!Fits, F!UnderMotion, F!UnderAuthority,
     F!Knows, F!Starting, F!Dispatching, F!Finishing, F!Carrying, F!rest, F!history, F!locks
<1>5. F!Carried("lane")' /\ F!Ending("lane")' /\ F!Begun("lane")'
  BY <1>1, <1>2, <1>3 DEF F!Stands, F!Carried, F!Ending, F!Begun, F!Starting, F!Carrying,
     F!rest, F!history
<1>6. F!Lets("lane") BY <1>1, LiveLockTypes DEF F!Lets, F!locks
<1>7. ~F!Carries("lane") BY <1>1 DEF F!Carries, F!Carrying
<1>8. QED BY <1>1, <1>2, <1>3, <1>4, <1>5, <1>6, <1>7, LiveQuietKeeps DEF F!Stands

-----------------------------------------------------------------------------
(* A thread that moves leaves the others at their places, with their locks. *)
LEMMA LiveOthersRun ==
  ASSUME F!IInv, NEW t \in F!Threads, F!Moved(t), F!Lets(t),
         \A a \in Starts : commits[a] = 1 => commits'[a] = 1, NEW u \in F!Threads, u # t
  PROVE  F!Runs(u)' /\ run'[u] = run[u] /\ F!Stands(u) /\ run[u] \in F!ThreadType
<1>1. run'[u] = run[u] /\ F!Stands(u) /\ run[u] \in F!ThreadType BY LiveFacts DEF F!Moved
<1>2. F!Runs(u) BY <1>1 DEF F!Stands
<1>3. F!Knows(run[u]) => run[u].attempt \in Starts
  BY <1>1, <1>2 DEF F!Runs, F!Fits, F!Knows
<1>4. F!UnderMotion(run[u]) => motionLock' = u
  BY <1>2 DEF F!Runs, F!Lets, F!Threads, F!NoOne
<1>5. F!UnderAuthority(run[u]) => authorityLock' = u
  BY <1>2 DEF F!Runs, F!Lets, F!Threads, F!NoOne
<1>6. QED BY <1>1, <1>2, <1>3, <1>4, <1>5 DEF F!Runs

(* A thread moves and changes what the threads share. *)
LEMMA LiveChangeKeeps ==
  ASSUME F!IInv, NEW t \in F!Threads, F!Moved(t), F!Lets(t), F!Surroundings,
         \A a \in Starts : commits[a] = 1 => commits'[a] = 1,
         F!Runs(t)', F!Eased(t)', \A u \in F!Threads : u # t => F!Eased(u)',
         F!Shared', F!Flushed'
  PROVE  F!IInv'
<1>1. \A u \in F!Threads : F!Stands(u)' BY LiveOthersRun DEF F!Stands, F!Eased
<1>2. F!TypeOK' BY DEF F!TypeOK, F!Surroundings, F!Moved, F!Lets
<1>3. QED BY <1>1, <1>2 DEF F!IInv

(* No session, and what there is of one. *)
LEMMA LiveNoSessionType ==
  /\ F!NoSession \in F!SessionType /\ F!NoSession.attempt = F!NoOne /\ F!NoSession.pending = 0
  /\ F!NoSession.accepted = 0 /\ F!NoSession.sent = 0 /\ F!NoSession.commanded = 0
<1>1. 0 \in 0..MaxSeq /\ 0 \in 0..(Lease + MaxWait) /\ 0 \in 0..Tolerance
  BY SessionAssumption
<1>2. QED BY <1>1 DEF F!NoSession, F!SessionType, F!Ids

(* What the invariant says of the session. *)
LEMMA LiveSessionFacts ==
  ASSUME F!IInv
  PROVE  /\ session \in F!SessionType /\ session.attempt \in F!Ids
         /\ session.pending \in 0..MaxSeq /\ session.accepted \in 0..MaxSeq
         /\ session.sent \in 0..MaxSeq /\ session.commanded \in 0..MaxSeq
         /\ session.idle \in 0..(Lease + MaxWait) /\ session.misses \in 0..Tolerance
         /\ session.overlong \in BOOLEAN
         /\ session.attempt = F!NoOne => session = F!NoSession
         /\ session = F!NoSession => session.attempt = F!NoOne
BY LiveNoSessionType DEF F!IInv, F!TypeOK, F!SessionType, F!Shared, F!Ledger

(* The thread that is about to end a session has its locks. *)
LEMMA LiveAtCommitEnd ==
  ASSUME F!IInv, NEW t \in F!Threads, run[t].pc = "commitEnd"
  PROVE  /\ run[t] \in F!ThreadType /\ F!Stands(t) /\ run[t].attempt \in Starts
         /\ motionLock = t
         /\ run[t].op \in {"frame", "hb", "cancel", "follow", "end"}
         /\ commits[run[t].attempt] = 1
         /\ run[t].fin.lease => run[t].fin.how = "expired"
         /\ run[t].op = "cancel" => run[t].fin.how # "expired"
         /\ run[t].fin.how = "flushed" => run[t].op = "end"
<1>1. run[t] \in F!ThreadType /\ F!Stands(t) BY LiveFacts
<1>2. F!Fits(t, run[t]) BY <1>1 DEF F!Stands, F!Runs
<1>3. run[t].op \in {"frame", "hb", "cancel", "follow", "end"}
  BY <1>1, <1>2 DEF F!Fits, F!Dispatching, F!Starting, F!Finishing, F!ThreadType, F!Threads
<1>4. QED
  BY <1>1, <1>2, <1>3 DEF F!Stands, F!Runs, F!Fits, F!Knows, F!UnderMotion, F!Finishing

(* Nothing was ended: a cancellation has its answer, others look again. *)
LEMMA LiveNotFinishedKeeps ==
  ASSUME F!IInv, NEW t \in F!Threads, run[t].pc = "commitEnd", F!NotFinished(t),
         UNCHANGED F!rest,
         ~F!Active(run[t].attempt) \/ run[t].fin.lease
  PROVE  F!IInv'
<1>1. /\ run[t] \in F!ThreadType /\ F!Stands(t) /\ run[t].attempt \in Starts /\ motionLock = t
      /\ commits[run[t].attempt] = 1 /\ run[t].attempt # F!NoOne
  BY LiveAtCommitEnd, SessionAssumption
<1>2. run[t].fin.lease => run[t].fin.how = "expired" BY LiveAtCommitEnd
<1>3. ~F!Carries(t) BY <1>1, <1>2 DEF F!Carries, F!Active, F!Carrying
<1>4. ASSUME NEW pc \in {"frame", "hb", "due", "confirm"}, F!Again(t, pc)
      PROVE  /\ F!Moved(t) /\ run'[t].pc = pc /\ run'[t].op = run[t].op
             /\ run'[t].attempt = run[t].attempt
             /\ run'[t].fin = [how |-> "none", lease |-> FALSE]
  BY <1>4, LiveAgainGoes DEF F!Places
<1>5. CASE run[t].op \in {"frame", "hb"} /\ F!Again(t, run[t].op)
           /\ motionLock' = F!Without(motionLock, t)
           /\ authorityLock' = F!Without(authorityLock, t)
  <2>1. F!Lets(t) BY <1>5, LiveLockTypes DEF F!Lets, F!Without
  <2>2. F!Runs(t)'
    BY <1>1, <1>4, <1>5 DEF F!Stands, F!Runs, F!Fits, F!UnderMotion, F!UnderAuthority,
       F!Knows, F!Starting, F!Dispatching, F!Finishing, F!Carrying, F!rest, F!history
  <2>3. run'[t].pc \in F!Plain
    BY <1>4, <1>5 DEF F!Plain, F!Places, F!Starting, F!Carrying, F!Finishing
  <2>4. QED BY <1>3, <1>4, <1>5, <2>1, <2>2, <2>3, LivePlainKeeps
<1>6. CASE run[t].op = "follow" /\ F!Again(t, "due")
           /\ motionLock' = F!Without(motionLock, t)
           /\ authorityLock' = F!Without(authorityLock, t)
  <2>1. F!Lets(t) BY <1>6, LiveLockTypes DEF F!Lets, F!Without
  <2>2. F!Runs(t)'
    BY <1>1, <1>4, <1>6 DEF F!Stands, F!Runs, F!Fits, F!UnderMotion, F!UnderAuthority,
       F!Knows, F!Starting, F!Dispatching, F!Finishing, F!Carrying, F!rest, F!history
  <2>3. run'[t].pc \in F!Plain
    BY <1>4, <1>6 DEF F!Plain, F!Places, F!Starting, F!Carrying, F!Finishing
  <2>4. QED BY <1>3, <1>4, <1>6, <2>1, <2>2, <2>3, LivePlainKeeps
<1>7. CASE run[t].op = "end" /\ F!Again(t, "due")
           /\ authorityLock' = F!Without(authorityLock, t) /\ UNCHANGED motionLock
  <2>1. F!Lets(t) BY <1>7, LiveLockTypes DEF F!Lets, F!Without
  <2>2. F!Runs(t)'
    BY <1>1, <1>4, <1>7 DEF F!Stands, F!Runs, F!Fits, F!UnderMotion, F!UnderAuthority,
       F!Knows, F!Starting, F!Dispatching, F!Finishing, F!Carrying, F!rest, F!history
  <2>3. run'[t].pc \in F!Plain
    BY <1>4, <1>7 DEF F!Plain, F!Places, F!Starting, F!Carrying, F!Finishing
  <2>4. QED BY <1>3, <1>4, <1>7, <2>1, <2>2, <2>3, LivePlainKeeps
<1>8. CASE run[t].op = "cancel" /\ F!Again(t, "confirm")
           /\ motionLock' = F!Without(motionLock, t)
           /\ authorityLock' = F!Without(authorityLock, t)
  <2>1. F!Lets(t) BY <1>8, LiveLockTypes DEF F!Lets, F!Without
  <2>2. F!Runs(t)'
    BY <1>1, <1>4, <1>8 DEF F!Stands, F!Runs, F!Fits, F!UnderMotion, F!UnderAuthority,
       F!Knows, F!Starting, F!Dispatching, F!Finishing, F!Carrying, F!rest, F!history
  <2>3. session.attempt # run[t].attempt BY <1>1, <1>2, <1>8, LiveAtCommitEnd DEF F!Active
  <2>4. F!Carried(t)' /\ F!Ending(t)' /\ F!Begun(t)'
    BY <1>4, <1>8, <2>3 DEF F!Carried, F!Ending, F!Begun, F!Starting, F!Carrying, F!rest,
       F!history
  <2>5. QED BY <1>3, <1>4, <1>8, <2>1, <2>2, <2>4, LiveQuietKeeps DEF F!Stands
<1>9. CASE F!Done(t) BY <1>3, <1>9, LiveRestKeeps
<1>10. QED BY <1>5, <1>6, <1>7, <1>8, <1>9 DEF F!NotFinished

(* Who owns the motion lock at a place of an end leaves nobody else who     *)
(* carries a frame, starts or releases.                                     *)
LEMMA LiveNobodyElse ==
  ASSUME F!IInv, NEW t \in F!Threads, motionLock = t, NEW u \in F!Threads, u # t
  PROVE  /\ run[u].pc \notin F!Carrying \cup {"commitEnd", "finishSend", "reset"} \cup F!Starting
         /\ ~(F!Owed /\ F!Carries(u))
<1>1. run[u] \in F!ThreadType /\ F!Stands(u) BY LiveFacts
<1>2. ~F!UnderMotion(run[u]) BY <1>1 DEF F!Stands, F!Runs
<1>3. run[u].pc \notin F!Carrying BY LiveAlone
<1>4. run[u].pc \notin {"commitEnd", "finishSend", "reset"} BY <1>2 DEF F!UnderMotion
<1>5. run[u].pc \notin F!Starting
  BY <1>1, <1>2 DEF F!UnderMotion, F!Stands, F!Runs, F!Fits, F!Starting, F!Dispatching,
     F!Finishing, F!Threads, F!ThreadType
<1>6. QED BY <1>3, <1>4, <1>5 DEF F!Carries

(* The session becomes a terminal receipt. *)
LEMMA LiveReceiptIsTrue ==
  ASSUME F!IInv, NEW how \in {"ended", "flushed", "expired", "faulted", "stopped", "none"},
         how = "flushed" => ~F!Owed /\ session.pending = 0
  PROVE  /\ F!Receipt(how) \in [attempt : F!Ids, flushed : BOOLEAN, owed : BOOLEAN]
         /\ F!Receipt(how).attempt = session.attempt
         /\ F!Receipt(how).flushed => ~F!Receipt(how).owed
<1> DEFINE f == how = "flushed"
           o == how = "flushed" /\ session.sent # session.commanded
<1>1. f \in BOOLEAN /\ o \in BOOLEAN /\ session.attempt \in F!Ids BY LiveSessionFacts
<1>2. F!Receipt(how) = [attempt |-> session.attempt, flushed |-> f, owed |-> o]
  BY DEF F!Receipt
<1>3. f => ~o BY DEF F!Owed
<1> HIDE DEF f, o
<1>4. QED BY <1>1, <1>2, <1>3

(* A session that is gone has no frame, and nothing to be ended. *)
LEMMA LiveGoneIsEased ==
  ASSUME F!IInv, session' = F!NoSession, arm' = arm, wanted' \in {wanted, FALSE},
         UNCHANGED <<attempts, freed, commits>>, NEW u \in F!Threads, F!Same(u),
         run[u].pc \in {"vet", "send"} => latch' # "no"
  PROVE  F!Eased(u)'
<1>1. run[u] \in F!ThreadType /\ F!Stands(u) BY LiveFacts
<1>2. run[u].pc \in F!Carrying \cup {"finish", "commitEnd", "confirm"}
           => run[u].attempt \in Starts
  BY <1>1 DEF F!Stands, F!Runs, F!Fits, F!Starting, F!Dispatching, F!Finishing, F!Carrying,
     F!ThreadType, F!Threads
<1>3. session'.attempt = F!NoOne /\ F!NoOne \notin Starts
  BY LiveNoSessionType, SessionAssumption
<1>4. ~wanted => ~wanted' BY DEF F!IInv, F!TypeOK
<1>5. F!Carried(u)' BY <1>1, <1>2, <1>3 DEF F!Stands, F!Carried, F!Carrying, F!Same
<1>6. F!Ending(u)' BY <1>1, <1>2, <1>3, <1>4 DEF F!Stands, F!Ending, F!Carrying, F!Same
<1>7. F!Begun(u)' BY <1>1, <1>2, <1>3, <1>4 DEF F!Stands, F!Begun, F!Same
<1>8. QED BY <1>5, <1>6, <1>7 DEF F!Eased

(* What the threads share without a session. *)
LEMMA LiveGoneIsShared ==
  ASSUME F!IInv, session' = F!NoSession, arm' = arm, wanted' \in {wanted, FALSE},
         UNCHANGED <<attempts, freed, commits, cancelled>>,
         last' = last \/ last'.attempt = session.attempt,
         last' = last \/ (last'.flushed => ~last'.owed)
  PROVE  F!Shared' /\ F!Flushed'
<1>1. session'.attempt = F!NoOne /\ F!NoOne \notin Starts
  BY LiveNoSessionType, SessionAssumption
<1>2. F!Ledger' BY <1>1 DEF F!IInv, F!Shared, F!Ledger
<1>3. F!Freed' BY DEF F!IInv, F!Shared, F!Freed
<1>4. F!Frames' BY <1>1, LiveNoSessionType DEF F!Frames
<1>5. F!StopEndsSession' /\ F!FlushedIsSent'
  BY DEF F!IInv, F!Shared, F!StopEndsSession, F!FlushedIsSent
<1>6. F!Flushed' BY LiveNoSessionType DEF F!Flushed, F!Owed
<1>7. QED BY <1>2, <1>3, <1>4, <1>5, <1>6 DEF F!Shared

(* The end of a session takes effect once, or is found out of date. *)
LEMMA LiveFinishCommitsKeeps ==
  ASSUME F!IInv, NEW t \in F!Threads, F!FinishCommits(t) PROVE F!IInv'
<1> DEFINE how == run[t].fin.how
<1>1. /\ run[t].pc = "commitEnd" /\ UNCHANGED <<attempts, latch, arm, stopper, F!history>>
      /\ how # "flushed" => authorityLock \in {F!NoOne, t}
  BY DEF F!FinishCommits, F!At, F!Free
<1>2. /\ run[t] \in F!ThreadType /\ F!Stands(t) /\ run[t].attempt \in Starts /\ motionLock = t
      /\ run[t].op \in {"frame", "hb", "cancel", "follow", "end"}
      /\ commits[run[t].attempt] = 1 /\ (how = "flushed" => run[t].op = "end")
  BY <1>1, LiveAtCommitEnd
<1>3. CASE /\ ~F!Active(run[t].attempt) \/ run[t].fin.lease
           /\ F!NotFinished(t) /\ UNCHANGED <<session, last, wanted>>
  <2>1. UNCHANGED F!rest BY <1>1, <1>3 DEF F!rest
  <2>2. QED BY <1>1, <1>3, <2>1, LiveNotFinishedKeeps
<1>4. CASE /\ F!Active(run[t].attempt) /\ last' = F!Receipt(how) /\ session' = F!NoSession
           /\ \/ /\ how # "flushed" /\ wanted' = FALSE /\ authorityLock' = t
                 /\ F!Goto(t, "finishSend") /\ UNCHANGED motionLock
              \/ how = "flushed" /\ F!Done(t) /\ UNCHANGED wanted
  <2>1. session.attempt = run[t].attempt BY <1>4 DEF F!Active
  <2>2. how = "flushed" => ~F!Owed /\ session.pending = 0
    <3>1. how = "flushed" => session.pending = 0 BY <1>1, <1>2, <2>1 DEF F!Stands, F!Ending
    <3>2. how = "flushed" => ~F!Carries(t) BY <1>1 DEF F!Carries, F!Carrying
    <3>3. F!Owed => \E u \in F!Threads : F!Carries(u) BY DEF F!IInv, F!Flushed
    <3>4. QED BY <1>2, <3>1, <3>2, <3>3, LiveNobodyElse
  <2>3. how \in {"none", "ended", "flushed", "expired", "faulted"} BY <1>2 DEF F!ThreadType
  <2> HIDE DEF how
  <2>4. /\ last' \in [attempt : F!Ids, flushed : BOOLEAN, owed : BOOLEAN]
        /\ last'.attempt = session.attempt /\ (last'.flushed => ~last'.owed)
    BY <1>4, <2>2, <2>3, LiveReceiptIsTrue
  <2>5. wanted' \in {wanted, FALSE} BY <1>4
  <2>6. F!Shared' /\ F!Flushed' BY <1>1, <1>4, <2>4, <2>5, LiveGoneIsShared DEF F!history
  <2>7. F!Moved(t) /\ F!Lets(t)
    <3>1. CASE how = "flushed" /\ F!Done(t) BY <3>1, LiveRests
    <3>2. CASE how # "flushed" /\ authorityLock' = t /\ F!Goto(t, "finishSend")
               /\ UNCHANGED motionLock
      <4>1. F!Moved(t) BY <3>2, LiveWent DEF F!Places
      <4>2. F!Lets(t) BY <1>1, <3>2, LiveLockTypes DEF F!Lets
      <4>3. QED BY <4>1, <4>2
    <3>3. QED BY <1>4, <3>1, <3>2
  <2>8. \A u \in F!Threads : u # t => F!Eased(u)'
    <3>1. ASSUME NEW u \in F!Threads, u # t PROVE F!Eased(u)'
      <4>1. run[u].pc \notin {"vet", "send"} BY <1>2, <3>1, LiveNobodyElse DEF F!Carrying
      <4>2. F!Same(u) BY <2>7, <3>1 DEF F!Moved, F!Same
      <4>3. QED BY <1>1, <1>4, <2>5, <4>1, <4>2, LiveGoneIsEased DEF F!history
    <3>2. QED BY <3>1
  <2>9. F!Runs(t)' /\ F!Eased(t)'
    <3>1. CASE how = "flushed" /\ F!Done(t)
      <4>1. run'[t] = F!Idle BY <3>1, LiveRests
      <4>2. QED
        BY <4>1, LiveIdleType DEF F!Runs, F!Fits, F!UnderMotion, F!UnderAuthority, F!Knows,
           F!Eased, F!Carried, F!Ending, F!Begun, F!Starting, F!Dispatching, F!Finishing,
           F!Carrying, F!Threads
    <3>2. CASE how # "flushed" /\ authorityLock' = t /\ F!Goto(t, "finishSend")
               /\ UNCHANGED motionLock
               /\ wanted' = FALSE
      <4>1. /\ run'[t].pc = "finishSend" /\ run'[t].op = run[t].op
            /\ run'[t].attempt = run[t].attempt /\ run'[t].fin = run[t].fin
        BY <3>2, LiveWent DEF F!Places
      <4>2. F!Runs(t)'
        BY <1>1, <1>2, <3>2, <4>1 DEF F!Stands, F!Runs, F!Fits, F!UnderMotion,
           F!UnderAuthority, F!Knows, F!Starting, F!Dispatching, F!Finishing, F!Carrying,
           F!history, how
      <4>3. F!Eased(t)'
        BY <1>4, <3>2, <4>1 DEF F!Eased, F!Carried, F!Ending, F!Begun, F!Starting,
           F!Carrying
      <4>4. QED BY <4>2, <4>3
    <3>3. QED BY <1>4, <3>1, <3>2
  <2>10. F!Surroundings
    BY <1>1, <1>4, <2>4, <2>5, LiveNoSessionType DEF F!Surroundings, F!IInv, F!TypeOK,
       F!history
  <2>11. commits' = commits BY <1>1 DEF F!history
  <2>12. QED BY <2>6, <2>7, <2>8, <2>9, <2>10, <2>11, LiveChangeKeeps
<1>5. QED BY <1>1, <1>3, <1>4 DEF F!FinishCommits

(* The replies to an empty HOLD_SET take nothing. *)
LEMMA LiveHoldSetsRelease ==
  ASSUME F!IInv, NEW on \in BOOLEAN, NEW o \in F!HoldSets(on)
  PROVE  /\ o[2] \in [held : BOOLEAN, stopped : BOOLEAN, by : F!Ids, seq : 0..MaxSeq]
         /\ o[2].by = arm.by /\ o[2].seq = arm.seq /\ o[2].stopped = arm.stopped
         /\ ~on => (o[2].held => arm.held) /\ (o[1] = "ok" => ~o[2].held)
<1>1. arm \in [held : BOOLEAN, stopped : BOOLEAN, by : F!Ids, seq : 0..MaxSeq]
  BY DEF F!IInv, F!TypeOK
<1> DEFINE taken == [arm EXCEPT !.held = on]
           refused == [arm EXCEPT !.held = FALSE]
<1>2. /\ taken \in [held : BOOLEAN, stopped : BOOLEAN, by : F!Ids, seq : 0..MaxSeq]
      /\ taken.by = arm.by /\ taken.seq = arm.seq /\ taken.stopped = arm.stopped
      /\ taken.held = on
  BY <1>1
<1>3. /\ refused \in [held : BOOLEAN, stopped : BOOLEAN, by : F!Ids, seq : 0..MaxSeq]
      /\ refused.by = arm.by /\ refused.seq = arm.seq /\ refused.stopped = arm.stopped
      /\ ~refused.held
  BY <1>1
<1>4. \/ o = <<"refused", arm>> \/ o = <<"ok", taken>> \/ o = <<"lost", taken>>
      \/ o = <<"lost", arm>> \/ o = <<"refused", refused>>
  BY DEF F!HoldSets
<1> HIDE DEF taken, refused
<1>5. QED BY <1>1, <1>2, <1>3, <1>4

(* Who owns the authority lock leaves nobody else who holds. *)
LEMMA LiveNobodyHolds ==
  ASSUME F!IInv, NEW t \in F!Threads, authorityLock = t, NEW u \in F!Threads, u # t
  PROVE  run[u].pc \notin {"renew", "finishSend", "reset", "clear", "clearEnds", "register"}
                          \cup F!Starting
<1>1. run[u] \in F!ThreadType /\ F!Stands(u) BY LiveFacts
<1>2. QED BY <1>1 DEF F!Stands, F!Runs, F!UnderAuthority

(* A change of the hold, not of the frame the controller has, leaves every *)
(* other thread what it stands on ...                                      *)
LEMMA LiveHatIsEased ==
  ASSUME F!IInv, F!HatKeepsFrame, UNCHANGED <<session, attempts, commits>>, wanted' => wanted,
         NEW u \in F!Threads, run'[u] = run[u], run[u].pc \in {"hold", "renew"} => ~freed',
         latch' = latch \/ run[u].pc \notin {"vet", "send"} \/ latch' # "no"
  PROVE  F!Eased(u)'
<1>1. F!Stands(u) BY LiveFacts
<1>2. F!Carried(u)' BY <1>1 DEF F!Stands, F!Carried, F!HatKeepsFrame
<1>3. F!Ending(u)' BY <1>1 DEF F!Stands, F!Ending
<1>4. F!Begun(u)' BY <1>1 DEF F!Stands, F!Begun
<1>5. QED BY <1>2, <1>3, <1>4 DEF F!Eased

(* ... and keeps what the shared state says of itself. *)
LEMMA LiveHatIsShared ==
  ASSUME F!IInv, F!HatKeepsFrame,
         UNCHANGED <<session, last, attempts, commits, cancelled>>, F!Freed',
         latch' = "explicit" => latch = "explicit"
  PROVE  F!Shared'
<1>1. F!Ledger' BY DEF F!IInv, F!Shared, F!Ledger, F!HatKeepsFrame
<1>2. F!Frames' BY DEF F!IInv, F!Shared, F!Frames, F!HatKeepsFrame
<1>3. F!StopEndsSession' /\ F!FlushedIsSent'
  BY DEF F!IInv, F!Shared, F!StopEndsSession, F!FlushedIsSent
<1>4. QED BY <1>1, <1>2, <1>3 DEF F!Shared

(* What is owed stays in the same hands. *)
LEMMA LiveFlushedStays ==
  ASSUME F!IInv, NEW t \in F!Threads, F!Moved(t), F!Lets(t), F!Owed' => F!Owed,
         F!Owed => session'.attempt = session.attempt /\ session'.commanded = session.commanded,
         F!Owed /\ F!Carries(t) => F!Carries(t)' \/ ~F!Owed'
  PROVE  F!Flushed'
<1>1. ASSUME NEW u \in F!Threads, u # t, F!Owed, F!Carries(u) PROVE F!Carries(u)'
  <2>1. run'[u] = run[u] BY <1>1 DEF F!Moved
  <2>2. motionLock' = u BY <1>1 DEF F!Carries, F!Lets, F!Threads, F!NoOne
  <2>3. QED BY <1>1, <2>1, <2>2 DEF F!Carries
<1>2. QED BY <1>1 DEF F!IInv, F!Flushed

(* The empty HOLD_SET of an end. *)
LEMMA LiveFinishSendsKeeps == ASSUME F!IInv, NEW t \in F!Threads, F!FinishSends(t) PROVE F!IInv'
<1>1. run[t].pc = "finishSend" /\ UNCHANGED <<session, last, attempts, wanted, latch, stopper,
                                             commits, cancelled>>
  BY DEF F!FinishSends, F!At
<1>2. /\ run[t] \in F!ThreadType /\ F!Stands(t) /\ motionLock = t /\ authorityLock = t
      /\ ~wanted /\ session = F!NoSession
  BY <1>1, LiveFacts DEF F!Stands, F!Runs, F!UnderMotion, F!UnderAuthority, F!Ending
<1>3. PICK o \in F!HoldSets(FALSE) : arm' = o[2] /\ freed' = (freed \/ (o[1] = "ok"))
  BY DEF F!FinishSends
<1>4. F!HatKeepsFrame /\ (arm'.held => arm.held) /\ (o[1] = "ok" => ~arm'.held)
  BY <1>3, LiveHoldSetsRelease DEF F!HatKeepsFrame
<1>5. F!Freed' /\ freed' \in BOOLEAN
  <2>1. ~wanted' BY <1>1, <1>2
  <2>2. freed => ~arm.held BY DEF F!IInv, F!Shared, F!Freed
  <2>3. freed' => ~arm'.held BY <1>3, <1>4, <2>2
  <2>4. freed' \in BOOLEAN BY <1>3
  <2>5. QED BY <2>1, <2>3, <2>4 DEF F!Freed
<1>6. F!Shared' BY <1>1, <1>4, <1>5, LiveHatIsShared
<1>7. F!Flushed' BY <1>1, <1>2, LiveNoSessionType DEF F!Flushed, F!Owed
<1>8. F!Moved(t) /\ F!Lets(t) /\ F!Runs(t)' /\ F!Eased(t)'
  <2>1. CASE F!Done(t)
    <3>1. F!Moved(t) /\ F!Lets(t) /\ run'[t] = F!Idle BY <2>1, LiveRests
    <3>2. QED
      BY <3>1, LiveIdleType DEF F!Runs, F!Fits, F!UnderMotion, F!UnderAuthority, F!Knows,
         F!Eased, F!Carried, F!Ending, F!Begun, F!Starting, F!Dispatching, F!Finishing,
         F!Carrying, F!Threads
  <2>2. CASE /\ run[t].op = "cancel" /\ F!Again(t, "confirm")
             /\ motionLock' = F!Without(motionLock, t)
             /\ authorityLock' = F!Without(authorityLock, t)
    <3>1. /\ F!Moved(t) /\ run'[t].pc = "confirm" /\ run'[t].op = run[t].op
          /\ run'[t].attempt = run[t].attempt /\ run'[t].fin = [how |-> "none", lease |-> FALSE]
      BY <2>2, LiveAgainGoes DEF F!Places
    <3>2. F!Lets(t) BY <2>2, LiveLockTypes DEF F!Lets, F!Without
    <3>3. run[t].attempt \in Starts /\ session'.attempt = F!NoOne
      BY <1>1, <1>2, <2>2, LiveNoSessionType DEF F!Stands, F!Runs, F!Fits
    <3>4. F!Runs(t)'
      BY <1>1, <1>2, <2>2, <3>1 DEF F!Stands, F!Runs, F!Fits, F!UnderMotion,
         F!UnderAuthority, F!Knows, F!Starting, F!Dispatching, F!Finishing, F!Carrying
    <3>5. F!Eased(t)'
      BY <2>2, <3>1, <3>3, SessionAssumption DEF F!Eased, F!Carried, F!Ending, F!Begun,
         F!Starting, F!Carrying
    <3>6. QED BY <3>1, <3>2, <3>4, <3>5
  <2>3. QED BY <2>1, <2>2 DEF F!FinishSends
<1>9. ASSUME NEW u \in F!Threads, u # t PROVE F!Eased(u)'
  <2>1. run'[u] = run[u] BY <1>8, <1>9 DEF F!Moved
  <2>2. run[u].pc \notin {"hold", "renew"} BY <1>2, <1>9, LiveNobodyHolds DEF F!Starting
  <2>3. QED BY <1>1, <1>4, <2>1, <2>2, LiveHatIsEased
<1>10. F!Surroundings
  BY <1>1, <1>4, <1>5 DEF F!Surroundings, F!IInv, F!TypeOK, F!HatKeepsFrame
<1>11. QED BY <1>1, <1>6, <1>7, <1>8, <1>9, <1>10, LiveChangeKeeps

-----------------------------------------------------------------------------
(* So does a change of the verdict on one attempt, for the threads ... *)
LEMMA LiveAttemptIsEased ==
  ASSUME F!IInv, NEW a \in Starts, NEW v \in F!Verdicts,
         attempts' = [attempts EXCEPT ![a] = v],
         UNCHANGED <<session, wanted, latch, arm, freed, commits>>,
         NEW u \in F!Threads, run'[u] = run[u],
         run[u].pc \in F!Starting /\ run[u].attempt = a
              => v \in {"starting", "cancel_requested"}
  PROVE  F!Eased(u)'
<1>1. F!Stands(u) BY LiveFacts
<1>2. attempts \in [Starts -> F!Verdicts] BY DEF F!IInv, F!TypeOK, F!Verdicts
<1>3. F!Carried(u)' /\ F!Ending(u)' BY <1>1 DEF F!Stands, F!Carried, F!Ending
<1>4. F!Begun(u)'
  <2>1. run[u].pc \in F!Starting => run[u].attempt \in Starts
    BY <1>1, LiveFacts DEF F!Stands, F!Runs, F!Fits, F!Starting, F!Dispatching, F!Finishing,
       F!ThreadType, F!Threads
  <2>2. QED BY <1>1, <1>2, <2>1 DEF F!Stands, F!Begun
<1>5. QED BY <1>3, <1>4 DEF F!Eased

(* ... and for the shared state. *)
LEMMA LiveAttemptIsShared ==
  ASSUME F!IInv, NEW a \in Starts, NEW v \in F!Verdicts,
         attempts' = [attempts EXCEPT ![a] = v],
         UNCHANGED <<session, last, wanted, latch, arm, freed, commits, cancelled>>,
         v \in {"new", "starting"} => commits[a] = 0,
         a \in cancelled => v = "cancelled"
  PROVE  F!Shared' /\ attempts' \in [Starts -> F!Verdicts]
<1>1. attempts \in [Starts -> F!Verdicts] BY DEF F!IInv, F!TypeOK, F!Verdicts
<1>2. attempts' \in [Starts -> F!Verdicts] BY <1>1
<1>3. F!Ledger' BY <1>1 DEF F!IInv, F!Shared, F!Ledger
<1>4. QED BY <1>2, <1>3 DEF F!IInv, F!Shared, F!Freed, F!Frames, F!StopEndsSession,
     F!FlushedIsSent

(* The lane in a start. *)
LEMMA LiveLaneInStart ==
  ASSUME F!IInv, run["lane"].pc \in {"register", "unwind"} \cup F!Starting
  PROVE  /\ run["lane"] \in F!ThreadType /\ run \in [F!Threads -> F!ThreadType]
         /\ "lane" \in F!Threads
         /\ F!Stands("lane") /\ run["lane"].op = "start" /\ run["lane"].attempt \in Starts
         /\ run["lane"].pc # "unwind" => motionLock = "lane" /\ authorityLock = "lane"
         /\ ~F!Carries("lane")
<1>1. run["lane"] \in F!ThreadType /\ run \in [F!Threads -> F!ThreadType] /\ F!Stands("lane")
      /\ "lane" \in F!Threads
  BY LiveFacts DEF F!Threads
<1>2. run["lane"].op = "start" /\ run["lane"].attempt \in Starts
  BY <1>1 DEF F!Stands, F!Runs, F!Fits, F!Starting, F!Dispatching, F!Finishing, F!ThreadType
<1>3. run["lane"].pc # "unwind" => motionLock = "lane" /\ authorityLock = "lane"
  BY <1>1, <1>2 DEF F!Stands, F!Runs, F!UnderMotion, F!UnderAuthority
<1>4. ~F!Carries("lane") BY DEF F!Carries, F!Carrying, F!Starting
<1>5. QED BY <1>1, <1>2, <1>3, <1>4

(* The lane's start goes on, is refused or fails. *)
LEMMA LiveLaneGoes ==
  ASSUME F!IInv, run["lane"].pc \in {"register"} \cup F!Starting,
         NEW pc \in {"unwind"} \cup F!Starting,
         F!Goto("lane", pc) \/ run' = [run EXCEPT !["lane"].pc = pc, !["lane"].raced = FALSE],
         motionLock' = motionLock \/ (pc = "unwind" /\ motionLock' = F!NoOne),
         authorityLock' = authorityLock \/ (pc = "unwind" /\ authorityLock' = F!NoOne)
  PROVE  /\ F!Moved("lane") /\ F!Lets("lane") /\ run'["lane"].pc = pc
         /\ run'["lane"].attempt = run["lane"].attempt
         /\ commits' = commits => F!Runs("lane")'
<1>1. /\ run["lane"] \in F!ThreadType /\ run \in [F!Threads -> F!ThreadType] /\ F!Stands("lane")
      /\ "lane" \in F!Threads /\ run["lane"].op = "start"
      /\ motionLock = "lane" /\ authorityLock = "lane"
  BY LiveLaneInStart DEF F!Starting
<1>2. /\ F!Moved("lane") /\ run'["lane"].pc = pc /\ run'["lane"].op = "start"
      /\ run'["lane"].attempt = run["lane"].attempt /\ run'["lane"].fin = run["lane"].fin
  <2>1. CASE F!Goto("lane", pc) BY <1>1, <2>1, LiveWent DEF F!Places, F!Starting
  <2>2. CASE run' = [run EXCEPT !["lane"].pc = pc, !["lane"].raced = FALSE]
    <3> DEFINE d == [run["lane"] EXCEPT !.pc = pc, !.raced = FALSE]
    <3>1. run' = [run EXCEPT !["lane"] = d] BY <1>1, <2>2
    <3>2. /\ d \in F!ThreadType /\ d.pc = pc /\ d.op = run["lane"].op
          /\ d.attempt = run["lane"].attempt /\ d.fin = run["lane"].fin
      BY <1>1, ZenonT(40) DEF F!ThreadType, F!Starting
    <3> HIDE DEF d
    <3>3. QED BY <1>1, <3>1, <3>2 DEF F!Moved
  <2>3. QED BY <2>1, <2>2
<1>3. F!Lets("lane")
  BY <1>1, LiveLockTypes DEF F!Lets, F!Threads, F!NoOne
<1>4. commits' = commits => F!Runs("lane")'
  BY <1>1, <1>2 DEF F!Stands, F!Runs, F!Fits, F!UnderMotion, F!UnderAuthority, F!Knows,
     F!Starting, F!Dispatching, F!Finishing, F!Carrying
<1>5. QED BY <1>2, <1>3, <1>4

LEMMA LiveRegisterKeeps == ASSUME F!IInv, F!Register PROVE F!IInv'
<1> DEFINE a == run["lane"].attempt
<1>1. run["lane"].pc = "register"
      /\ UNCHANGED <<session, last, wanted, latch, arm, stopper, F!history>>
  BY DEF F!Register, F!At
<1>2. /\ run["lane"] \in F!ThreadType /\ F!Stands("lane") /\ a \in Starts /\ ~F!Carries("lane")
      /\ motionLock = "lane" /\ authorityLock = "lane" /\ "lane" \in F!Threads
  BY <1>1, LiveLaneInStart
<1>3. CASE UNCHANGED attempts /\ F!Done("lane")
  <2>1. UNCHANGED F!rest BY <1>1, <1>3 DEF F!rest
  <2>2. QED BY <1>2, <1>3, <2>1, LiveRestKeeps
<1>4. CASE UNCHANGED <<attempts, F!locks>> /\ F!Goto("lane", "unwind")
  <2>1. UNCHANGED F!rest /\ UNCHANGED F!locks BY <1>1, <1>4 DEF F!rest
  <2>2. F!Moved("lane") /\ F!Lets("lane") /\ run'["lane"].pc = "unwind" /\ F!Runs("lane")'
    BY <1>1, <1>4, <2>1, LiveLaneGoes DEF F!rest, F!history, F!locks
  <2>3. "unwind" \in F!Plain BY DEF F!Plain, F!Places, F!Starting, F!Carrying, F!Finishing
  <2>4. QED BY <1>2, <2>1, <2>2, <2>3, LivePlainKeeps
<1>5. CASE /\ attempts[a] = "new" /\ attempts' = [attempts EXCEPT ![a] = "starting"]
           /\ run' = [run EXCEPT !["lane"].pc = IF session = F!NoSession THEN "claim" ELSE "unwind",
                                 !["lane"].raced = FALSE]
           /\ UNCHANGED F!locks
  <2> DEFINE pc == IF session = F!NoSession THEN "claim" ELSE "unwind"
  <2>1. pc \in {"claim", "unwind"} /\ (pc = "claim" => session = F!NoSession) OBVIOUS
  <2>2. run' = [run EXCEPT !["lane"].pc = pc, !["lane"].raced = FALSE] BY <1>5
  <2> HIDE DEF pc
  <2>3. pc \in {"unwind"} \cup F!Starting BY <2>1 DEF F!Starting
  <2>4. /\ F!Moved("lane") /\ F!Lets("lane") /\ run'["lane"].pc = pc /\ F!Runs("lane")'
        /\ run'["lane"].attempt = a
    BY <1>1, <1>5, <2>2, <2>3, LiveLaneGoes DEF F!history, F!locks
  <2>5. commits[a] = 0 BY <1>2, <1>5 DEF F!IInv, F!Shared, F!Ledger
  <2>6. a \notin cancelled BY <1>2, <1>5 DEF F!IInv, F!Shared, F!Ledger
  <2>7. F!Shared' /\ attempts' \in [Starts -> F!Verdicts]
    BY <1>1, <1>2, <1>5, <2>5, <2>6, LiveAttemptIsShared DEF F!Verdicts, F!history
  <2>8. ASSUME NEW u \in F!Threads, u # "lane" PROVE F!Eased(u)'
    <3>1. run'[u] = run[u] BY <2>4, <2>8 DEF F!Moved
    <3>2. run[u].pc \notin F!Starting BY <1>2, <2>8, LiveNobodyElse
    <3>3. QED BY <1>1, <1>2, <1>5, <3>1, <3>2, LiveAttemptIsEased DEF F!Verdicts, F!history
  <2>9. F!Eased("lane")'
    <3>1. attempts'[a] = "starting" BY <1>2, <1>5 DEF F!IInv, F!TypeOK
    <3>2. QED
      BY <1>1, <2>1, <2>4, <2>5, <3>1 DEF F!Eased, F!Carried, F!Ending, F!Begun, F!Starting,
         F!Carrying, F!history
  <2>10. F!Flushed' BY <1>1, <1>2, <2>4, LiveFlushedStays DEF F!Owed
  <2>11. F!Surroundings
    BY <1>1, <2>7 DEF F!Surroundings, F!IInv, F!TypeOK, F!history, F!Verdicts
  <2>12. QED BY <1>1, <1>2, <2>4, <2>7, <2>8, <2>9, <2>10, <2>11, LiveChangeKeeps DEF
       F!history
<1>6. QED BY <1>3, <1>4, <1>5 DEF F!Register

(* The start claims the arm before it asks the controller. *)
LEMMA LiveClaimKeeps == ASSUME F!IInv, F!Claim PROVE F!IInv'
<1>1. run["lane"].pc = "claim" /\ UNCHANGED F!locks
      /\ UNCHANGED <<session, last, attempts, latch, arm, stopper, commits, cancelled>>
  BY DEF F!Claim, F!At
<1>2. /\ run["lane"].pc \in {"register"} \cup F!Starting /\ run["lane"].pc # "unwind"
      /\ run["lane"].pc \in F!Starting
  BY <1>1 DEF F!Starting
<1>3. /\ run["lane"] \in F!ThreadType /\ F!Stands("lane") /\ ~F!Carries("lane")
      /\ motionLock = "lane" /\ "lane" \in F!Threads
  BY <1>2, LiveLaneInStart
<1>4. PICK pc \in {"hold", "unwind"} :
        /\ F!Goto("lane", pc) \/ run' = [run EXCEPT !["lane"].pc = pc, !["lane"].raced = FALSE]
        /\ pc = "hold" => freed' = FALSE /\ wanted' = TRUE
        /\ pc = "unwind" => UNCHANGED <<wanted, freed>>
  BY DEF F!Claim, F!Refused
<1>5. /\ F!Moved("lane") /\ F!Lets("lane") /\ run'["lane"].pc = pc
      /\ run'["lane"].attempt = run["lane"].attempt /\ F!Runs("lane")'
  BY <1>1, <1>2, <1>4, LiveLaneGoes DEF F!locks, F!Starting
<1>6. wanted' \in BOOLEAN /\ freed' \in BOOLEAN /\ (freed' => freed)
  <2>1. wanted \in BOOLEAN /\ freed \in BOOLEAN BY DEF F!IInv, F!TypeOK
  <2>2. CASE pc = "hold" BY <1>4, <2>2
  <2>3. CASE pc = "unwind" BY <1>4, <2>1, <2>3
  <2>4. QED BY <2>2, <2>3
<1>7. F!Freed' BY <1>1, <1>4 DEF F!IInv, F!Shared, F!Freed
<1>8. F!HatKeepsFrame BY <1>1 DEF F!HatKeepsFrame, F!IInv, F!TypeOK
<1>9. F!Shared' BY <1>1, <1>7, <1>8, LiveHatIsShared
<1>10. F!Flushed' BY <1>1, <1>3, <1>5, LiveFlushedStays DEF F!Owed
<1>11. ASSUME NEW u \in F!Threads, u # "lane" PROVE F!Eased(u)'
  <2>1. run'[u] = run[u] /\ F!Stands(u) BY <1>5, <1>11, LiveFacts DEF F!Moved
  <2>2. run[u].pc \notin {"finishSend"} \cup F!Starting BY <1>3, <1>11, LiveNobodyElse
  <2>3. F!Carried(u)' BY <1>1, <2>1 DEF F!Stands, F!Carried
  <2>4. F!Ending(u)' BY <1>1, <2>1, <2>2 DEF F!Stands, F!Ending
  <2>5. F!Begun(u)' BY <1>1, <1>6, <2>1, <2>2 DEF F!Stands, F!Begun, F!Starting
  <2>6. QED BY <2>3, <2>4, <2>5 DEF F!Eased
<1>12. F!Eased("lane")'
  <2>1. F!Begun("lane") BY <1>3 DEF F!Stands
  <2>2. QED
    BY <1>1, <1>2, <1>4, <1>5, <2>1 DEF F!Eased, F!Carried, F!Ending, F!Begun, F!Starting,
       F!Carrying
<1>13. F!Surroundings BY <1>1, <1>6 DEF F!Surroundings, F!IInv, F!TypeOK
<1>14. QED BY <1>1, <1>3, <1>5, <1>9, <1>10, <1>11, <1>12, <1>13, LiveChangeKeeps

(* The HOLD_SET of a start. *)
LEMMA LiveStartHoldKeeps == ASSUME F!IInv, F!StartHold PROVE F!IInv'
<1>1. run["lane"].pc = "hold" /\ UNCHANGED F!locks
      /\ UNCHANGED <<session, last, attempts, wanted, latch, stopper, freed, commits, cancelled>>
  BY DEF F!StartHold, F!At, F!history
<1>2. /\ run["lane"].pc \in {"register"} \cup F!Starting /\ run["lane"].pc # "unwind"
      /\ run["lane"].pc \in F!Starting
  BY <1>1 DEF F!Starting
<1>3. /\ run["lane"] \in F!ThreadType /\ F!Stands("lane") /\ ~F!Carries("lane")
      /\ motionLock = "lane" /\ authorityLock = "lane" /\ "lane" \in F!Threads
  BY <1>2, LiveLaneInStart
<1>4. PICK o \in F!HoldSets(TRUE) : arm' = o[2] BY DEF F!StartHold
<1>5. PICK pc \in {"check", "abort"} :
        F!Goto("lane", pc) \/ run' = [run EXCEPT !["lane"].pc = pc, !["lane"].raced = FALSE]
  BY DEF F!StartHold, F!Fails
<1>6. /\ F!Moved("lane") /\ F!Lets("lane") /\ run'["lane"].pc = pc
      /\ run'["lane"].attempt = run["lane"].attempt /\ F!Runs("lane")'
  BY <1>1, <1>2, <1>5, LiveLaneGoes DEF F!locks, F!Starting
<1>7. ~freed /\ ~freed' BY <1>1, <1>3 DEF F!Stands, F!Begun
<1>8. F!HatKeepsFrame BY <1>4, LiveHoldSetsRelease DEF F!HatKeepsFrame
<1>9. F!Shared' BY <1>1, <1>7, <1>8, LiveHatIsShared DEF F!Freed
<1>10. F!Flushed' BY <1>1, <1>3, <1>6, LiveFlushedStays DEF F!Owed
<1>11. ASSUME NEW u \in F!Threads, u # "lane" PROVE F!Eased(u)'
  <2>1. run'[u] = run[u] BY <1>6, <1>11 DEF F!Moved
  <2>2. QED BY <1>1, <1>7, <1>8, <2>1, LiveHatIsEased
<1>12. F!Eased("lane")'
  <2>1. F!Begun("lane") BY <1>3 DEF F!Stands
  <2>2. QED
    BY <1>1, <1>2, <1>5, <1>6, <1>7, <2>1 DEF F!Eased, F!Carried, F!Ending, F!Begun,
       F!Starting, F!Carrying
<1>13. F!Surroundings BY <1>1, <1>8 DEF F!Surroundings, F!IInv, F!TypeOK, F!HatKeepsFrame
<1>14. QED BY <1>1, <1>3, <1>6, <1>9, <1>10, <1>11, <1>12, <1>13, LiveChangeKeeps

(* _abort_motion_recoverably: the intent first, then the controller. *)
LEMMA LiveAbortKeeps == ASSUME F!IInv, F!Abort PROVE F!IInv'
<1>1. run["lane"].pc = "abort" /\ UNCHANGED F!locks /\ wanted' = FALSE
      /\ F!Goto("lane", "abortSend")
      /\ UNCHANGED <<session, last, attempts, latch, arm, stopper, freed, commits, cancelled>>
  BY DEF F!Abort, F!At, F!history
<1>2. /\ run["lane"].pc \in {"register"} \cup F!Starting /\ run["lane"].pc \in F!Starting
      /\ "abortSend" \in {"unwind"} \cup F!Starting
  BY <1>1 DEF F!Starting
<1>3. /\ run["lane"] \in F!ThreadType /\ F!Stands("lane") /\ ~F!Carries("lane")
      /\ motionLock = "lane" /\ "lane" \in F!Threads
  BY <1>1, <1>2, LiveLaneInStart
<1>4. /\ F!Moved("lane") /\ F!Lets("lane") /\ run'["lane"].pc = "abortSend"
      /\ run'["lane"].attempt = run["lane"].attempt /\ F!Runs("lane")'
  BY <1>1, <1>2, LiveLaneGoes DEF F!locks
<1>5. F!Freed' BY <1>1 DEF F!IInv, F!Shared, F!Freed
<1>6. F!HatKeepsFrame BY <1>1 DEF F!HatKeepsFrame, F!IInv, F!TypeOK
<1>7. F!Shared' BY <1>1, <1>5, <1>6, LiveHatIsShared
<1>8. F!Flushed' BY <1>1, <1>3, <1>4, LiveFlushedStays DEF F!Owed
<1>9. ASSUME NEW u \in F!Threads, u # "lane" PROVE F!Eased(u)'
  <2>1. run'[u] = run[u] /\ F!Stands(u) BY <1>4, <1>9, LiveFacts DEF F!Moved
  <2>2. F!Carried(u)' BY <1>1, <2>1 DEF F!Stands, F!Carried
  <2>3. F!Ending(u)' BY <1>1, <2>1 DEF F!Stands, F!Ending
  <2>4. F!Begun(u)' BY <1>1, <2>1 DEF F!Stands, F!Begun
  <2>5. QED BY <2>2, <2>3, <2>4 DEF F!Eased
<1>10. F!Eased("lane")'
  <2>1. F!Begun("lane") BY <1>3 DEF F!Stands
  <2>2. QED
    BY <1>1, <1>2, <1>4, <2>1 DEF F!Eased, F!Carried, F!Ending, F!Begun, F!Starting,
       F!Carrying
<1>11. F!Surroundings BY <1>1 DEF F!Surroundings, F!IInv, F!TypeOK
<1>12. QED BY <1>1, <1>3, <1>4, <1>7, <1>8, <1>9, <1>10, <1>11, LiveChangeKeeps

LEMMA LiveAbortSendKeeps == ASSUME F!IInv, F!AbortSend PROVE F!IInv'
<1>1. /\ run["lane"].pc = "abortSend" /\ motionLock' = F!NoOne /\ authorityLock' = F!NoOne
      /\ run' = [run EXCEPT !["lane"].pc = "unwind"]
      /\ UNCHANGED <<session, last, attempts, wanted, latch, stopper, commits, cancelled>>
  BY DEF F!AbortSend, F!At
<1>2. run["lane"].pc \in {"register"} \cup F!Starting /\ run["lane"].pc \in F!Starting
  BY <1>1 DEF F!Starting
<1>3. /\ run["lane"] \in F!ThreadType /\ F!Stands("lane") /\ ~F!Carries("lane")
      /\ motionLock = "lane" /\ authorityLock = "lane" /\ "lane" \in F!Threads
  BY <1>1, <1>2, LiveLaneInStart
<1>4. PICK o \in F!HoldSets(FALSE) : arm' = o[2] /\ freed' = (o[1] = "ok")
  BY DEF F!AbortSend
<1>5. F!HatKeepsFrame /\ (o[1] = "ok" => ~arm'.held)
  BY <1>4, LiveHoldSetsRelease DEF F!HatKeepsFrame
<1>6. /\ F!Moved("lane") /\ F!Lets("lane") /\ run'["lane"].pc = "unwind"
      /\ run'["lane"].attempt = run["lane"].attempt /\ F!Runs("lane")'
  BY <1>1, <1>2, LiveLaneGoes DEF F!Goto
<1>7. ~wanted' BY <1>1, <1>3 DEF F!Stands, F!Begun
<1>8. F!Freed' /\ freed' \in BOOLEAN BY <1>4, <1>5, <1>7 DEF F!Freed
<1>9. F!Shared' BY <1>1, <1>5, <1>8, LiveHatIsShared
<1>10. F!Flushed' BY <1>1, <1>3, <1>6, LiveFlushedStays DEF F!Owed
<1>11. ASSUME NEW u \in F!Threads, u # "lane" PROVE F!Eased(u)'
  <2>1. run'[u] = run[u] BY <1>6, <1>11 DEF F!Moved
  <2>2. run[u].pc \notin {"hold", "renew"} BY <1>3, <1>11, LiveNobodyHolds DEF F!Starting
  <2>3. QED BY <1>1, <1>5, <2>1, <2>2, LiveHatIsEased
<1>12. F!Eased("lane")'
  BY <1>6 DEF F!Eased, F!Carried, F!Ending, F!Begun, F!Starting, F!Carrying
<1>13. F!Surroundings
  BY <1>1, <1>5, <1>8 DEF F!Surroundings, F!IInv, F!TypeOK, F!HatKeepsFrame
<1>14. QED BY <1>1, <1>3, <1>6, <1>9, <1>10, <1>11, <1>12, <1>13, LiveChangeKeeps

(* The attempt gets its verdict. *)
LEMMA LiveUnwindKeeps == ASSUME F!IInv, F!Unwind PROVE F!IInv'
<1> DEFINE a == run["lane"].attempt
           v == CASE attempts[a] = "cancel_requested" -> "cancelled"
                  [] attempts[a] = "starting" -> "failed"
                  [] OTHER -> attempts[a]
<1>1. /\ run["lane"].pc = "unwind" /\ F!Done("lane")
      /\ UNCHANGED <<session, last, wanted, latch, arm, stopper, freed, commits, cancelled>>
  BY DEF F!Unwind, F!At, F!history
<1>2. a \in Starts /\ ~F!Carries("lane") /\ "lane" \in F!Threads BY <1>1, LiveLaneInStart
<1>3. attempts \in [Starts -> F!Verdicts] BY DEF F!IInv, F!TypeOK, F!Verdicts
<1>4. attempts' = [attempts EXCEPT ![a] = v] BY <1>2, <1>3 DEF F!Unwind
<1>5. /\ v \in F!Verdicts /\ (v \in {"new", "starting"} => attempts[a] = "new")
      /\ attempts[a] = "cancelled" => v = "cancelled"
  <2>1. attempts[a] \in F!Verdicts BY <1>2, <1>3
  <2>2. CASE attempts[a] = "cancel_requested" BY <2>2 DEF F!Verdicts
  <2>3. CASE attempts[a] = "starting" BY <2>3 DEF F!Verdicts
  <2>4. CASE attempts[a] \notin {"cancel_requested", "starting"}
    BY <2>1, <2>4 DEF F!Verdicts
  <2>5. QED BY <2>2, <2>3, <2>4
<1> HIDE DEF v
<1>6. (v \in {"new", "starting"} => commits[a] = 0) /\ (a \in cancelled => v = "cancelled")
  BY <1>2, <1>5 DEF F!IInv, F!Shared, F!Ledger
<1>7. F!Shared' /\ attempts' \in [Starts -> F!Verdicts]
  BY <1>1, <1>2, <1>4, <1>5, <1>6, LiveAttemptIsShared
<1>8. F!Moved("lane") /\ F!Lets("lane") /\ run'["lane"] = F!Idle BY <1>1, <1>2, LiveRests
<1>9. ASSUME NEW u \in F!Threads, u # "lane" PROVE F!Eased(u)'
  <2>1. run'[u] = run[u] BY <1>8, <1>9 DEF F!Moved
  <2>2. run[u].pc \notin F!Starting
    BY <1>9, LiveFacts DEF F!Stands, F!Runs, F!Fits, F!Starting, F!Dispatching, F!Finishing,
       F!Threads, F!ThreadType
  <2>3. QED BY <1>1, <1>2, <1>4, <1>5, <2>1, <2>2, LiveAttemptIsEased
<1>10. F!Runs("lane")' /\ F!Eased("lane")'
  BY <1>8, LiveIdleType DEF F!Runs, F!Fits, F!UnderMotion, F!UnderAuthority, F!Knows,
     F!Eased, F!Carried, F!Ending, F!Begun, F!Starting, F!Dispatching, F!Finishing,
     F!Carrying, F!Threads
<1>11. F!Flushed' BY <1>1, <1>2, <1>8, LiveFlushedStays DEF F!Owed
<1>12. F!Surroundings BY <1>1, <1>7 DEF F!Surroundings, F!IInv, F!TypeOK, F!Verdicts
<1>13. QED BY <1>1, <1>2, <1>7, <1>8, <1>9, <1>10, <1>11, <1>12, LiveChangeKeeps

(* The session is installed: nobody else knew of its attempt. *)
LEMMA LiveCommitKeeps == ASSUME F!IInv, F!Commit PROVE F!IInv'
<1> DEFINE a == run["lane"].attempt
<1>1. run["lane"].pc = "commit" /\ UNCHANGED <<wanted, latch, arm, stopper, freed, cancelled>>
  BY DEF F!Commit, F!At
<1>2. run["lane"].pc \in {"register"} \cup F!Starting /\ run["lane"].pc \in F!Starting
  BY <1>1 DEF F!Starting
<1>3. /\ run["lane"] \in F!ThreadType /\ F!Stands("lane") /\ ~F!Carries("lane") /\ a \in Starts
      /\ motionLock = "lane" /\ "lane" \in F!Threads
  BY <1>1, <1>2, LiveLaneInStart
<1>4. CASE F!Fails /\ UNCHANGED <<session, last, attempts, F!locks, commits>>
  <2>1. UNCHANGED F!rest /\ motionLock' = motionLock /\ authorityLock' = authorityLock
    BY <1>1, <1>4 DEF F!rest, F!history, F!locks
  <2>2. "abort" \in {"unwind"} \cup F!Starting BY DEF F!Starting
  <2>3. /\ F!Moved("lane") /\ F!Lets("lane") /\ run'["lane"].pc = "abort"
        /\ run'["lane"].attempt = a /\ F!Runs("lane")'
    BY <1>2, <1>4, <2>1, <2>2, LiveLaneGoes DEF F!Fails
  <2>4. F!Carried("lane")' /\ F!Ending("lane")' /\ F!Begun("lane")'
    BY <1>2, <1>3, <1>4, <2>1, <2>3 DEF F!Stands, F!Carried, F!Ending, F!Begun, F!Starting,
       F!Carrying
  <2>5. QED BY <1>3, <2>1, <2>3, <2>4, LiveQuietKeeps DEF F!Stands
<1>5. CASE /\ attempts[a] = "starting" /\ latch = "no"
           /\ attempts' = [attempts EXCEPT ![a] = "committed"]
           /\ session' = [F!NoSession EXCEPT !.attempt = a] /\ last' = F!NoReceipt
           /\ commits' = [commits EXCEPT ![a] = @ + 1] /\ F!Done("lane")
  <2>1. commits[a] = 0 BY <1>2, <1>3 DEF F!Stands, F!Begun
  <2>2. commits \in [Starts -> Nat] /\ attempts \in [Starts -> F!Verdicts]
    BY DEF F!IInv, F!TypeOK, F!Verdicts
  <2>3. /\ commits' \in [Starts -> Nat] /\ commits'[a] = 1
        /\ \A b \in Starts : b # a => commits'[b] = commits[b]
    BY <1>3, <1>5, <2>1, <2>2
  <2>4. /\ attempts' \in [Starts -> F!Verdicts] /\ attempts'[a] = "committed"
        /\ \A b \in Starts : b # a => attempts'[b] = attempts[b]
    BY <1>3, <1>5, <2>2 DEF F!Verdicts
  <2>5. /\ session' \in F!SessionType /\ session'.attempt = a /\ session'.pending = 0
        /\ session'.accepted = 0 /\ session'.sent = 0 /\ session'.commanded = 0
    BY <1>3, <1>5, LiveNoSessionType DEF F!SessionType, F!Ids
  <2>6. /\ last' \in [attempt : F!Ids, flushed : BOOLEAN, owed : BOOLEAN]
        /\ last'.attempt = F!NoOne /\ ~last'.flushed
    BY <1>5 DEF F!NoReceipt, F!Ids
  <2>7. a # F!NoOne /\ F!NoOne \notin Starts /\ a \notin cancelled
    BY <1>3, <1>5, SessionAssumption DEF F!IInv, F!Shared, F!Ledger
  <2>8. arm.by # a /\ \A b \in Starts : b = arm.by => commits'[b] = 1
    BY <1>3, <2>1, <2>3 DEF F!IInv, F!Shared, F!Ledger
  <2>9. F!Ledger'
    <3>1. session'.attempt # F!NoOne BY <2>5, <2>7
    <3>2. \A b \in Starts : b \in {session'.attempt, last'.attempt, arm'.by} => commits'[b] = 1
      BY <1>1, <2>3, <2>5, <2>6, <2>7, <2>8
    <3>3. ASSUME NEW b \in Starts
          PROVE  /\ commits'[b] \in {0, 1}
                 /\ attempts'[b] \in {"new", "starting"} => commits'[b] = 0
                 /\ b \in cancelled' => attempts'[b] = "cancelled" /\ session'.attempt # b
      <4>1. CASE b = a BY <1>1, <2>3, <2>4, <2>7, <4>1
      <4>2. CASE b # a BY <1>1, <2>3, <2>4, <2>5, <4>2 DEF F!IInv, F!Shared, F!Ledger
      <4>3. QED BY <4>1, <4>2
    <3>4. QED BY <3>1, <3>2, <3>3 DEF F!Ledger
  <2>10. F!Shared'
    <3>1. F!Freed' BY <1>1 DEF F!IInv, F!Shared, F!Freed
    <3>2. F!Frames' BY <1>1, <2>5, <2>8 DEF F!Frames
    <3>3. F!StopEndsSession' BY <1>1, <1>5 DEF F!StopEndsSession
    <3>4. F!FlushedIsSent' BY <2>6 DEF F!FlushedIsSent
    <3>5. QED BY <2>9, <3>1, <3>2, <3>3, <3>4 DEF F!Shared
  <2>11. F!Flushed' BY <2>5 DEF F!Flushed, F!Owed
  <2>12. F!Moved("lane") /\ F!Lets("lane") /\ run'["lane"] = F!Idle BY <1>3, <1>5, LiveRests
  <2>13. ASSUME NEW u \in F!Threads, u # "lane" PROVE F!Eased(u)'
    <3>1. run'[u] = run[u] /\ F!Stands(u) BY <2>12, <2>13, LiveFacts DEF F!Moved
    <3>2. run[u].pc \notin F!Carrying \cup {"commitEnd", "finishSend", "reset"} \cup F!Starting
      BY <1>3, <2>13, LiveNobodyElse
    <3>3. run[u].pc \in {"finish", "confirm"} => run[u].attempt # a
      <4>1. run[u].pc \in {"finish", "confirm"} => F!Knows(run[u])
        BY <3>1, LiveFacts DEF F!Stands, F!Runs, F!Fits, F!Knows, F!Starting, F!Dispatching,
           F!Finishing, F!ThreadType, F!Threads
      <4>2. QED BY <2>1, <3>1, <4>1 DEF F!Stands, F!Runs
    <3>4. F!Carried(u)' BY <3>1, <3>2 DEF F!Carried, F!Carrying
    <3>5. F!Ending(u)' BY <2>5, <3>1, <3>2, <3>3 DEF F!Ending
    <3>6. F!Begun(u)' BY <1>1, <3>1, <3>2 DEF F!Stands, F!Begun, F!Starting
    <3>7. QED BY <3>4, <3>5, <3>6 DEF F!Eased
  <2>14. F!Runs("lane")' /\ F!Eased("lane")'
    BY <2>12, LiveIdleType DEF F!Runs, F!Fits, F!UnderMotion, F!UnderAuthority, F!Knows,
       F!Eased, F!Carried, F!Ending, F!Begun, F!Starting, F!Dispatching, F!Finishing,
       F!Carrying, F!Threads
  <2>15. F!Surroundings
    BY <1>1, <2>3, <2>4, <2>5, <2>6 DEF F!Surroundings, F!IInv, F!TypeOK, F!Verdicts
  <2>16. \A b \in Starts : commits[b] = 1 => commits'[b] = 1 BY <2>1, <2>3
  <2>17. QED BY <1>3, <2>10, <2>11, <2>12, <2>13, <2>14, <2>15, <2>16, LiveChangeKeeps
<1>6. QED BY <1>1, <1>4, <1>5 DEF F!Commit, F!MayStart

-----------------------------------------------------------------------------
(* The cancel request has its session's end or its answer. *)
LEMMA LiveAnsweredKeeps ==
  ASSUME F!IInv, NEW a \in Starts, F!Answered(a), run["cancel"].pc \in {"look", "confirm"},
         UNCHANGED <<session, last, wanted, latch, arm, stopper, freed, commits>>,
         session.attempt # a,
         run["lane"].pc \in F!Starting => run["lane"].attempt # a
  PROVE  F!IInv'
<1>1. /\ attempts' = [attempts EXCEPT ![a] = "cancelled"] /\ cancelled' = cancelled \cup {a}
      /\ F!Done("cancel")
  BY DEF F!Answered
<1>2. "cancel" \in F!Threads /\ ~F!Carries("cancel") BY DEF F!Threads, F!Carries, F!Carrying
<1>3. F!Moved("cancel") /\ F!Lets("cancel") /\ run'["cancel"] = F!Idle
  BY <1>1, <1>2, LiveRests
<1>4. attempts \in [Starts -> F!Verdicts] /\ cancelled \in SUBSET Starts
  BY DEF F!IInv, F!TypeOK, F!Verdicts
<1>5. attempts' \in [Starts -> F!Verdicts] /\ cancelled' \in SUBSET Starts
  BY <1>1, <1>4 DEF F!Verdicts
<1>6. F!Ledger' BY <1>1, <1>4 DEF F!IInv, F!Shared, F!Ledger
<1>7. F!Shared'
  BY <1>6 DEF F!IInv, F!Shared, F!Freed, F!Frames, F!StopEndsSession, F!FlushedIsSent
<1>8. F!Flushed' BY <1>2, <1>3, LiveFlushedStays DEF F!Owed
<1>9. ASSUME NEW u \in F!Threads, u # "cancel" PROVE F!Eased(u)'
  <2>1. run'[u] = run[u] BY <1>3, <1>9 DEF F!Moved
  <2>2. u # "lane" => run[u].pc \notin F!Starting
    BY <1>9, LiveFacts DEF F!Stands, F!Runs, F!Fits, F!Starting, F!Dispatching, F!Finishing,
       F!Threads, F!ThreadType
  <2>3. run[u].pc \in F!Starting => run[u].attempt # a BY <2>2
  <2>4. QED BY <1>1, <2>1, <2>3, LiveAttemptIsEased DEF F!Verdicts
<1>10. F!Runs("cancel")' /\ F!Eased("cancel")'
  BY <1>3, LiveIdleType DEF F!Runs, F!Fits, F!UnderMotion, F!UnderAuthority, F!Knows,
     F!Eased, F!Carried, F!Ending, F!Begun, F!Starting, F!Dispatching, F!Finishing,
     F!Carrying, F!Threads
<1>11. F!Surroundings BY <1>5 DEF F!Surroundings, F!IInv, F!TypeOK, F!Verdicts
<1>12. QED BY <1>2, <1>3, <1>7, <1>8, <1>9, <1>10, <1>11, LiveChangeKeeps

(* An installed attempt is not being started. *)
LEMMA LiveInstalledIsNotStarting ==
  ASSUME F!IInv, NEW a \in Starts,
         commits[a] = 1 \/ attempts[a] \notin {"starting", "cancel_requested"},
         run["lane"].pc \in F!Starting
  PROVE  run["lane"].attempt # a
BY LiveLaneInStart DEF F!Stands, F!Begun

LEMMA LiveCancelConfirmsKeeps == ASSUME F!IInv, F!CancelConfirms PROVE F!IInv'
<1> DEFINE a == run["cancel"].attempt
<1>1. /\ run["cancel"].pc = "confirm" /\ F!Answered(a)
      /\ UNCHANGED <<session, last, wanted, latch, arm, stopper, freed, commits>>
  BY DEF F!CancelConfirms, F!At
<1>2. run["cancel"] \in F!ThreadType /\ F!Stands("cancel") BY LiveFacts DEF F!Threads
<1>3. a \in Starts /\ commits[a] = 1 /\ session.attempt # a
  BY <1>1, <1>2 DEF F!Stands, F!Runs, F!Fits, F!Knows, F!Ending, F!Starting, F!Dispatching,
     F!Finishing, F!ThreadType
<1>4. run["lane"].pc \in F!Starting => run["lane"].attempt # a
  BY <1>3, LiveInstalledIsNotStarting
<1>5. QED BY <1>1, <1>3, <1>4, LiveAnsweredKeeps

LEMMA LiveCancelLooksKeeps == ASSUME F!IInv, F!CancelLooks PROVE F!IInv'
<1> DEFINE a == run["cancel"].attempt
<1>1. /\ run["cancel"].pc = "look"
      /\ UNCHANGED <<session, last, wanted, latch, arm, stopper, freed, commits>>
  BY DEF F!CancelLooks, F!At
<1>2. /\ run["cancel"] \in F!ThreadType /\ F!Stands("cancel") /\ "cancel" \in F!Threads
      /\ ~F!Carries("cancel")
  BY <1>1, LiveFacts DEF F!Threads, F!Carries, F!Carrying
<1>3. run["cancel"].op = "cancel" /\ a \in Starts
  BY <1>1, <1>2 DEF F!Stands, F!Runs, F!Fits, F!Starting, F!Dispatching, F!Finishing,
     F!ThreadType
<1>4. CASE session.attempt = a /\ attempts' = [attempts EXCEPT ![a] = "cancel_requested"]
           /\ F!Finish("cancel", "ended", FALSE) /\ UNCHANGED <<F!locks, cancelled>>
  <2>1. /\ F!Moved("cancel") /\ run'["cancel"].pc = "finish" /\ run'["cancel"].op = "cancel"
        /\ run'["cancel"].attempt = a /\ run'["cancel"].fin.how = "ended"
        /\ ~run'["cancel"].fin.lease
    BY <1>2, <1>3, <1>4, LiveFinished
  <2>2. F!Lets("cancel") BY <1>4, LiveLockTypes DEF F!Lets, F!locks
  <2>3. commits[a] = 1 /\ a \notin cancelled BY <1>3, <1>4 DEF F!IInv, F!Shared, F!Ledger
  <2>4. F!Shared' /\ attempts' \in [Starts -> F!Verdicts]
    BY <1>1, <1>3, <1>4, <2>3, LiveAttemptIsShared DEF F!Verdicts
  <2>5. ASSUME NEW u \in F!Threads, u # "cancel" PROVE F!Eased(u)'
    <3>1. run'[u] = run[u] BY <2>1, <2>5 DEF F!Moved
    <3>2. QED BY <1>1, <1>3, <1>4, <3>1, LiveAttemptIsEased DEF F!Verdicts
  <2>6. F!Runs("cancel")'
    BY <1>1, <1>2, <1>3, <2>1, <2>3 DEF F!Stands, F!Runs, F!Fits, F!UnderMotion,
       F!UnderAuthority, F!Knows, F!Starting, F!Dispatching, F!Finishing, F!Carrying
  <2>7. F!Eased("cancel")'
    BY <2>1 DEF F!Eased, F!Carried, F!Ending, F!Begun, F!Starting, F!Carrying
  <2>8. F!Flushed' BY <1>1, <1>2, <2>1, <2>2, LiveFlushedStays DEF F!Owed
  <2>9. F!Surroundings BY <1>1, <1>4, <2>4 DEF F!Surroundings, F!IInv, F!TypeOK, F!Verdicts
  <2>10. QED BY <1>1, <1>2, <2>1, <2>2, <2>4, <2>5, <2>6, <2>7, <2>8, <2>9, LiveChangeKeeps
<1>5. CASE session.attempt # a /\ last.attempt = a /\ F!Answered(a)
  <2>1. commits[a] = 1 BY <1>3, <1>5 DEF F!IInv, F!Shared, F!Ledger
  <2>2. run["lane"].pc \in F!Starting => run["lane"].attempt # a
    BY <1>3, <2>1, LiveInstalledIsNotStarting
  <2>3. QED BY <1>1, <1>3, <1>5, <2>2, LiveAnsweredKeeps
<1>6. CASE /\ session.attempt # a /\ F!Answered(a)
           /\ attempts[a] \in {"new", "failed", "cancelled", "committed"}
  <2>1. run["lane"].pc \in F!Starting => run["lane"].attempt # a
    BY <1>3, <1>6, LiveInstalledIsNotStarting
  <2>2. QED BY <1>1, <1>3, <1>6, <2>1, LiveAnsweredKeeps
<1>7. CASE /\ attempts[a] = "starting" /\ UNCHANGED <<run, F!locks, cancelled>>
           /\ attempts' = [attempts EXCEPT ![a] = "cancel_requested"]
  <2>1. F!Moved("cancel") /\ F!Lets("cancel") /\ \A u \in F!Threads : run'[u] = run[u]
    BY <1>7, LiveLockTypes, LiveFacts DEF F!Moved, F!Lets, F!locks, F!Threads
  <2>2. a \notin cancelled BY <1>3, <1>7 DEF F!IInv, F!Shared, F!Ledger
  <2>3. F!Shared' /\ attempts' \in [Starts -> F!Verdicts]
    BY <1>1, <1>3, <1>7, <2>2, LiveAttemptIsShared DEF F!Verdicts
  <2>4. ASSUME NEW u \in F!Threads PROVE F!Eased(u)'
    BY <1>1, <1>3, <1>7, <2>1, LiveAttemptIsEased DEF F!Verdicts
  <2>5. F!Runs("cancel")' BY <1>1, <1>2, <1>7 DEF F!Stands, F!Runs, F!locks
  <2>6. F!Flushed' BY <1>1, <1>2, <2>1, LiveFlushedStays DEF F!Owed
  <2>7. F!Surroundings BY <1>1, <1>7, <2>3 DEF F!Surroundings, F!IInv, F!TypeOK, F!Verdicts
  <2>8. QED BY <1>1, <1>2, <2>1, <2>3, <2>4, <2>5, <2>6, <2>7, LiveChangeKeeps
<1>8. QED BY <1>3, <1>4, <1>5, <1>6, <1>7, SessionAssumption DEF F!CancelLooks, F!Active

-----------------------------------------------------------------------------
(* So does a session that goes on: it accepts a frame, or hands one on, for *)
(* the threads ...                                                          *)
LEMMA LiveSessionIsEased ==
  ASSUME F!IInv, F!GoesOnAs, UNCHANGED <<attempts, wanted, latch, arm, freed, commits>>,
         NEW u \in F!Threads, F!Same(u),
         run[u].pc \in F!Carrying =>
           \/ session'.pending = session.pending /\ session'.commanded = session.commanded
           \/ session.accepted < session'.pending,
         run[u].fin.how = "flushed" => session'.pending \in {session.pending, 0}
  PROVE  F!Eased(u)'
<1>1. F!Stands(u) /\ run[u] \in F!ThreadType /\ run[u].seq \in 0..MaxSeq
  BY LiveFacts DEF F!ThreadType
<1>2. /\ session.accepted \in 0..MaxSeq /\ session'.accepted \in 0..MaxSeq
      /\ session.pending \in 0..MaxSeq /\ session'.pending \in 0..MaxSeq
  BY LiveSessionFacts DEF F!GoesOnAs, F!SessionType
<1>3. session # F!NoSession BY LiveSessionFacts DEF F!GoesOnAs
<1>4. F!Carried(u)'
  <2>1. F!Carried(u) BY <1>1 DEF F!Stands
  <2>2. /\ run[u].pc \in {"vet", "send"} =>
             /\ session'.attempt = run[u].attempt \/ latch' # "no"
             /\ arm'.by = run[u].attempt => arm'.seq < run[u].seq
    BY <2>1 DEF F!Carried, F!GoesOnAs
  <2>3. ASSUME run[u].pc \in F!Carrying, session'.attempt = run[u].attempt
        PROVE  /\ run[u].seq <= session'.accepted
               /\ session'.pending # 0 => run[u].seq < session'.pending
               /\ session'.pending = 0 => run[u].seq = session'.commanded
    <3>1. /\ run[u].seq <= session.accepted
          /\ session.pending # 0 => run[u].seq < session.pending
          /\ session.pending = 0 => run[u].seq = session.commanded
      BY <2>1, <2>3 DEF F!Carried, F!GoesOnAs
    <3>2. run[u].seq <= session'.accepted
      BY <1>1, <1>2, <3>1, SessionAssumption DEF F!GoesOnAs
    <3>3. CASE session'.pending = session.pending /\ session'.commanded = session.commanded
      BY <3>1, <3>2, <3>3
    <3>4. CASE session.accepted < session'.pending
      BY <1>1, <1>2, <3>1, <3>2, <3>4, SessionAssumption
    <3>5. QED BY <2>3, <3>3, <3>4
  <2>4. QED BY <2>2, <2>3 DEF F!Carried, F!Same
<1>5. F!Ending(u)' BY <1>1, <1>3 DEF F!Stands, F!Ending, F!Same, F!GoesOnAs
<1>6. F!Begun(u)' BY <1>1, <1>3 DEF F!Stands, F!Begun, F!Same
<1>7. QED BY <1>4, <1>5, <1>6 DEF F!Eased

(* ... and for the shared state. *)
LEMMA LiveSessionIsShared ==
  ASSUME F!IInv, F!GoesOnAs,
         UNCHANGED <<last, attempts, wanted, latch, arm, freed, commits, cancelled>>
  PROVE  F!Shared'
<1>1. /\ session.accepted \in 0..MaxSeq /\ session'.accepted \in 0..MaxSeq
      /\ session.pending \in 0..MaxSeq /\ session'.pending \in 0..MaxSeq
  BY LiveSessionFacts DEF F!GoesOnAs, F!SessionType
<1>2. session # F!NoSession /\ session' # F!NoSession
  BY LiveSessionFacts, LiveNoSessionType DEF F!GoesOnAs
<1>3. F!Ledger' BY DEF F!IInv, F!Shared, F!Ledger, F!GoesOnAs
<1>4. F!Frames'
  <2>1. arm.seq \in 0..MaxSeq BY DEF F!IInv, F!TypeOK
  <2>2. arm.by # F!NoOne /\ arm.by = session.attempt =>
          arm.seq <= session.accepted /\ (session.pending # 0 => arm.seq < session.pending)
    BY DEF F!IInv, F!Shared, F!Frames
  <2>3. ASSUME arm.by # F!NoOne, arm.by = session.attempt
        PROVE  arm.seq <= session'.accepted
               /\ (session'.pending # 0 => arm.seq < session'.pending)
    BY <1>1, <2>1, <2>2, <2>3, SessionAssumption DEF F!GoesOnAs
  <2>4. QED BY <2>3 DEF F!Frames, F!GoesOnAs
<1>5. F!Freed' BY DEF F!IInv, F!Shared, F!Freed
<1>6. F!StopEndsSession' BY <1>2 DEF F!IInv, F!Shared, F!StopEndsSession
<1>7. F!FlushedIsSent' BY DEF F!IInv, F!Shared, F!FlushedIsSent
<1>8. QED BY <1>3, <1>4, <1>5, <1>6, <1>7 DEF F!Shared

(* A session is active as long as a thread is about it. *)
LEMMA LiveMineIsActive ==
  ASSUME F!IInv, NEW t \in F!Threads, F!Mine(t)
  PROVE  session.attempt = run[t].attempt /\ session.attempt # F!NoOne
BY DEF F!Mine, F!Active

(* A heartbeat renews the lease. *)
LEMMA LiveHeartbeatRenewsKeeps == ASSUME F!IInv, F!HeartbeatRenews PROVE F!IInv'
<1> DEFINE idle == F!Earliest(session.idle, run["hb"].age)
<1>1. /\ run["hb"].pc = "hb" /\ F!Done("hb") /\ session' = [session EXCEPT !.idle = idle]
      /\ session.attempt # F!NoOne
      /\ UNCHANGED <<last, attempts, wanted, latch, arm, stopper, freed, commits, cancelled>>
  BY LiveSessionFacts DEF F!HeartbeatRenews, F!At, F!Active, F!history, F!SessionType
<1>2. "hb" \in F!Threads /\ ~F!Carries("hb") /\ run["hb"] \in F!ThreadType
  BY <1>1, LiveFacts DEF F!Threads, F!Carries, F!Carrying
<1>3. idle \in 0..(Lease + MaxWait)
  <2>1. run["hb"].age \in 0..MaxWait BY <1>2 DEF F!ThreadType
  <2>2. QED BY <2>1, LiveSessionFacts, SessionAssumption DEF F!Earliest
<1> HIDE DEF idle
<1>4. /\ session' \in F!SessionType /\ session'.attempt = session.attempt
      /\ session'.accepted = session.accepted /\ session'.overlong = session.overlong
      /\ session'.pending = session.pending /\ session'.commanded = session.commanded
      /\ session'.sent = session.sent
  BY <1>1, <1>3, LiveSessionFacts DEF F!SessionType
<1>5. F!GoesOnAs
  BY <1>1, <1>4, LiveSessionFacts, SessionAssumption DEF F!GoesOnAs, F!IInv, F!Shared,
     F!Frames
<1>6. F!Shared' BY <1>1, <1>5, LiveSessionIsShared
<1>7. F!Moved("hb") /\ F!Lets("hb") /\ run'["hb"] = F!Idle BY <1>1, <1>2, LiveRests
<1>8. ASSUME NEW u \in F!Threads, u # "hb" PROVE F!Eased(u)'
  <2>1. F!Same(u) BY <1>7, <1>8 DEF F!Moved, F!Same
  <2>2. QED BY <1>1, <1>4, <1>5, <2>1, LiveSessionIsEased
<1>9. F!Runs("hb")' /\ F!Eased("hb")'
  BY <1>7, LiveIdleType DEF F!Runs, F!Fits, F!UnderMotion, F!UnderAuthority, F!Knows,
     F!Eased, F!Carried, F!Ending, F!Begun, F!Starting, F!Dispatching, F!Finishing,
     F!Carrying, F!Threads
<1>10. F!Flushed' BY <1>2, <1>4, <1>7, LiveFlushedStays DEF F!Owed
<1>11. F!Surroundings BY <1>1, <1>4 DEF F!Surroundings, F!IInv, F!TypeOK
<1>12. QED BY <1>1, <1>2, <1>6, <1>7, <1>8, <1>9, <1>10, <1>11, LiveChangeKeeps

(* A place that asks nothing of the session. *)
LEMMA LivePlainIsEased ==
  ASSUME NEW t \in F!Threads, run'[t].pc \in F!Plain PROVE F!Eased(t)'
BY DEF F!Eased, F!Carried, F!Ending, F!Begun, F!Plain, F!Starting, F!Carrying, F!Finishing

(* A frame is taken, or it only renews the lease. *)
LEMMA LiveFrameAcceptedKeeps == ASSUME F!IInv, F!FrameAccepted PROVE F!IInv'
<1> DEFINE n == run["lane"].seq
           idle == F!Earliest(session.idle, run["lane"].age)
<1>1. /\ run["lane"].pc = "frame" /\ F!Done("lane") /\ session.attempt # F!NoOne
      /\ UNCHANGED <<last, attempts, wanted, latch, arm, stopper, freed, commits, cancelled>>
  BY LiveSessionFacts DEF F!FrameAccepted, F!At, F!Active, F!history
<1>2. /\ "lane" \in F!Threads /\ ~F!Carries("lane") /\ run["lane"] \in F!ThreadType
      /\ n \in 0..MaxSeq /\ run["lane"].age \in 0..MaxWait
  BY <1>1, LiveFacts DEF F!Threads, F!Carries, F!Carrying, F!ThreadType
<1>3. CASE UNCHANGED session
  <2>1. UNCHANGED F!rest BY <1>1, <1>3 DEF F!rest, F!history
  <2>2. QED BY <1>1, <1>2, <2>1, LiveRestKeeps
<1>4. ASSUME n > session.accepted, NEW keepalive \in BOOLEAN,
             session' = [session EXCEPT
               !.accepted = n, !.idle = idle,
               !.commanded = IF keepalive THEN session.commanded ELSE n,
               !.pending = IF keepalive THEN session.pending ELSE n]
      PROVE  F!IInv'
  <2> DEFINE commanded == IF keepalive THEN session.commanded ELSE n
             pending == IF keepalive THEN session.pending ELSE n
  <2>1. idle \in 0..(Lease + MaxWait)
    BY <1>2, LiveSessionFacts, SessionAssumption DEF F!Earliest
  <2>2. commanded \in 0..MaxSeq /\ pending \in 0..MaxSeq BY <1>2, LiveSessionFacts
  <2>3. session' = [session EXCEPT !.accepted = n, !.idle = idle, !.commanded = commanded,
                                   !.pending = pending]
    BY <1>4
  <2>4. \/ pending = session.pending /\ commanded = session.commanded
        \/ pending = n /\ commanded = n
    OBVIOUS
  <2> HIDE DEF commanded, pending, idle
  <2>5. /\ session' \in F!SessionType /\ session'.attempt = session.attempt
        /\ session'.accepted = n /\ session'.overlong = session.overlong
        /\ session'.pending = pending /\ session'.commanded = commanded
        /\ session'.sent = session.sent
    BY <1>2, <2>1, <2>2, <2>3, LiveSessionFacts DEF F!SessionType
  <2>6. session.accepted \in Nat /\ session.pending \in Nat /\ n \in Nat
        /\ session.pending <= session.accepted
        /\ (session.pending # 0 => session.pending = session.commanded)
    BY <1>2, LiveSessionFacts, SessionAssumption DEF F!IInv, F!Shared, F!Frames
  <2>7. F!GoesOnAs BY <1>1, <1>4, <2>4, <2>5, <2>6 DEF F!GoesOnAs
  <2>8. F!Shared' BY <1>1, <2>7, LiveSessionIsShared
  <2>9. F!Moved("lane") /\ F!Lets("lane") /\ run'["lane"] = F!Idle BY <1>1, <1>2, LiveRests
  <2>10. ASSUME NEW u \in F!Threads, u # "lane" PROVE F!Eased(u)'
    <3>1. F!Same(u) BY <2>9, <2>10 DEF F!Moved, F!Same
    <3>2. run[u].fin.how # "flushed"
      BY <2>10, LiveFacts DEF F!Stands, F!Runs, F!Fits, F!Threads
    <3>3. QED BY <1>1, <1>4, <2>4, <2>5, <2>7, <3>1, <3>2, LiveSessionIsEased
  <2>11. F!Runs("lane")' /\ F!Eased("lane")'
    BY <2>9, LiveIdleType DEF F!Runs, F!Fits, F!UnderMotion, F!UnderAuthority, F!Knows,
       F!Eased, F!Carried, F!Ending, F!Begun, F!Starting, F!Dispatching, F!Finishing,
       F!Carrying, F!Threads
  <2>12. F!Flushed'
    <3>1. CASE pending = session.pending /\ commanded = session.commanded
      BY <1>2, <2>5, <2>9, <3>1, LiveFlushedStays DEF F!Owed
    <3>2. CASE pending = n
      <4>1. session'.pending # 0 BY <1>4, <2>5, <2>6, <3>2
      <4>2. QED BY <4>1 DEF F!Flushed, F!Owed
    <3>3. QED BY <2>4, <3>1, <3>2
  <2>13. F!Surroundings BY <1>1, <2>5 DEF F!Surroundings, F!IInv, F!TypeOK
  <2>14. QED BY <1>1, <1>2, <2>8, <2>9, <2>10, <2>11, <2>12, <2>13, LiveChangeKeeps
<1>5. QED BY <1>3, <1>4 DEF F!FrameAccepted

(* The joints were read back: a miss is counted, or forgotten. *)
LEMMA LiveMissesKeep ==
  ASSUME F!IInv, NEW t \in F!Threads, run[t].pc = "readback", F!Moved(t), F!Lets(t),
         NEW m \in 0..Tolerance,
         \/ session' = session
         \/ session.attempt # F!NoOne /\ session' = [session EXCEPT !.misses = m],
         UNCHANGED <<last, attempts, wanted, latch, arm, stopper, freed, commits, cancelled>>,
         F!Runs(t)', F!Eased(t)', F!Owed /\ F!Carries(t) => F!Carries(t)'
  PROVE  F!IInv'
<1>1. CASE session' = session
  <2>1. UNCHANGED F!rest BY <1>1 DEF F!rest, F!history
  <2>2. QED BY <2>1, LiveQuietKeeps DEF F!Stands, F!Eased
<1>2. CASE session.attempt # F!NoOne /\ session' = [session EXCEPT !.misses = m]
  <2>1. /\ session' \in F!SessionType /\ session'.attempt = session.attempt
        /\ session'.accepted = session.accepted /\ session'.overlong = session.overlong
        /\ session'.pending = session.pending /\ session'.commanded = session.commanded
        /\ session'.sent = session.sent
    BY <1>2, LiveSessionFacts DEF F!SessionType
  <2>2. F!GoesOnAs
    BY <1>2, <2>1, LiveSessionFacts, SessionAssumption DEF F!GoesOnAs, F!IInv, F!Shared,
       F!Frames
  <2>3. F!Shared' BY <2>2, LiveSessionIsShared
  <2>4. ASSUME NEW u \in F!Threads, u # t PROVE F!Eased(u)'
    <3>1. F!Same(u) BY <2>4 DEF F!Moved, F!Same
    <3>2. QED BY <2>1, <2>2, <3>1, LiveSessionIsEased
  <2>5. F!Flushed' BY <2>1, LiveFlushedStays DEF F!Owed
  <2>6. F!Surroundings BY <2>1 DEF F!Surroundings, F!IInv, F!TypeOK
  <2>7. QED BY <2>3, <2>4, <2>5, <2>6, LiveChangeKeeps
<1>3. QED BY <1>1, <1>2

LEMMA LiveReadbackKeeps == ASSUME F!IInv, NEW t \in F!Threads, F!Readback(t) PROVE F!IInv'
<1>1. /\ run[t].pc = "readback"
      /\ UNCHANGED <<last, attempts, wanted, latch, arm, stopper, freed, commits, cancelled>>
  BY DEF F!Readback, F!At, F!history
<1>2. run[t].pc \in F!Dispatching /\ ~F!Carries(t)
  BY <1>1 DEF F!Dispatching, F!Carries, F!Carrying
<1>3. PICK m \in 0..Tolerance :
        \/ session' = session
        \/ session.attempt # F!NoOne /\ session' = [session EXCEPT !.misses = m]
  <2>1. 0 \in 0..Tolerance /\ Tolerance \in 0..Tolerance BY SessionAssumption
  <2>2. CASE session' = IF F!Mine(t) THEN [session EXCEPT !.misses = 0] ELSE session
    BY <2>1, <2>2, LiveMineIsActive
  <2>3. CASE F!Missed /\ session' = [session EXCEPT !.misses = @ + 1]
    <3>1. session.attempt # F!NoOne BY <2>3 DEF F!Missed, F!Mine, F!Active
    <3>2. session.misses + 1 \in 0..Tolerance
      BY <2>3, LiveSessionFacts, SessionAssumption DEF F!Missed
    <3>3. QED BY <2>3, <3>1, <3>2
  <2>4. CASE session' \in {session, IF F!Mine(t) THEN [session EXCEPT !.misses = Tolerance]
                                    ELSE session}
    BY <2>1, <2>4, LiveMineIsActive
  <2>5. QED BY <2>2, <2>3, <2>4 DEF F!Readback
<1>4. CASE F!Leaves(t)
  <2>1. F!Moved(t) /\ F!Lets(t) /\ run'[t].pc \in {"idle", "conclude"} /\ F!Runs(t)'
    BY <1>1, <1>2, <1>4, LiveLeavesGoes
  <2>2. F!Eased(t)'
    BY <2>1, LivePlainIsEased DEF F!Plain, F!Places, F!Starting, F!Carrying, F!Finishing
  <2>3. QED BY <1>1, <1>2, <1>3, <2>1, <2>2, LiveMissesKeep
<1>5. CASE /\ F!Finish(t, "faulted", FALSE) /\ UNCHANGED authorityLock
           /\ motionLock' = IF run[t].op = "end" THEN motionLock ELSE F!Without(motionLock, t)
  <2>1. /\ F!Moved(t) /\ run'[t].pc = "finish" /\ run'[t].op = run[t].op
        /\ run'[t].attempt = run[t].attempt /\ run'[t].fin.how = "faulted" /\ ~run'[t].fin.lease
    BY <1>5, LiveFinished
  <2>2. F!Lets(t) BY <1>5, LiveLockTypes DEF F!Lets, F!Without
  <2>3. F!Runs(t)'
    BY <1>1, <1>2, <1>5, <2>1, LiveDispatch DEF F!Stands, F!Runs, F!Fits, F!UnderMotion,
       F!UnderAuthority, F!Knows, F!Starting, F!Dispatching, F!Finishing, F!Carrying
  <2>4. F!Eased(t)'
    BY <2>1 DEF F!Eased, F!Carried, F!Ending, F!Begun, F!Starting, F!Carrying
  <2>5. QED BY <1>1, <1>2, <1>3, <2>1, <2>2, <2>3, <2>4, LiveMissesKeep
<1>6. QED BY <1>4, <1>5 DEF F!Readback

(* The frame that waited is on its way. *)
LEMMA LivePopKeeps == ASSUME F!IInv, NEW t \in F!Threads, F!Pop(t) PROVE F!IInv'
<1>1. /\ run[t].pc = "pop" /\ motionLock \in {F!NoOne, t}
      /\ UNCHANGED <<last, attempts, wanted, latch, arm, stopper, freed, commits, cancelled>>
  BY DEF F!Pop, F!At, F!Free, F!history
<1>2. /\ run[t].pc \in F!Dispatching /\ ~F!Carries(t)
  BY <1>1 DEF F!Dispatching, F!Carries, F!Carrying
<1>3. /\ run[t] \in F!ThreadType /\ F!Stands(t) /\ run[t].op \in {"end", "follow"}
      /\ t \in {"lane", "svc"} /\ run[t].attempt \in Starts
      /\ run \in [F!Threads -> F!ThreadType]
      /\ commits[run[t].attempt] = 1
  BY <1>2, LiveDispatch, LiveFacts
<1>4. CASE F!Leaves(t) /\ UNCHANGED session
  <2>1. UNCHANGED F!rest BY <1>1, <1>4 DEF F!rest, F!history
  <2>2. QED BY <1>2, <1>4, <2>1, LiveLeavesKeeps
<1>5. CASE /\ F!Mine(t) /\ session.pending # 0 /\ motionLock' = t
           /\ session' = [session EXCEPT !.pending = 0]
           /\ run' = [run EXCEPT ![t].pc = "vet", ![t].seq = session.pending]
           /\ UNCHANGED authorityLock
  <2>1. session.attempt = run[t].attempt /\ session.attempt # F!NoOne
    BY <1>5, LiveMineIsActive
  <2>2. /\ session' \in F!SessionType /\ session'.attempt = session.attempt
        /\ session'.accepted = session.accepted /\ session'.overlong = session.overlong
        /\ session'.pending = 0 /\ session'.commanded = session.commanded
        /\ session'.sent = session.sent
    <3>1. 0 \in 0..MaxSeq BY SessionAssumption
    <3>2. QED BY <1>5, <3>1, LiveSessionFacts DEF F!SessionType
  <2>3. /\ session.pending <= session.accepted /\ session.pending = session.commanded
        /\ arm.by = session.attempt => arm.seq < session.pending
    BY <1>5, <2>1 DEF F!IInv, F!Shared, F!Frames
  <2>4. F!GoesOnAs BY <2>1, <2>2, LiveSessionFacts, SessionAssumption DEF F!GoesOnAs
  <2>5. F!Shared' BY <1>1, <2>4, LiveSessionIsShared
  <2> DEFINE d == [run[t] EXCEPT !.pc = "vet", !.seq = session.pending]
  <2>6. run' = [run EXCEPT ![t] = d] BY <1>3, <1>5
  <2>7. /\ d \in F!ThreadType /\ d.pc = "vet" /\ d.op = run[t].op /\ d.seq = session.pending
        /\ d.attempt = run[t].attempt /\ d.fin = run[t].fin
    BY <1>3, LiveSessionFacts DEF F!ThreadType
  <2> HIDE DEF d
  <2>8. F!Moved(t) /\ run'[t] = d BY <1>3, <2>6, <2>7 DEF F!Moved
  <2>9. F!Lets(t) BY <1>1, <1>5, LiveLockTypes DEF F!Lets
  <2>10. F!Runs(t)'
    BY <1>1, <1>3, <1>5, <2>7, <2>8 DEF F!Stands, F!Runs, F!Fits, F!UnderMotion,
       F!UnderAuthority, F!Knows, F!Starting, F!Dispatching, F!Finishing, F!Carrying
  <2>11. F!Eased(t)'
    <3>1. F!Carried(t)' BY <1>1, <2>1, <2>2, <2>3, <2>7, <2>8 DEF F!Carried
    <3>2. F!Ending(t)' /\ F!Begun(t)' BY <2>7, <2>8 DEF F!Ending, F!Begun, F!Starting
    <3>3. QED BY <3>1, <3>2 DEF F!Eased
  <2>12. ASSUME NEW u \in F!Threads, u # t PROVE F!Eased(u)'
    <3>1. F!Same(u) BY <2>8, <2>12 DEF F!Moved, F!Same
    <3>2. run[u].pc \notin F!Carrying
      BY <1>1, <2>12, LiveAlone DEF F!Threads, F!NoOne
    <3>3. QED BY <1>1, <2>2, <2>4, <3>1, <3>2, LiveSessionIsEased
  <2>13. F!Carries(t)' BY <1>5, <2>1, <2>2, <2>3, <2>7, <2>8 DEF F!Carries, F!Carrying
  <2>14. F!Flushed' BY <2>13 DEF F!Flushed
  <2>15. F!Surroundings BY <1>1, <2>2 DEF F!Surroundings, F!IInv, F!TypeOK
  <2>16. QED BY <1>1, <2>5, <2>8, <2>9, <2>10, <2>11, <2>12, <2>14, <2>15, LiveChangeKeeps
<1>6. QED BY <1>4, <1>5 DEF F!Pop

(* FOLLOW_SET: the controller has the newest frame of the session. *)
LEMMA LiveSendFollowKeeps == ASSUME F!IInv, NEW t \in F!Threads, F!SendFollow(t) PROVE F!IInv'
<1>1. /\ run[t].pc = "send" /\ UNCHANGED F!locks
      /\ UNCHANGED <<session, last, attempts, wanted, latch, stopper, freed, commits, cancelled>>
  BY DEF F!SendFollow, F!At, F!history
<1>2. run[t].pc \in F!Dispatching BY <1>1 DEF F!Dispatching
<1>3. /\ run[t] \in F!ThreadType /\ F!Stands(t) /\ run[t].op \in {"end", "follow"}
      /\ t \in {"lane", "svc"} /\ run[t].attempt \in Starts /\ commits[run[t].attempt] = 1
      /\ motionLock = t /\ motionLock' = t
  BY <1>1, <1>2, LiveDispatch, LiveAlone DEF F!Carrying, F!locks
<1>4. F!Lets(t) BY <1>1, LiveLockTypes DEF F!Lets, F!locks
<1>5. CASE F!Finish(t, "faulted", FALSE) /\ UNCHANGED arm
  <2>1. UNCHANGED F!rest BY <1>1, <1>5 DEF F!rest, F!history
  <2>2. QED BY <1>3, <1>4, <1>5, <2>1, LiveFinishKeeps
<1>6. CASE /\ arm' = [arm EXCEPT !.by = run[t].attempt, !.seq = run[t].seq]
           /\ F!Goto(t, "sent") \/ F!Finish(t, "faulted", FALSE)
  <2>1. /\ arm' \in [held : BOOLEAN, stopped : BOOLEAN, by : F!Ids, seq : 0..MaxSeq]
        /\ arm'.by = run[t].attempt /\ arm'.seq = run[t].seq /\ arm'.held = arm.held
    BY <1>3, <1>6 DEF F!IInv, F!TypeOK, F!ThreadType, F!Ids
  <2>2. /\ F!Moved(t) /\ run'[t].pc \in {"sent", "finish"} /\ run'[t].op = run[t].op
        /\ run'[t].attempt = run[t].attempt
        /\ run'[t].pc = "sent" => run'[t].seq = run[t].seq /\ run'[t].fin = run[t].fin
        /\ run'[t].pc = "finish" => run'[t].fin.how = "faulted" /\ ~run'[t].fin.lease
    <3>1. CASE F!Goto(t, "sent") BY <3>1, LiveWent DEF F!Places
    <3>2. CASE F!Finish(t, "faulted", FALSE) BY <3>2, LiveFinished
    <3>3. QED BY <1>6, <3>1, <3>2
  <2>3. F!Runs(t)'
    BY <1>1, <1>3, <2>2 DEF F!Stands, F!Runs, F!Fits, F!UnderMotion, F!UnderAuthority,
       F!Knows, F!Starting, F!Dispatching, F!Finishing, F!Carrying
  <2>4. /\ session.attempt = run[t].attempt =>
             /\ run[t].seq <= session.accepted
             /\ session.pending # 0 => run[t].seq < session.pending
             /\ session.pending = 0 => run[t].seq = session.commanded
    BY <1>1, <1>3 DEF F!Stands, F!Carried, F!Carrying
  <2>5. F!Eased(t)'
    <3>1. F!Carried(t)' BY <1>1, <2>2, <2>4 DEF F!Carried, F!Carrying
    <3>2. F!Ending(t)' /\ F!Begun(t)' BY <2>2 DEF F!Ending, F!Begun, F!Starting
    <3>3. QED BY <3>1, <3>2 DEF F!Eased
  <2>6. ASSUME NEW u \in F!Threads, u # t PROVE F!Eased(u)'
    <3>1. run'[u] = run[u] /\ F!Stands(u) BY <2>2, <2>6, LiveFacts DEF F!Moved
    <3>2. run[u].pc \notin F!Carrying BY <1>3, <2>6, LiveAlone
    <3>3. F!Carried(u)' BY <3>1, <3>2 DEF F!Carried, F!Carrying
    <3>4. F!Ending(u)' /\ F!Begun(u)' BY <1>1, <3>1 DEF F!Stands, F!Ending, F!Begun
    <3>5. QED BY <3>3, <3>4 DEF F!Eased
  <2>7. F!Shared'
    <3>1. F!Ledger' BY <1>1, <1>3, <2>1 DEF F!IInv, F!Shared, F!Ledger
    <3>2. F!Freed' BY <1>1, <2>1 DEF F!IInv, F!Shared, F!Freed
    <3>3. F!Frames' BY <1>1, <2>1, <2>4 DEF F!IInv, F!Shared, F!Frames
    <3>4. QED BY <1>1, <3>1, <3>2, <3>3 DEF F!IInv, F!Shared, F!StopEndsSession,
         F!FlushedIsSent
  <2>8. F!Owed /\ F!Carries(t) => F!Carries(t)'
    BY <1>1, <1>3, <2>2, <2>4 DEF F!Carries, F!Carrying, F!Owed
  <2>9. F!Flushed' BY <1>1, <1>4, <2>2, <2>8, LiveFlushedStays DEF F!Owed
  <2>10. F!Surroundings BY <1>1, <2>1 DEF F!Surroundings, F!IInv, F!TypeOK
  <2>11. QED BY <1>1, <1>4, <2>2, <2>3, <2>5, <2>6, <2>7, <2>9, <2>10, LiveChangeKeeps
<1>7. QED BY <1>5, <1>6 DEF F!SendFollow

(* The frame was carried out: of the active session, it is the newest or    *)
(* another one waits.                                                       *)
LEMMA LiveSentKeeps == ASSUME F!IInv, NEW t \in F!Threads, F!Sent(t) PROVE F!IInv'
<1>1. /\ run[t].pc = "sent" /\ F!Leaves(t)
      /\ UNCHANGED <<last, attempts, wanted, latch, arm, stopper, freed, commits, cancelled>>
  BY DEF F!Sent, F!At, F!history
<1>2. run[t].pc \in F!Dispatching BY <1>1 DEF F!Dispatching
<1>3. /\ run[t] \in F!ThreadType /\ F!Stands(t) /\ run[t].attempt \in Starts /\ motionLock = t
      /\ run[t].attempt # F!NoOne
  BY <1>1, <1>2, LiveDispatch, LiveAlone, SessionAssumption DEF F!Carrying
<1>4. F!Moved(t) /\ F!Lets(t) /\ run'[t].pc \in {"idle", "conclude"} /\ F!Runs(t)'
  BY <1>1, <1>2, LiveLeavesGoes
<1>5. F!Eased(t)'
  BY <1>4, LivePlainIsEased DEF F!Plain, F!Places, F!Starting, F!Carrying, F!Finishing
<1>6. CASE session.attempt # run[t].attempt
  <2>1. session' = session BY <1>6 DEF F!Sent, F!Mine, F!Active
  <2>2. UNCHANGED F!rest BY <1>1, <2>1 DEF F!rest, F!history
  <2>3. ~F!Carries(t) BY <1>6 DEF F!Carries
  <2>4. QED BY <1>1, <1>2, <2>2, <2>3, LiveLeavesKeeps
<1>7. CASE session.attempt = run[t].attempt
  <2>1. session' = [session EXCEPT !.sent = run[t].seq, !.misses = 0]
    BY <1>3, <1>7 DEF F!Sent, F!Mine, F!Active
  <2>2. /\ session' \in F!SessionType /\ session'.attempt = session.attempt
        /\ session'.accepted = session.accepted /\ session'.overlong = session.overlong
        /\ session'.pending = session.pending /\ session'.commanded = session.commanded
        /\ session'.sent = run[t].seq
    <3>1. 0 \in 0..Tolerance /\ run[t].seq \in 0..MaxSeq
      BY <1>3, SessionAssumption DEF F!ThreadType
    <3>2. QED BY <2>1, <3>1, LiveSessionFacts DEF F!SessionType
  <2>3. session.pending = 0 => run[t].seq = session.commanded
    BY <1>1, <1>3, <1>7 DEF F!Stands, F!Carried, F!Carrying
  <2>4. F!Flushed' BY <2>2, <2>3 DEF F!Flushed, F!Owed
  <2>5. F!GoesOnAs
    BY <1>3, <1>7, <2>2, LiveSessionFacts, SessionAssumption DEF F!GoesOnAs, F!IInv,
       F!Shared, F!Frames
  <2>6. F!Shared' BY <1>1, <2>5, LiveSessionIsShared
  <2>7. ASSUME NEW u \in F!Threads, u # t PROVE F!Eased(u)'
    <3>1. F!Same(u) BY <1>4, <2>7 DEF F!Moved, F!Same
    <3>2. QED BY <1>1, <2>2, <2>5, <3>1, LiveSessionIsEased
  <2>8. F!Surroundings BY <1>1, <2>2 DEF F!Surroundings, F!IInv, F!TypeOK
  <2>9. QED BY <1>1, <1>4, <1>5, <2>4, <2>6, <2>7, <2>8, LiveChangeKeeps
<1>8. QED BY <1>6, <1>7

-----------------------------------------------------------------------------
(* The service thread recovers an automatic stop: the intent first. *)
LEMMA LiveRecoverKeeps == ASSUME F!IInv, F!Recover PROVE F!IInv'
<1>1. /\ run["svc"].pc = "recover"
      /\ UNCHANGED <<session, last, attempts, latch, arm, stopper, freed, commits, cancelled>>
  BY DEF F!Recover, F!At, F!history
<1>2. /\ "svc" \in F!Threads /\ ~F!Carries("svc") /\ run["svc"] \in F!ThreadType
      /\ F!Stands("svc")
  BY <1>1, LiveFacts DEF F!Threads, F!Carries, F!Carrying
<1>3. CASE F!Done("svc") /\ UNCHANGED wanted
  <2>1. UNCHANGED F!rest BY <1>1, <1>3 DEF F!rest, F!history
  <2>2. QED BY <1>2, <1>3, <2>1, LiveRestKeeps
<1>4. CASE /\ motionLock = F!NoOne /\ authorityLock = F!NoOne /\ wanted' = FALSE
           /\ motionLock' = "svc" /\ authorityLock' = "svc" /\ F!Goto("svc", "reset")
  <2>1. /\ F!Moved("svc") /\ run'["svc"].pc = "reset" /\ run'["svc"].op = run["svc"].op
        /\ run'["svc"].attempt = run["svc"].attempt /\ run'["svc"].fin = run["svc"].fin
    BY <1>2, <1>4, LiveWent DEF F!Places
  <2>2. F!Lets("svc") BY <1>4, LiveLockTypes DEF F!Lets, F!Threads
  <2>3. F!Runs("svc")'
    BY <1>1, <1>2, <1>4, <2>1 DEF F!Stands, F!Runs, F!Fits, F!UnderMotion, F!UnderAuthority,
       F!Knows, F!Starting, F!Dispatching, F!Finishing, F!Carrying
  <2>4. F!HatKeepsFrame BY <1>1 DEF F!HatKeepsFrame, F!IInv, F!TypeOK
  <2>5. ASSUME NEW u \in F!Threads, u # "svc" PROVE F!Eased(u)'
    <3>1. run'[u] = run[u] /\ F!Stands(u) BY <2>1, <2>5, LiveFacts DEF F!Moved
    <3>2. run[u].pc \in {"hold", "renew"} => ~freed' BY <1>1, <3>1 DEF F!Stands, F!Begun
    <3>3. QED BY <1>1, <1>4, <2>4, <3>1, <3>2, LiveHatIsEased
  <2>6. F!Eased("svc")'
    BY <2>1 DEF F!Eased, F!Carried, F!Ending, F!Begun, F!Starting, F!Carrying
  <2>7. F!Freed' BY <1>1, <1>4 DEF F!IInv, F!Shared, F!Freed
  <2>8. F!Shared' BY <1>1, <2>4, <2>7, LiveHatIsShared
  <2>9. F!Flushed' BY <1>1, <1>2, <2>1, <2>2, LiveFlushedStays DEF F!Owed
  <2>10. F!Surroundings BY <1>1, <1>4 DEF F!Surroundings, F!IInv, F!TypeOK
  <2>11. QED BY <1>1, <1>2, <2>1, <2>2, <2>3, <2>5, <2>6, <2>8, <2>9, <2>10, LiveChangeKeeps
<1>5. QED BY <1>3, <1>4 DEF F!Recover

(* A thread ends its exchange with the controller. *)
LEMMA LiveExchangeKeeps ==
  ASSUME F!IInv, NEW t \in F!Threads, F!Done(t), run[t].pc \in {"reset", "renew", "clearEnds"},
         UNCHANGED <<session, last, attempts, wanted, stopper, freed, commits, cancelled>>,
         F!HatKeepsFrame, freed => ~arm'.held,
         latch' = latch \/ (latch' = "no" /\ motionLock = t)
  PROVE  F!IInv'
<1>1. F!Moved(t) /\ F!Lets(t) /\ run'[t] = F!Idle BY LiveRests
<1>2. F!Runs(t)' /\ F!Eased(t)'
  BY <1>1, LiveIdleType DEF F!Runs, F!Fits, F!UnderMotion, F!UnderAuthority, F!Knows,
     F!Eased, F!Carried, F!Ending, F!Begun, F!Starting, F!Dispatching, F!Finishing,
     F!Carrying, F!Threads
<1>3. ASSUME NEW u \in F!Threads, u # t PROVE F!Eased(u)'
  <2>1. run'[u] = run[u] /\ F!Stands(u) BY <1>1, <1>3, LiveFacts DEF F!Moved
  <2>2. run[u].pc \in {"hold", "renew"} => ~freed' BY <2>1 DEF F!Stands, F!Begun
  <2>3. latch' = latch \/ run[u].pc \notin {"vet", "send"}
    BY <1>3, LiveNobodyElse DEF F!Carrying
  <2>4. QED BY <2>1, <2>2, <2>3, LiveHatIsEased
<1>4. F!Freed' BY DEF F!IInv, F!Shared, F!Freed
<1>5. F!Shared' BY <1>4, LiveHatIsShared
<1>6. ~F!Carries(t) BY DEF F!Carries, F!Carrying
<1>7. F!Flushed' BY <1>1, <1>6, LiveFlushedStays DEF F!Owed
<1>8. F!Surroundings BY DEF F!Surroundings, F!IInv, F!TypeOK, F!HatKeepsFrame
<1>9. QED BY <1>1, <1>2, <1>3, <1>5, <1>7, <1>8, LiveChangeKeeps

LEMMA LiveRecoverResetsKeeps == ASSUME F!IInv, F!RecoverResets PROVE F!IInv'
<1>1. /\ run["svc"].pc = "reset" /\ F!Done("svc") /\ "svc" \in F!Threads
      /\ UNCHANGED <<session, last, attempts, wanted, latch, stopper, freed, commits, cancelled>>
  BY DEF F!RecoverResets, F!At, F!history, F!Threads
<1>2. run["svc"].raced \in BOOLEAN BY <1>1, LiveFacts DEF F!ThreadType
<1>3. F!HatKeepsFrame /\ arm'.held = arm.held
  <2>1. arm \in [held : BOOLEAN, stopped : BOOLEAN, by : F!Ids, seq : 0..MaxSeq]
    BY DEF F!IInv, F!TypeOK
  <2>2. arm' = arm \/ arm' = [arm EXCEPT !.stopped = run["svc"].raced]
    BY DEF F!RecoverResets
  <2>3. QED BY <1>2, <2>1, <2>2 DEF F!HatKeepsFrame
<1>4. freed => ~arm'.held BY <1>3 DEF F!IInv, F!Shared, F!Freed
<1>5. QED BY <1>1, <1>3, <1>4, LiveExchangeKeeps

LEMMA LiveRenewSendsKeeps == ASSUME F!IInv, F!RenewSends PROVE F!IInv'
<1>1. /\ run["svc"].pc = "renew" /\ F!Done("svc") /\ "svc" \in F!Threads
      /\ UNCHANGED <<session, last, attempts, wanted, latch, stopper, freed, commits, cancelled>>
  BY DEF F!RenewSends, F!At, F!history, F!Threads
<1>2. PICK o \in F!HoldSets(TRUE) : arm' = o[2] BY DEF F!RenewSends
<1>3. F!HatKeepsFrame BY <1>2, LiveHoldSetsRelease DEF F!HatKeepsFrame
<1>4. ~freed BY <1>1, LiveFacts DEF F!Stands, F!Begun
<1>5. QED BY <1>1, <1>3, <1>4, LiveExchangeKeeps

(* The lane in a clear. *)
LEMMA LiveLaneInClear ==
  ASSUME F!IInv, run["lane"].pc \in {"clear", "clearEnds"}
  PROVE  /\ run["lane"] \in F!ThreadType /\ F!Stands("lane") /\ "lane" \in F!Threads
         /\ run["lane"].op = "clear" /\ motionLock = "lane" /\ authorityLock = "lane"
         /\ ~F!Carries("lane")
<1>1. run["lane"] \in F!ThreadType /\ F!Stands("lane") /\ "lane" \in F!Threads
  BY LiveFacts DEF F!Threads
<1>2. run["lane"].op = "clear"
  BY <1>1 DEF F!Stands, F!Runs, F!Fits, F!Starting, F!Dispatching, F!Finishing, F!ThreadType
<1>3. QED BY <1>1, <1>2 DEF F!Stands, F!Runs, F!UnderMotion, F!UnderAuthority, F!Carries,
     F!Carrying

LEMMA LiveClearBeginsKeeps == ASSUME F!IInv, F!ClearBegins PROVE F!IInv'
<1>1. /\ run["lane"].pc = "clear" /\ wanted' = FALSE /\ UNCHANGED F!locks
      /\ UNCHANGED <<session, last, attempts, latch, arm, stopper, freed, commits, cancelled>>
  BY DEF F!ClearBegins, F!At, F!history
<1>2. /\ run["lane"] \in F!ThreadType /\ F!Stands("lane") /\ "lane" \in F!Threads
      /\ run["lane"].op = "clear" /\ ~F!Carries("lane") /\ run \in [F!Threads -> F!ThreadType]
  BY <1>1, LiveLaneInClear, LiveFacts
<1> DEFINE d == [run["lane"] EXCEPT !.pc = "clearEnds", !.raced = FALSE]
<1>3. run' = [run EXCEPT !["lane"] = d] BY <1>2 DEF F!ClearBegins
<1>4. /\ d \in F!ThreadType /\ d.pc = "clearEnds" /\ d.op = run["lane"].op
      /\ d.attempt = run["lane"].attempt /\ d.fin = run["lane"].fin
  BY <1>2 DEF F!ThreadType
<1> HIDE DEF d
<1>5. F!Moved("lane") /\ run'["lane"] = d BY <1>2, <1>3, <1>4 DEF F!Moved
<1>6. F!Lets("lane") BY <1>1, LiveLockTypes DEF F!Lets, F!locks
<1>7. F!Runs("lane")'
  BY <1>1, <1>2, <1>4, <1>5 DEF F!Stands, F!Runs, F!Fits, F!UnderMotion, F!UnderAuthority,
     F!Knows, F!Starting, F!Dispatching, F!Finishing, F!Carrying, F!locks
<1>8. F!HatKeepsFrame BY <1>1 DEF F!HatKeepsFrame, F!IInv, F!TypeOK
<1>9. ASSUME NEW u \in F!Threads, u # "lane" PROVE F!Eased(u)'
  <2>1. run'[u] = run[u] /\ F!Stands(u) BY <1>5, <1>9, LiveFacts DEF F!Moved
  <2>2. run[u].pc \in {"hold", "renew"} => ~freed' BY <1>1, <2>1 DEF F!Stands, F!Begun
  <2>3. QED BY <1>1, <1>8, <2>1, <2>2, LiveHatIsEased
<1>10. F!Eased("lane")'
  BY <1>4, <1>5 DEF F!Eased, F!Carried, F!Ending, F!Begun, F!Starting, F!Carrying
<1>11. F!Freed' BY <1>1 DEF F!IInv, F!Shared, F!Freed
<1>12. F!Shared' BY <1>1, <1>8, <1>11, LiveHatIsShared
<1>13. F!Flushed' BY <1>1, <1>2, <1>5, <1>6, LiveFlushedStays DEF F!Owed
<1>14. F!Surroundings BY <1>1 DEF F!Surroundings, F!IInv, F!TypeOK
<1>15. QED BY <1>1, <1>2, <1>5, <1>6, <1>7, <1>9, <1>10, <1>12, <1>13, <1>14,
     LiveChangeKeeps

LEMMA LiveClearEndsKeeps == ASSUME F!IInv, F!ClearEnds PROVE F!IInv'
<1>1. /\ run["lane"].pc = "clearEnds" /\ F!Done("lane") /\ "lane" \in F!Threads
      /\ UNCHANGED <<session, last, attempts, wanted, stopper, freed, commits, cancelled>>
  BY DEF F!ClearEnds, F!At, F!history, F!Threads
<1>2. motionLock = "lane" BY <1>1, LiveLaneInClear
<1>3. /\ F!HatKeepsFrame /\ arm'.held = arm.held
      /\ latch' = latch \/ latch' = "no"
  <2>1. arm \in [held : BOOLEAN, stopped : BOOLEAN, by : F!Ids, seq : 0..MaxSeq]
    BY DEF F!IInv, F!TypeOK
  <2>2. arm' = arm \/ arm' = [arm EXCEPT !.stopped = FALSE] BY DEF F!ClearEnds
  <2>3. latch' = latch \/ latch' = "no" BY DEF F!ClearEnds
  <2>4. QED BY <2>1, <2>2, <2>3 DEF F!HatKeepsFrame
<1>4. freed => ~arm'.held BY <1>3 DEF F!IInv, F!Shared, F!Freed
<1>5. QED BY <1>1, <1>2, <1>3, <1>4, LiveExchangeKeeps

-----------------------------------------------------------------------------
(* Steps beside the threads: STOP, time and the controller.                 *)

(* A step in which every thread stays at its place needs only that each *)
(* still stands on what it did.                                         *)
LEMMA LiveStandStill ==
  ASSUME F!IInv, run' \in [F!Threads -> F!ThreadType], UNCHANGED <<F!locks, commits>>,
         F!Surroundings,
         \A u \in F!Threads : F!Same(u) /\ F!Eased(u)', F!Shared', F!Flushed'
  PROVE  F!IInv'
<1>1. motionLock' = motionLock /\ authorityLock' = authorityLock /\ commits' = commits
  BY DEF F!locks
<1>2. ASSUME NEW u \in F!Threads PROVE F!Runs(u)'
  <2>1. F!Runs(u) /\ F!Same(u) BY LiveFacts DEF F!Stands
  <2>2. F!Fits(u, run'[u]) BY <2>1 DEF F!Runs, F!Fits, F!Same
  <2>3. /\ F!UnderMotion(run'[u]) => F!UnderMotion(run[u])
        /\ F!UnderAuthority(run'[u]) => F!UnderAuthority(run[u])
        /\ F!Knows(run'[u]) => F!Knows(run[u])
    BY <2>1 DEF F!UnderMotion, F!UnderAuthority, F!Knows, F!Same
  <2>4. QED BY <1>1, <2>1, <2>2, <2>3 DEF F!Runs, F!Same
<1>3. \A u \in F!Threads : F!Stands(u)' BY <1>2 DEF F!Stands, F!Eased
<1>4. F!TypeOK' BY <1>1, LiveLockTypes DEF F!TypeOK, F!Surroundings
<1>5. QED BY <1>3, <1>4 DEF F!IInv

(* A thread is marked or ages, or stays as it is. *)
LEMMA LiveStood ==
  ASSUME F!IInv, UNCHANGED run
  PROVE  run' \in [F!Threads -> F!ThreadType] /\ \A u \in F!Threads : F!Same(u)
         /\ run'[u] = run[u]
BY DEF F!IInv, F!TypeOK, F!Same

(* Marking the threads that sampled the STOP counter moves none of them. *)
LEMMA LiveMarked ==
  ASSUME F!IInv, NEW f \in [F!Threads -> BOOLEAN],
         run' = [t \in F!Threads |-> [run[t] EXCEPT !.raced = f[t]]]
  PROVE  run' \in [F!Threads -> F!ThreadType] /\ \A u \in F!Threads : F!Same(u)
<1>1. ASSUME NEW u \in F!Threads PROVE run'[u] \in F!ThreadType /\ F!Same(u)
  <2>1. run[u] \in F!ThreadType BY <1>1, LiveFacts
  <2> DEFINE d == [run[u] EXCEPT !.raced = f[u]]
  <2>2. run'[u] = d OBVIOUS
  <2>3. /\ d \in F!ThreadType /\ d.pc = run[u].pc /\ d.op = run[u].op
        /\ d.attempt = run[u].attempt /\ d.seq = run[u].seq /\ d.fin = run[u].fin
    BY <2>1 DEF F!ThreadType
  <2>4. QED BY <2>2, <2>3 DEF F!Same
<1>2. QED BY <1>1

(* Nor does the time that passes for an input that waits. *)
LEMMA LiveAged ==
  ASSUME F!IInv, NEW f \in [F!Threads -> 0..MaxWait],
         run' = [t \in F!Threads |-> IF F!OnTheClock(t) THEN [run[t] EXCEPT !.age = f[t]] ELSE run[t]]
  PROVE  run' \in [F!Threads -> F!ThreadType] /\ \A u \in F!Threads : F!Same(u)
<1>1. ASSUME NEW u \in F!Threads PROVE run'[u] \in F!ThreadType /\ F!Same(u)
  <2>1. run[u] \in F!ThreadType BY <1>1, LiveFacts
  <2> DEFINE d == [run[u] EXCEPT !.age = f[u]]
  <2>2. run'[u] = d \/ run'[u] = run[u] OBVIOUS
  <2>3. /\ d \in F!ThreadType /\ d.pc = run[u].pc /\ d.op = run[u].op
        /\ d.attempt = run[u].attempt /\ d.seq = run[u].seq /\ d.fin = run[u].fin
    BY <2>1 DEF F!ThreadType
  <2> HIDE DEF d
  <2>4. QED BY <2>1, <2>2, <2>3 DEF F!Same
<1>2. QED BY <1>1

LEMMA LiveStopLatchesKeeps == ASSUME F!IInv, F!StopLatches PROVE F!IInv'
<1>1. /\ session' = F!NoSession /\ wanted' = FALSE /\ arm' = arm /\ stopper' = "send"
      /\ latch' # "no" /\ latch' \in {"no", "explicit", "unknown"}
      /\ UNCHANGED <<attempts, F!locks, freed, commits, cancelled>>
  BY DEF F!StopLatches, F!history, F!IInv, F!TypeOK
<1> DEFINE f == [t \in F!Threads |-> run[t].raced \/ run[t].pc \in F!Sampled]
<1>2. run' \in [F!Threads -> F!ThreadType] /\ \A u \in F!Threads : F!Same(u)
  <2>1. f \in [F!Threads -> BOOLEAN] BY Zenon
  <2>2. run' = [t \in F!Threads |-> [run[t] EXCEPT !.raced = f[t]]]
    <3>1. ASSUME NEW t \in F!Threads
          PROVE  [run[t] EXCEPT !.raced = @ \/ run[t].pc \in F!Sampled] = [run[t] EXCEPT !.raced = f[t]]
      BY <3>1, Zenon
    <3>2. QED BY <3>1, Zenon DEF F!StopLatches
  <2> HIDE DEF f
  <2>3. QED BY <2>1, <2>2, LiveMarked
<1>3. last' = last \/ last' = F!Receipt("stopped") BY DEF F!StopLatches
<1>4. last' = last \/ (last'.attempt = session.attempt /\ (last'.flushed => ~last'.owed))
  BY <1>3, LiveReceiptIsTrue
<1>5. last' \in [attempt : F!Ids, flushed : BOOLEAN, owed : BOOLEAN]
  BY <1>3, LiveReceiptIsTrue DEF F!IInv, F!TypeOK
<1>6. F!Shared' /\ F!Flushed' BY <1>1, <1>4, LiveGoneIsShared
<1>7. \A u \in F!Threads : F!Eased(u)' BY <1>1, <1>2, LiveGoneIsEased
<1>8. F!Surroundings BY <1>1, <1>5, LiveNoSessionType DEF F!Surroundings, F!IInv, F!TypeOK
<1>9. QED BY <1>1, <1>2, <1>6, <1>7, <1>8, LiveStandStill DEF F!locks

LEMMA LiveStopSentKeeps == ASSUME F!IInv, F!StopSent PROVE F!IInv'
<1>1. /\ UNCHANGED <<session, last, attempts, F!locks, run, freed, commits, cancelled>>
      /\ stopper' = "idle" /\ wanted' \in {wanted, FALSE}
      /\ latch' = latch \/ latch' = "unknown"
  BY DEF F!StopSent, F!history
<1>2. F!HatKeepsFrame /\ (arm'.held => arm.held)
  <2>1. arm \in [held : BOOLEAN, stopped : BOOLEAN, by : F!Ids, seq : 0..MaxSeq]
    BY DEF F!IInv, F!TypeOK
  <2>2. arm' = arm \/ arm' = [arm EXCEPT !.held = FALSE, !.stopped = TRUE] BY DEF F!StopSent
  <2>3. QED BY <2>1, <2>2 DEF F!HatKeepsFrame
<1>3. run' \in [F!Threads -> F!ThreadType] /\ \A u \in F!Threads : F!Same(u) /\ run'[u] = run[u]
  BY <1>1, LiveStood
<1>4. wanted' => wanted BY <1>1
<1>5. \A u \in F!Threads : F!Eased(u)'
  <2>1. ASSUME NEW u \in F!Threads PROVE F!Eased(u)'
    <3>1. run[u].pc \in {"hold", "renew"} => ~freed'
      BY <1>1, LiveFacts DEF F!Stands, F!Begun
    <3>2. QED BY <1>1, <1>2, <1>3, <1>4, <3>1, LiveHatIsEased
  <2>2. QED BY <2>1
<1>6. F!Freed' BY <1>1, <1>2, <1>4 DEF F!IInv, F!Shared, F!Freed
<1>7. F!Shared' BY <1>1, <1>2, <1>6, LiveHatIsShared
<1>8. F!Flushed' BY <1>1 DEF F!IInv, F!Flushed, F!Owed, F!Carries, F!locks
<1>9. F!Surroundings BY <1>1, <1>2 DEF F!Surroundings, F!IInv, F!TypeOK, F!HatKeepsFrame
<1>10. QED BY <1>1, <1>3, <1>5, <1>7, <1>8, <1>9, LiveStandStill

LEMMA LiveHatLapsesKeeps == ASSUME F!IInv, F!HatLapses PROVE F!IInv'
<1>1. UNCHANGED <<session, last, attempts, wanted, latch, F!locks, run, stopper, freed, commits,
                  cancelled>>
  BY DEF F!HatLapses, F!history
<1>2. F!HatKeepsFrame /\ ~arm'.held
  <2>1. arm \in [held : BOOLEAN, stopped : BOOLEAN, by : F!Ids, seq : 0..MaxSeq]
    BY DEF F!IInv, F!TypeOK
  <2>2. PICK stops \in BOOLEAN : arm' = [arm EXCEPT !.held = FALSE, !.stopped = stops]
    BY DEF F!HatLapses
  <2>3. QED BY <2>1, <2>2 DEF F!HatKeepsFrame
<1>3. run' \in [F!Threads -> F!ThreadType] /\ \A u \in F!Threads : F!Same(u) /\ run'[u] = run[u]
  BY <1>1, LiveStood
<1>4. \A u \in F!Threads : F!Eased(u)'
  <2>1. ASSUME NEW u \in F!Threads PROVE F!Eased(u)'
    <3>1. run[u].pc \in {"hold", "renew"} => ~freed'
      BY <1>1, LiveFacts DEF F!Stands, F!Begun
    <3>2. QED BY <1>1, <1>2, <1>3, <3>1, LiveHatIsEased
  <2>2. QED BY <2>1
<1>5. F!Freed' BY <1>1, <1>2 DEF F!IInv, F!Shared, F!Freed
<1>6. F!Shared' BY <1>1, <1>2, <1>5, LiveHatIsShared
<1>7. F!Flushed' BY <1>1 DEF F!IInv, F!Flushed, F!Owed, F!Carries, F!locks
<1>8. F!Surroundings BY <1>1, <1>2 DEF F!Surroundings, F!IInv, F!TypeOK, F!HatKeepsFrame
<1>9. QED BY <1>1, <1>3, <1>4, <1>6, <1>7, <1>8, LiveStandStill

(* The session only grows older. *)
LEMMA LiveSessionAges ==
  ASSUME F!IInv, run' \in [F!Threads -> F!ThreadType], \A u \in F!Threads : F!Same(u),
         session # F!NoSession, NEW n \in 0..(Lease + MaxWait), NEW long \in BOOLEAN,
         session.overlong => long, session' = [session EXCEPT !.idle = n, !.overlong = long],
         UNCHANGED <<last, attempts, wanted, latch, arm, F!locks, stopper, freed, commits, cancelled>>
  PROVE  F!IInv'
<1>1. /\ session' \in F!SessionType /\ session'.attempt = session.attempt
      /\ session'.accepted = session.accepted /\ session'.overlong = long
      /\ session'.pending = session.pending /\ session'.commanded = session.commanded
      /\ session'.sent = session.sent
  BY LiveSessionFacts DEF F!SessionType
<1>2. F!GoesOnAs
  BY <1>1, LiveSessionFacts, SessionAssumption DEF F!GoesOnAs, F!IInv, F!Shared, F!Frames
<1>3. F!Shared' BY <1>2, LiveSessionIsShared
<1>4. \A u \in F!Threads : F!Eased(u)' BY <1>1, <1>2, LiveSessionIsEased
<1>5. F!Flushed' BY <1>1 DEF F!IInv, F!Flushed, F!Owed, F!Carries, F!locks, F!Same
<1>6. F!Surroundings BY <1>1 DEF F!Surroundings, F!IInv, F!TypeOK
<1>7. QED BY <1>3, <1>4, <1>5, <1>6, LiveStandStill

LEMMA LiveSessionTooLongKeeps == ASSUME F!IInv, F!SessionTooLong PROVE F!IInv'
<1>1. run' \in [F!Threads -> F!ThreadType] /\ \A u \in F!Threads : F!Same(u)
  BY LiveStood DEF F!SessionTooLong
<1>2. session' = [session EXCEPT !.idle = session.idle, !.overlong = TRUE]
  <2>1. session \in F!SessionType BY LiveSessionFacts
  <2>2. QED BY <2>1 DEF F!SessionTooLong, F!SessionType
<1>3. QED BY <1>1, <1>2, LiveSessionFacts, LiveSessionAges DEF F!SessionTooLong, F!history

LEMMA LiveTimePassesKeeps == ASSUME F!IInv, F!TimePasses PROVE F!IInv'
<1> DEFINE f == [t \in F!Threads |-> IF F!OnTheClock(t) THEN run[t].age + 1 ELSE 0]
           n == F!Earliest(session.idle + 1, Lease + MaxWait)
<1>1. run' \in [F!Threads -> F!ThreadType] /\ \A u \in F!Threads : F!Same(u)
  <2>1. f \in [F!Threads -> 0..MaxWait]
    <3>1. ASSUME NEW t \in F!Threads PROVE f[t] \in 0..MaxWait
      <4>1. run[t].age \in 0..MaxWait BY <3>1, LiveFacts DEF F!ThreadType
      <4>2. F!OnTheClock(t) => run[t].age < MaxWait BY <3>1 DEF F!TimePasses
      <4>3. QED BY <4>1, <4>2, SessionAssumption
    <3>2. QED BY <3>1
  <2>2. run' = [t \in F!Threads |-> IF F!OnTheClock(t) THEN [run[t] EXCEPT !.age = f[t]] ELSE run[t]]
    BY DEF F!TimePasses
  <2> HIDE DEF f
  <2>3. QED BY <2>1, <2>2, LiveAged
<1>2. n \in 0..(Lease + MaxWait) BY LiveSessionFacts, SessionAssumption DEF F!Earliest
<1>3. session' = [session EXCEPT !.idle = n, !.overlong = session.overlong]
  <2>1. session \in F!SessionType BY LiveSessionFacts
  <2>2. session' = [session EXCEPT !.idle = n] BY DEF F!TimePasses
  <2> HIDE DEF n
  <2>3. QED BY <2>1, <2>2 DEF F!SessionType
<1> HIDE DEF n
<1>4. QED BY <1>1, <1>2, <1>3, LiveSessionFacts, LiveSessionAges DEF F!TimePasses, F!history

-----------------------------------------------------------------------------
(* Nothing is installed, wanted or under way at the start. *)
LEMMA LiveInitHolds == ASSUME F!Init PROVE F!IInv
<1>1. F!NoSession \in F!SessionType /\ F!Idle \in F!ThreadType
  BY LiveNoSessionType, LiveIdleType
<1>2. F!TypeOK
  <2>1. 0 \in 0..MaxSeq /\ 0 \in Nat BY SessionAssumption
  <2>2. session \in F!SessionType /\ run \in [F!Threads -> F!ThreadType] BY <1>1 DEF F!Init
  <2>3. last \in [attempt : F!Ids, flushed : BOOLEAN, owed : BOOLEAN]
    BY DEF F!Init, F!NoReceipt, F!Ids
  <2>4. arm \in [held : BOOLEAN, stopped : BOOLEAN, by : F!Ids, seq : 0..MaxSeq]
    BY <2>1 DEF F!Init, F!Ids
  <2>5. /\ attempts \in [Starts -> {"new", "starting", "cancel_requested", "cancelled",
                                         "failed", "committed"}]
        /\ commits \in [Starts -> Nat] /\ cancelled \in SUBSET Starts
    BY <2>1 DEF F!Init
  <2>6. QED BY <2>2, <2>3, <2>4, <2>5 DEF F!Init, F!TypeOK
<1>3. ASSUME NEW t \in F!Threads PROVE F!Stands(t)
  <2>1. run[t] = F!Idle BY <1>3 DEF F!Init
  <2>2. QED
    BY <2>1, LiveIdleType DEF F!Stands, F!Runs, F!Fits, F!UnderMotion, F!UnderAuthority,
       F!Knows, F!Carried, F!Ending, F!Begun, F!Starting, F!Dispatching, F!Finishing,
       F!Carrying, F!Threads
<1>4. F!Ledger BY LiveNoSessionType, SessionAssumption DEF F!Init, F!Ledger, F!NoReceipt
<1>5. F!Shared
  BY <1>4, LiveNoSessionType DEF F!Init, F!Shared, F!Freed, F!Frames, F!StopEndsSession,
     F!FlushedIsSent, F!NoReceipt
<1>6. F!Flushed BY LiveNoSessionType DEF F!Init, F!Flushed, F!Owed
<1>7. QED BY <1>2, <1>3, <1>5, <1>6 DEF F!IInv

LEMMA LiveFinishesKeeps == ASSUME F!IInv, NEW t \in F!Threads, F!Finishes(t) PROVE F!IInv'
BY LiveFinishTakesMotionKeeps, LiveFinishCommitsKeeps, LiveFinishSendsKeeps DEF F!Finishes

LEMMA LiveDispatchesKeep == ASSUME F!IInv, NEW t \in F!Threads, F!Dispatches(t) PROVE F!IInv'
BY LiveTickKeeps, LiveDueKeeps, LiveQuietLooksKeeps, LiveReadBeginsKeeps, LiveReadbackKeeps,
   LivePopKeeps, LiveVetKeeps, LiveSendFollowKeeps, LiveSentKeeps DEF F!Dispatches

LEMMA LiveRequestsKeep == ASSUME F!IInv, F!Requests PROVE F!IInv'
<1>1. CASE \E a \in Starts : F!Start(a) \/ F!Cancel(a)
  BY <1>1, LiveStartKeeps, LiveCancelKeeps
<1>2. CASE \E a \in F!Known, flush \in BOOLEAN : F!End(a, flush) BY <1>2, LiveEndKeeps
<1>3. CASE F!SendFrame
  <2>1. PICK a \in F!Known, s \in 1..MaxSeq : F!Ask("lane", "frame", a, s)
    BY <1>3 DEF F!SendFrame
  <2>2. s \in 0..MaxSeq BY SessionAssumption
  <2>3. QED BY <2>1, <2>2, LiveAskKeeps DEF F!Threads
<1>4. CASE F!SendHeartbeat
  <2>1. PICK a \in F!Known : F!Ask("hb", "hb", a, 0) BY <1>4 DEF F!SendHeartbeat
  <2>2. 0 \in 0..MaxSeq BY SessionAssumption
  <2>3. QED BY <2>1, <2>2, LiveAskKeeps DEF F!Threads
<1>5. CASE F!StopLatches \/ F!ClearStop BY <1>5, LiveStopLatchesKeeps, LiveClearStopKeeps
<1>6. QED BY <1>1, <1>2, <1>3, <1>4, <1>5 DEF F!Requests

LEMMA LiveLaneStepKeeps == ASSUME F!IInv, F!LaneStep PROVE F!IInv'
<1>1. "lane" \in F!Threads BY DEF F!Threads
<1>2. CASE \/ F!LaneTakesMotion \/ F!LaneTakesAuthority \/ F!Register \/ F!Claim \/ F!StartHold
           \/ F!StartCheck \/ F!Commit \/ F!Abort \/ F!AbortSend \/ F!Unwind
  BY <1>2, LiveLaneTakesMotionKeeps, LiveLaneTakesAuthorityKeeps, LiveRegisterKeeps,
     LiveClaimKeeps, LiveStartHoldKeeps, LiveStartCheckKeeps, LiveCommitKeeps,
     LiveAbortKeeps, LiveAbortSendKeeps, LiveUnwindKeeps
<1>3. CASE F!InputTooLate("lane") \/ F!InputForNoSession("lane") \/ F!FrameAccepted
  BY <1>1, <1>3, LiveInputTooLateKeeps, LiveInputForNoSessionKeeps, LiveFrameAcceptedKeeps
<1>4. CASE \/ F!Ends \/ F!Dispatches("lane") \/ F!Conclude \/ F!Finishes("lane")
           \/ F!ClearBegins \/ F!ClearEnds
  BY <1>1, <1>4, LiveEndsKeeps, LiveDispatchesKeep, LiveConcludeKeeps, LiveFinishesKeeps,
     LiveClearBeginsKeeps, LiveClearEndsKeeps
<1>5. QED BY <1>2, <1>3, <1>4 DEF F!LaneStep

(* Every step of Live Follow keeps the invariant. *)
LEMMA LiveNextKeeps == ASSUME F!IInv, [F!Next]_follow PROVE F!IInv'
<1>1. "hb" \in F!Threads /\ "cancel" \in F!Threads /\ "svc" \in F!Threads BY DEF F!Threads
<1>2. CASE F!Requests \/ F!LaneStep BY <1>2, LiveRequestsKeep, LiveLaneStepKeeps
<1>3. CASE F!HeartbeatStep
  BY <1>1, <1>3, LiveInputTooLateKeeps, LiveInputForNoSessionKeeps,
     LiveHeartbeatRenewsKeeps, LiveFinishesKeeps DEF F!HeartbeatStep
<1>4. CASE F!CancelStep
  BY <1>1, <1>4, LiveCancelLooksKeeps, LiveCancelConfirmsKeeps, LiveFinishesKeeps DEF
     F!CancelStep
<1>5. CASE F!ServiceStep
  BY <1>1, <1>5, LiveDispatchesKeep, LiveFinishesKeeps, LiveRecoverKeeps,
     LiveRecoverResetsKeeps, LiveRenewSendsKeeps DEF F!ServiceStep
<1>6. CASE F!StopSent \/ F!Follow \/ F!ServiceLooks \/ F!Renew
  BY <1>6, LiveStopSentKeeps, LiveFollowKeeps, LiveServiceLooksKeeps, LiveRenewKeeps
<1>7. CASE F!TimePasses \/ F!SessionTooLong \/ F!HatLapses
  BY <1>7, LiveTimePassesKeeps, LiveSessionTooLongKeeps, LiveHatLapsesKeeps
<1>8. CASE UNCHANGED follow
  <2>1. /\ UNCHANGED <<session, last, attempts, wanted, latch, arm, F!locks, stopper, freed, commits,
                        cancelled>>
        /\ run' \in [F!Threads -> F!ThreadType] /\ \A u \in F!Threads : F!Same(u)
             /\ run'[u] = run[u]
    BY <1>8, LiveStood DEF follow, F!locks
  <2>2. F!HatKeepsFrame BY <2>1 DEF F!HatKeepsFrame, F!IInv, F!TypeOK
  <2>3. ASSUME NEW u \in F!Threads PROVE F!Eased(u)'
    <3>1. run[u].pc \in {"hold", "renew"} => ~freed'
      BY <2>1, LiveFacts DEF F!Stands, F!Begun
    <3>2. QED BY <2>1, <2>2, <3>1, LiveHatIsEased
  <2>4. F!Freed' BY <2>1 DEF F!IInv, F!Shared, F!Freed
  <2>5. F!Shared' BY <2>1, <2>2, <2>4, LiveHatIsShared
  <2>6. F!Flushed' BY <2>1 DEF F!IInv, F!Flushed, F!Owed, F!Carries, F!locks
  <2>7. F!Surroundings BY <2>1 DEF F!Surroundings, F!IInv, F!TypeOK
  <2>8. QED BY <2>1, <2>3, <2>5, <2>6, <2>7, LiveStandStill
<1>9. QED BY <1>2, <1>3, <1>4, <1>5, <1>6, <1>7, <1>8 DEF F!Next

-----------------------------------------------------------------------------
(* What follows from the invariant. *)

(* The promises of a state are conjuncts of the invariant, or follow from *)
(* them.                                                                  *)
LEMMA LivePromisesHold ==
  ASSUME F!IInv
  PROVE  /\ F!TypeOK /\ F!StopEndsSession /\ F!StartIsOneShot /\ F!CancelledStaysCancelled
         /\ F!ReleasedStaysReleased /\ F!FlushedIsSent
<1>1. F!StartIsOneShot
  <2>1. ASSUME NEW a \in Starts PROVE commits[a] <= 1
    <3>1. commits[a] \in 0..1 BY DEF F!IInv, F!Shared, F!Ledger
    <3>2. QED BY <3>1
  <2>2. QED BY <2>1 DEF F!StartIsOneShot
<1>2. F!CancelledStaysCancelled
  <2>1. ASSUME NEW a \in cancelled
        PROVE  /\ a \in Starts /\ session.attempt # a
               /\ ~(run["lane"].pc \in F!Starting /\ run["lane"].attempt = a)
    <3>1. a \in Starts /\ session.attempt # a /\ attempts[a] = "cancelled"
      BY DEF F!IInv, F!TypeOK, F!Shared, F!Ledger
    <3>2. F!Begun("lane") BY LiveFacts DEF F!Stands, F!Threads
    <3>3. QED BY <3>1, <3>2 DEF F!Begun
  <2>2. QED BY <2>1 DEF F!CancelledStaysCancelled, F!Active, F!At, F!Starting
<1>3. F!ReleasedStaysReleased BY DEF F!IInv, F!Shared, F!Freed, F!ReleasedStaysReleased
<1>4. QED BY <1>1, <1>2, <1>3 DEF F!IInv, F!Shared

(* The controller takes a frame by SendFollow and by nothing else. *)
LEMMA LiveOnlySendFollow ==
  ASSUME F!IInv, F!Next, <<arm.by, arm.seq>>' # <<arm.by, arm.seq>>
  PROVE  \E t \in F!Threads :
           /\ F!SendFollow(t) /\ arm'.by = run[t].attempt /\ arm'.seq = run[t].seq
<1>1. arm \in [held : BOOLEAN, stopped : BOOLEAN, by : F!Ids, seq : 0..MaxSeq]
  BY DEF F!IInv, F!TypeOK
<1>2. arm' # arm BY <1>1
<1>3. ~(\E o \in F!HoldSets(TRUE) \cup F!HoldSets(FALSE) : arm' = o[2])
  BY LiveHoldSetsRelease
<1>4. ~\E x \in BOOLEAN : arm' = [arm EXCEPT !.stopped = x] BY <1>1
<1>5. ~\E x \in BOOLEAN : arm' = [arm EXCEPT !.held = FALSE, !.stopped = x] BY <1>1
<1>6. \A t \in F!Threads : run[t].raced \in BOOLEAN BY LiveFacts DEF F!ThreadType
<1>7. ~(F!Requests \/ F!Follow \/ F!ServiceLooks \/ F!Renew \/ F!TimePasses \/ F!SessionTooLong)
  BY <1>2 DEF F!Requests, F!Start, F!Cancel, F!End, F!SendFrame, F!SendHeartbeat, F!Ask,
     F!StopLatches, F!ClearStop, F!Follow, F!ServiceLooks, F!Renew, F!TimePasses,
     F!SessionTooLong
<1>8. ~(F!StopSent \/ F!HatLapses) BY <1>2, <1>5 DEF F!StopSent, F!HatLapses
<1>9. ~(F!Recover \/ F!RecoverResets \/ F!RenewSends)
  BY <1>2, <1>3, <1>4, <1>6 DEF F!Recover, F!RecoverResets, F!RenewSends, F!Threads
<1>10. \A t \in F!Threads : ~F!Finishes(t)
  BY <1>2, <1>3 DEF F!Finishes, F!FinishTakesMotion, F!FinishCommits, F!FinishSends
<1>11. \A t \in F!Threads : F!Dispatches(t) => F!SendFollow(t)
  BY <1>2 DEF F!Dispatches, F!Tick, F!Due, F!Quiet, F!ReadBegins, F!Readback, F!Pop, F!Vet,
     F!Sent
<1>12. ~(\/ F!LaneTakesMotion \/ F!LaneTakesAuthority \/ F!Register \/ F!Claim \/ F!StartHold
         \/ F!StartCheck \/ F!Commit \/ F!Abort \/ F!AbortSend \/ F!Unwind)
  BY <1>2, <1>3 DEF F!LaneTakesMotion, F!LaneTakesAuthority, F!Register, F!Claim,
     F!StartHold, F!StartCheck, F!Commit, F!Abort, F!AbortSend, F!Unwind
<1>13. \A t \in F!Threads : ~(F!InputTooLate(t) \/ F!InputForNoSession(t))
  BY <1>2 DEF F!InputTooLate, F!InputForNoSession
<1>14. ~(F!FrameAccepted \/ F!HeartbeatRenews \/ F!CancelLooks \/ F!CancelConfirms)
  BY <1>2 DEF F!FrameAccepted, F!HeartbeatRenews, F!CancelLooks, F!CancelConfirms
<1>15. ~(F!Ends \/ F!Conclude \/ F!ClearBegins \/ F!ClearEnds)
  BY <1>2, <1>4 DEF F!Ends, F!Conclude, F!ClearBegins, F!ClearEnds
<1>16. \E t \in F!Threads : F!SendFollow(t)
  BY <1>7, <1>8, <1>9, <1>10, <1>11, <1>12, <1>13, <1>14, <1>15 DEF F!Next, F!LaneStep,
     F!HeartbeatStep, F!CancelStep, F!ServiceStep, F!Threads
<1>17. PICK t \in F!Threads : F!SendFollow(t) BY <1>16
<1>18. arm' = [arm EXCEPT !.by = run[t].attempt, !.seq = run[t].seq]
  BY <1>2, <1>17 DEF F!SendFollow
<1>19. QED BY <1>1, <1>17, <1>18

(* What is sent is of the active session: the thread at "send" stands on *)
(* it.                                                                   *)
LEMMA LiveFrameIsOfSession == ASSUME F!IInv, F!Next PROVE ~F!FrameAfterEnd
<1>1. SUFFICES ASSUME F!FrameAfterEnd PROVE FALSE OBVIOUS
<1>2. PICK t \in F!Threads :
        F!SendFollow(t) /\ arm'.by = run[t].attempt /\ arm'.seq = run[t].seq
  BY <1>1, LiveOnlySendFollow DEF F!FrameAfterEnd
<1>3. run[t].pc = "send" /\ F!Stands(t) BY <1>2, LiveFacts DEF F!SendFollow, F!At
<1>4. run[t].pc \in F!Dispatching BY <1>3 DEF F!Dispatching
<1>5. run[t].attempt \in Starts BY <1>4, LiveDispatch
<1>6. session.attempt = run[t].attempt \/ latch # "no" BY <1>3 DEF F!Stands, F!Carried
<1>7. QED BY <1>1, <1>2, <1>5, <1>6, SessionAssumption DEF F!FrameAfterEnd, F!Active

(* What is sent is newer than what was sent before. *)
LEMMA LiveFrameIsInOrder == ASSUME F!IInv, F!Next PROVE ~F!FrameOutOfOrder
<1>1. SUFFICES ASSUME NEW t \in F!Threads, F!At(t, "send"), arm.by = run[t].attempt,
                      run[t].seq <= arm.seq
               PROVE  FALSE
  BY DEF F!FrameOutOfOrder
<1>2. run[t].pc = "send" /\ F!Stands(t) /\ run[t].seq \in 0..MaxSeq
  BY <1>1, LiveFacts DEF F!At, F!ThreadType
<1>3. arm.seq < run[t].seq BY <1>1, <1>2 DEF F!Stands, F!Carried
<1>4. arm.seq \in 0..MaxSeq BY DEF F!IInv, F!TypeOK
<1>5. QED BY <1>1, <1>2, <1>3, <1>4, SessionAssumption

(* Who moves leaves the others where they are. *)
LEMMA LiveOthersStay ==
  ASSUME F!IInv, NEW u \in F!Threads, NEW t \in F!Threads, t # u
  PROVE  /\ F!Done(u) \/ F!Leaves(u) \/ F!NotFinished(u) => run'[t] = run[t]
         /\ \A pc \in F!Places : F!Goto(u, pc) \/ F!Again(u, pc) => run'[t] = run[t]
         /\ \A how \in {"ended", "flushed", "expired", "faulted"}, lease \in BOOLEAN :
              F!Finish(u, how, lease) => run'[t] = run[t]
         /\ \A c : run' = [run EXCEPT ![u] = c] => run'[t] = run[t]
<1>1. run \in [F!Threads -> F!ThreadType] BY LiveFacts
<1>2. QED BY <1>1 DEF F!Done, F!Leaves, F!NotFinished, F!Goto, F!Again, F!Finish

(* A thread leaves the place where a session is ended only by FinishCommits.*)
LEMMA LiveOnlyFinishCommits ==
  ASSUME F!IInv, F!Next, NEW t \in F!Threads, run[t].pc = "commitEnd", run'[t].pc # "commitEnd"
  PROVE  F!FinishCommits(t)
<1>1. run \in [F!Threads -> F!ThreadType] BY LiveFacts
<1>2. run'[t] # run[t] BY Zenon
<1>3. \A u \in F!Threads : run[u].pc # "commitEnd" => u # t OBVIOUS
<1>4. ~(F!StopSent \/ F!HatLapses \/ F!SessionTooLong)
  BY <1>2 DEF F!StopSent, F!HatLapses, F!SessionTooLong
<1>5. ~(F!StopLatches \/ F!TimePasses)
  <2>1. ASSUME F!StopLatches PROVE run'[t].pc = run[t].pc
    <3>1. run[t] \in F!ThreadType BY <1>1
    <3>2. run'[t] = [run[t] EXCEPT !.raced = @ \/ run[t].pc \in F!Sampled]
      BY <2>1 DEF F!StopLatches
    <3>3. QED BY <3>1, <3>2 DEF F!ThreadType
  <2>2. ASSUME F!TimePasses PROVE run'[t].pc = run[t].pc
    <3>1. run[t] \in F!ThreadType BY <1>1
    <3>2. run'[t] = IF F!OnTheClock(t) THEN [run[t] EXCEPT !.age = @ + 1] ELSE run[t]
      BY <2>2 DEF F!TimePasses
    <3>3. QED BY <3>1, <3>2 DEF F!ThreadType
  <2>3. QED BY <2>1, <2>2
<1>6. ~(\/ \E a \in Starts : F!Start(a) \/ F!Cancel(a)
        \/ \E a \in F!Known, flush \in BOOLEAN : F!End(a, flush)
        \/ F!SendFrame \/ F!SendHeartbeat \/ F!ClearStop)
  BY <1>1, <1>2 DEF F!Start, F!Cancel, F!End, F!SendFrame, F!SendHeartbeat, F!Ask,
     F!ClearStop, F!At
<1>7. ~(F!Follow \/ F!ServiceLooks \/ F!Renew)
  BY <1>1, <1>2 DEF F!Follow, F!ServiceLooks, F!Renew, F!Service, F!At
<1>8. ~(F!Recover \/ F!RecoverResets \/ F!RenewSends)
  BY <1>1, <1>2 DEF F!Recover, F!RecoverResets, F!RenewSends, F!Done, F!Goto, F!At
<1>9. \A u \in F!Threads : F!Finishes(u) => F!FinishCommits(t)
  <2>1. SUFFICES ASSUME NEW u \in F!Threads, F!Finishes(u) PROVE F!FinishCommits(t) OBVIOUS
  <2>2. CASE u = t
    BY <1>3, <2>1, <2>2 DEF F!Finishes, F!FinishTakesMotion, F!FinishSends, F!At
  <2>3. CASE u # t
    <3>1. ~(F!FinishTakesMotion(u) \/ F!FinishSends(u))
      BY <1>2, <2>3, LiveOthersStay DEF F!FinishTakesMotion, F!FinishSends, F!Places
    <3>2. ~F!FinishCommits(u) BY <1>2, <2>3, LiveOthersStay DEF F!FinishCommits, F!Places
    <3>3. QED BY <2>1, <3>1, <3>2 DEF F!Finishes
  <2>4. QED BY <2>2, <2>3
<1>10. \A u \in F!Threads : ~F!Dispatches(u)
  <2>1. SUFFICES ASSUME NEW u \in F!Threads, F!Dispatches(u) PROVE FALSE OBVIOUS
  <2>2. u # t
    BY <2>1 DEF F!Dispatches, F!Tick, F!Due, F!Quiet, F!ReadBegins, F!Readback, F!Pop,
       F!Vet, F!SendFollow, F!Sent, F!At
  <2>3. ~(F!Tick(u) \/ F!Due(u) \/ F!Quiet(u) \/ F!ReadBegins(u))
    BY <1>2, <2>2, LiveOthersStay DEF F!Tick, F!Due, F!Quiet, F!ReadBegins, F!Places
  <2>4. ~(F!Vet(u) \/ F!SendFollow(u) \/ F!Sent(u) \/ F!Readback(u))
    BY <1>2, <2>2, LiveOthersStay DEF F!Vet, F!SendFollow, F!Sent, F!Readback, F!Places
  <2>5. ~F!Pop(u) BY <1>1, <1>2, <2>2, LiveOthersStay DEF F!Pop
  <2>6. QED BY <2>1, <2>3, <2>4, <2>5 DEF F!Dispatches
<1>11. ~(\/ F!LaneTakesMotion \/ F!LaneTakesAuthority \/ F!Register \/ F!Claim \/ F!StartHold
         \/ F!StartCheck \/ F!Commit \/ F!Abort \/ F!AbortSend \/ F!Unwind)
  BY <1>1, <1>2 DEF F!LaneTakesMotion, F!LaneTakesAuthority, F!Register, F!Claim,
     F!StartHold, F!StartCheck, F!Commit, F!Abort, F!AbortSend, F!Unwind, F!Refused,
     F!Fails, F!Done, F!Goto, F!At
<1>12. \A u \in F!Threads : ~(F!InputTooLate(u) \/ F!InputForNoSession(u))
  BY <1>2, <1>3, LiveOthersStay DEF F!InputTooLate, F!InputForNoSession, F!At
<1>13. ~(F!FrameAccepted \/ F!HeartbeatRenews \/ F!CancelLooks \/ F!CancelConfirms)
  BY <1>1, <1>2 DEF F!FrameAccepted, F!HeartbeatRenews, F!CancelLooks, F!CancelConfirms,
     F!Answered, F!Finish, F!Done, F!At
<1>14. ~(F!Ends \/ F!Conclude \/ F!ClearBegins \/ F!ClearEnds)
  BY <1>1, <1>2 DEF F!Ends, F!Conclude, F!ClearBegins, F!ClearEnds, F!Finish, F!Done, F!At
<1>15. QED
  BY <1>4, <1>5, <1>6, <1>7, <1>8, <1>9, <1>10, <1>11, <1>12, <1>13, <1>14 DEF F!Next,
     F!Requests, F!LaneStep, F!HeartbeatStep, F!CancelStep, F!ServiceStep, F!Threads

(* A lease that is found over under the locks has been over. *)
LEMMA LiveExpiryIsTrue == ASSUME F!IInv, F!Next PROVE ~F!FalseExpiry
<1>1. SUFFICES ASSUME NEW t \in F!Threads, run[t].pc = "commitEnd", run[t].fin.how = "expired",
                      run'[t].pc = "finishSend", session.idle < Lease, ~session.overlong
               PROVE  FALSE
  BY DEF F!FalseExpiry, F!At
<1>2. F!FinishCommits(t) BY <1>1, LiveOnlyFinishCommits
<1>3. run[t] \in F!ThreadType /\ F!Stands(t) /\ run \in [F!Threads -> F!ThreadType]
  BY LiveFacts
<1>4. run[t].age \in 0..MaxWait /\ session.idle \in 0..(Lease + MaxWait)
  BY <1>3, LiveSessionFacts DEF F!ThreadType
<1>5. ~F!NotFinished(t)
  <2>1. SUFFICES ASSUME F!NotFinished(t) PROVE FALSE OBVIOUS
  <2>2. ~F!Done(t) BY <1>1, LiveRests, LiveIdleType
  <2>3. ~\E pc \in {"frame", "hb", "due", "confirm"} : F!Again(t, pc)
    BY <1>1, LiveAgainGoes DEF F!Places
  <2>4. QED BY <2>1, <2>2, <2>3 DEF F!NotFinished
<1>6. F!Active(run[t].attempt) /\ (run[t].fin.lease => F!Lapsed(t))
  BY <1>2, <1>5 DEF F!FinishCommits
<1>7. ~run[t].fin.lease => session.overlong
  BY <1>1, <1>3, <1>6 DEF F!Stands, F!Ending, F!Active
<1>8. QED BY <1>1, <1>4, <1>6, <1>7, SessionAssumption DEF F!Lapsed

(* What becomes of the frames and the lease in one step. *)
LEMMA LiveStepsAreTrue ==
  ASSUME F!IInv, [F!Next]_follow
  PROVE  [~F!FrameAfterEnd /\ ~F!FrameOutOfOrder /\ ~F!FalseExpiry]_follow
BY LiveFrameIsOfSession, LiveFrameIsInOrder, LiveExpiryIsTrue

(* The invariant holds in every state of Live Follow. *)
THEOREM SessionInductive == F!Spec => []F!IInv
<1>1. F!Init => F!IInv BY LiveInitHolds
<1>2. F!IInv /\ [F!Next]_follow => F!IInv' BY LiveNextKeeps
<1>3. F!Spec => F!Init /\ [][F!Next]_follow BY DEF F!Spec, F!vars, F!history, F!locks, follow
<1>4. QED BY <1>1, <1>2, <1>3, PTL

(* Whatever the requests, however they follow each other: what Live Follow *)
(* promises of its sessions holds in every state, and its frames and       *)
(* leases keep to it in every step.                                        *)
THEOREM LiveFollowKeepsPromises ==
  F!Spec => /\ [](/\ F!TypeOK /\ F!StopEndsSession /\ F!StartIsOneShot
                  /\ F!CancelledStaysCancelled /\ F!ReleasedStaysReleased /\ F!FlushedIsSent)
            /\ [][~F!FrameAfterEnd /\ ~F!FrameOutOfOrder /\ ~F!FalseExpiry]_follow
<1>1. F!IInv => /\ F!TypeOK /\ F!StopEndsSession /\ F!StartIsOneShot
                /\ F!CancelledStaysCancelled /\ F!ReleasedStaysReleased /\ F!FlushedIsSent
  BY LivePromisesHold
<1>2. F!IInv /\ [F!Next]_follow
        => [~F!FrameAfterEnd /\ ~F!FrameOutOfOrder /\ ~F!FalseExpiry]_follow
  BY LiveStepsAreTrue
<1>3. F!Spec => F!Init /\ [][F!Next]_follow BY DEF F!Spec, F!vars, F!history, F!locks, follow
<1>4. QED BY <1>1, <1>2, <1>3, SessionInductive, PTL

(* A behaviour of MCArm is of one of the two modules from its start. *)
BenchInv == bench \in {"lane"} \cup Benches /\ (bench # "lane" => F!IInv)

(* The bench stays, and with it the invariant of the module that runs. *)
LEMMA BenchInductive == MCSpec => []BenchInv
<1>1. MCInit => BenchInv BY LiveInitHolds DEF MCInit, BenchInv
<1>2. BenchInv /\ [MCNext]_<<bench, vars, follow>> => BenchInv'
  <2> SUFFICES ASSUME BenchInv, [MCNext]_<<bench, vars, follow>> PROVE BenchInv' OBVIOUS
  <2>1. bench' = bench BY DEF MCNext
  <2>2. CASE bench = "lane" BY <2>1, <2>2 DEF BenchInv
  <2>3. CASE bench # "lane"
    <3>1. [F!Next]_follow BY <2>3 DEF MCNext
    <3>2. F!IInv' BY <2>3, <3>1, LiveNextKeeps DEF BenchInv
    <3>3. QED BY <2>1, <3>2 DEF BenchInv
  <2>4. QED BY <2>2, <2>3
<1>3. QED BY <1>1, <1>2, PTL DEF MCSpec

(* No session is active while an explicit STOP is latched, no attempt is     *)
(* installed twice or after its answered cancellation, no receipt claims a   *)
(* flush that did not happen, and nothing takes back a released hold.        *)
THEOREM SessionsEnd == MCSpec => []SessionsStayEnded
<1>1. BenchInv => SessionsStayEnded BY LivePromisesHold DEF BenchInv, SessionsStayEnded
<1>2. QED BY <1>1, BenchInductive, PTL

(* A frame reaches the controller only of the active session, or of one that *)
(* STOP overtook on the way, in order and once; and no session is ended for  *)
(* want of input that had input within its lease.                            *)
THEOREM FramesKeepTurn == MCSpec => FramesAreOfTheSession
<1>1. BenchInv /\ [MCNext]_<<bench, vars, follow>>
        => [bench # "lane" => ~F!FrameAfterEnd /\ ~F!FrameOutOfOrder /\ ~F!FalseExpiry]_follow
  <2> SUFFICES ASSUME BenchInv, [MCNext]_<<bench, vars, follow>>, bench # "lane"
               PROVE  [~F!FrameAfterEnd /\ ~F!FrameOutOfOrder /\ ~F!FalseExpiry]_follow
    OBVIOUS
  <2>1. F!IInv /\ [F!Next]_follow BY DEF BenchInv, MCNext
  <2>2. QED BY <2>1, LiveStepsAreTrue
<1>2. QED BY <1>1, BenchInductive, PTL DEF MCSpec, FramesAreOfTheSession
=============================================================================
