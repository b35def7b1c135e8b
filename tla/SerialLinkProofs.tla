--------------------------- MODULE SerialLinkProofs ---------------------------
(***************************************************************************)
(* Proofs about SerialLink for every number of boots and declarations and  *)
(* every sequence limit above 1.                                           *)
(*                                                                         *)
(* The argument: the I/O lock belongs to whoever is inside an exchange of  *)
(* several commands (Locked); the only answer still on its way is that of  *)
(* the last sequence number (LateIsLast), so it never matches the next     *)
(* one; hence the identity is that of a controller that answered, never    *)
(* of a later boot (IdentityPast), and a command confirmed by two STATUS   *)
(* answers of that identity ran in between (ActsInBoot).  The gate is open *)
(* on an online link only if the running boot holds the family map         *)
(* (FamiliesKnown, ResetKnows).                                            *)
(***************************************************************************)
EXTENDS SerialLink, TLAPS

Pcs == {"idle", "before", "act", "after", "family", "rBefore", "rStop", "rStatus",
        "rFamily", "rReset", "rAfter", "rPolicy", "rDone", "join", "close", "start",
        "hello", "replay", "beat", "wait", "beats"}

ThreadState == [pc : Pcs, by : 0..MaxBoot, knew : BOOLEAN]

ResetPcs == {"family", "rBefore", "rStop", "rStatus", "rFamily", "rReset", "rAfter",
             "rPolicy", "rDone"}

(* The places where a thread holds the I/O lock. *)
Holding == {"act", "after", "family", "rStop", "rStatus", "rFamily", "rReset", "rAfter",
            "hello", "replay", "beat"}

(* Who does what: only the lane declares and resets, only heartbeat threads *)
(* beat.                                                                    *)
Roles ==
  /\ \A b \in Beats : th[b].pc \in {"idle", "wait", "beats"}
  /\ \A t \in Users : th[t].pc \notin {"wait", "beats"}
  /\ th["svc"].pc \notin ResetPcs

Locked == \A t \in Users : th[t].pc \in Holding => io = t

LateIsLast == late # NoAnswer => late.seq = seq

IdentityPast == identity <= hat.boot

Known == hat.family = declared \/ crossed

ActsInBoot ==
  \A t \in Users :
    /\ th[t].pc \in {"act", "after"} => conn = "online"
    /\ th[t].pc = "after" =>
         /\ identity <= th[t].by /\ th[t].by <= hat.boot
         /\ th[t].by = identity => th[t].knew \/ crossed

FamiliesKnown ==
  conn = "online" /\ ~inspection /\ hat.boot = identity
  /\ (\A t \in Users : th[t].pc \notin {"replay", "family"}) => Known

ResetKnows ==
  /\ th["lane"].pc \in {"rReset", "rAfter"} /\ hat.boot = identity => Known
  /\ th["lane"].pc \in {"rPolicy", "rDone"} =>
       th["lane"].by <= hat.boot /\ (hat.boot = th["lane"].by => Known)

Supervised ==
  conn = "online" /\ (\A t \in Users : th[t].pc \notin {"join", "close", "hello", "replay", "beat"})
    => ~event /\ \E b \in Beats : th[b].pc # "idle"

IInv ==
  /\ TypeOK /\ Roles /\ Locked /\ LateIsLast /\ IdentityPast
  /\ ActsInBoot /\ FamiliesKnown /\ ResetKnows /\ Supervised

-----------------------------------------------------------------------------
(* The type invariant by parts, and what the helpers do.                    *)

Line(s, h, l) ==
  /\ s \in 0..SeqLimit
  /\ h \in [boot : 1..MaxBoot, family : 0..MaxDecl, stopped : BOOLEAN]
  /\ l \in [seq : 0..SeqLimit, boot : 0..MaxBoot]

Scalars ==
  /\ conn \in {"offline", "online", "faulted", "closed"} /\ open \in BOOLEAN
  /\ identity \in 0..MaxBoot /\ inspection \in BOOLEAN /\ declared \in 0..MaxDecl
  /\ io \in Users \cup {NoOne} /\ event \in BOOLEAN
  /\ beat \in Beats \cup {NoOne} /\ crossed \in BOOLEAN

Typed == th \in [Threads -> ThreadState]

(* TypeOK is that of the scalars, of the line and of the threads.           *)
LEMMA TypeParts == TypeOK <=> Scalars /\ Line(seq, hat, late) /\ Typed
BY DEF TypeOK, Scalars, Line, Typed, ThreadState, Pcs

(* The same of the next state.                                              *)
LEMMA TypePartsNext == Scalars' /\ Line(seq, hat, late)' /\ Typed' => TypeOK'
BY DEF TypeOK, Scalars, Line, Typed, ThreadState, Pcs

(* The sequence number of a new request differs from that of the last one.  *)
LEMMA NextSeqFacts ==
  ASSUME seq \in 0..SeqLimit
  PROVE  NextSeq \in 1..SeqLimit /\ NextSeq # seq
BY LinkAssumption DEF NextSeq, LinkAssumption

(* An exchange leaves at most its own answer behind; an answer accepted is  *)
(* that of the controller running now, which has carried the command out.   *)
LEMMA ExchangeFacts ==
  ASSUME Line(seq, hat, late), Scalars, LateIsLast, NEW op, NEW a, Exchange(op, a)
  PROVE  /\ Line(seq, hat, late)' /\ LateIsLast'
         /\ hat'.boot = hat.boot
         /\ op # "FAMILY" => hat'.family = hat.family
         /\ hat'.family \in {hat.family, declared}
         /\ a.how = "ok" => /\ open /\ a.boot = hat.boot
                            /\ op = "FAMILY" => hat'.family = declared
<1>1. NextSeq \in 1..SeqLimit /\ NextSeq # seq BY NextSeqFacts DEF Line
<1>2. hat' = a.hat /\ late' = a.late /\ seq' = (IF open THEN NextSeq ELSE seq) /\ a \in Answers(op)
  BY DEF Exchange
<1>3. /\ After(op) \in [boot : 1..MaxBoot, family : 0..MaxDecl, stopped : BOOLEAN]
      /\ After(op).boot = hat.boot
      /\ After(op).family = IF op = "FAMILY" THEN declared ELSE hat.family
  BY DEF After, Line, Scalars
<1>4. Own \in [seq : 0..SeqLimit, boot : 0..MaxBoot] /\ Own.seq = NextSeq
      /\ NoAnswer \in [seq : 0..SeqLimit, boot : 0..MaxBoot]
  BY <1>1, LinkAssumption DEF Own, NoAnswer, Line, LinkAssumption
<1>5. CASE ~open
  <2>0. Answers(op) = {Answer("fault", 0, hat, late)} BY <1>5 DEF Answers
  <2>1. a = Answer("fault", 0, hat, late) BY <1>2, <2>0
  <2>. QED BY <1>2, <1>5, <2>1 DEF Answer, LateIsLast
<1>6. CASE open /\ late # NoAnswer
  <2>1. a = Answer("fault", late.boot, After(op), Own)
    BY <1>1, <1>2, <1>6 DEF Answers, Stale, LateIsLast
  <2>. QED BY <1>2, <1>3, <1>4, <1>6, <2>1 DEF Answer, LateIsLast, Line
<1>7. CASE open /\ late = NoAnswer
  <2>1. \/ a = Answer("fault", 0, hat, NoAnswer)
        \/ a = Answer("refused", hat.boot, hat, NoAnswer)
        \/ a = Answer("ok", hat.boot, After(op), NoAnswer)
        \/ a = Answer("fault", 0, After(op), Own)
    BY <1>2, <1>7 DEF Answers
  <2>2. CASE a = Answer("fault", 0, hat, NoAnswer) \/ a = Answer("refused", hat.boot, hat, NoAnswer)
    BY <1>2, <1>4, <1>7, <2>2 DEF Answer, LateIsLast, Line
  <2>3. CASE a = Answer("ok", hat.boot, After(op), NoAnswer)
    BY <1>2, <1>3, <1>4, <1>7, <2>3 DEF Answer, LateIsLast, Line
  <2>4. CASE a = Answer("fault", 0, After(op), Own)
    BY <1>2, <1>3, <1>4, <1>7, <2>4 DEF Answer, LateIsLast, Line
  <2>. QED BY <2>1, <2>2, <2>3, <2>4
<1>. QED BY <1>5, <1>6, <1>7

(* Thread t is at pc next; the others stay where they are. *)
Moves(t, pc) ==
  /\ Typed' /\ th'[t].pc = pc
  /\ \A x \in Threads \ {t} : th'[x] = th[x]

(* A thread that goes to a place keeps what it knows of its command.        *)
LEMMA GotoMoves ==
  ASSUME Typed, NEW t \in Threads, NEW pc \in Pcs, Goto(t, pc)
  PROVE  Moves(t, pc) /\ th'[t].by = th[t].by /\ th'[t].knew = th[t].knew
BY DEF Typed, ThreadState, Goto, Moves

(* A thread that leaves is idle.                                            *)
LEMMA LeaveMoves ==
  ASSUME Typed, NEW t \in Threads, Leave(t)
  PROVE  Moves(t, "idle")
<1>1. Idle \in ThreadState
  BY LinkAssumption DEF Idle, ThreadState, Pcs, LinkAssumption
<1>. QED BY <1>1 DEF Typed, Leave, Moves, Idle

-----------------------------------------------------------------------------
(* The steps.                                                               *)

(* What the line keeps true in every step. *)
Carried ==
  /\ Line(seq, hat, late)' /\ LateIsLast'
  /\ hat'.boot = hat.boot
  /\ hat'.family \in {hat.family, declared}

(* An exchange keeps what is true of the line.                              *)
LEMMA ExchangeCarried ==
  ASSUME IInv, NEW op, NEW a, Exchange(op, a)
  PROVE  Carried
BY TypeParts, ExchangeFacts DEF IInv, Carried

(* So does a step that leaves the line alone.                               *)
LEMMA QuietCarried ==
  ASSUME IInv, UNCHANGED <<seq, hat, late>>
  PROVE  Carried
BY TypeParts DEF IInv, Carried, Line, LateIsLast

(* A fault takes the link down, and every lock held by the thread with it.  *)
LEMMA FaultGood ==
  ASSUME IInv, Carried, NEW t \in Threads, io \in {NoOne, t}, Fault(t)
  PROVE  IInv'
<1>1. Idle \in ThreadState /\ Idle.pc = "idle"
  BY LinkAssumption DEF Idle, ThreadState, Pcs, LinkAssumption
<1>2. /\ Typed'
      /\ \A x \in Threads : th'[x] = th[x] \/ th'[x] = Idle
      /\ \A x \in Users \ {t} : th'[x] = th[x]
      /\ th'[t] = Idle
  BY <1>1, TypeParts DEF Fault, IInv, Typed, Ended, Roles, Threads, Users, Beats, At
<1>3. /\ conn' = "faulted" /\ open' = FALSE /\ event' = TRUE /\ io' = NoOne
      /\ UNCHANGED <<identity, inspection, declared, beat, crossed>>
  BY DEF Fault
<1>4. TypeOK'
  BY <1>2, <1>3, TypeParts, TypePartsNext DEF IInv, Scalars, Carried
<1>5. Roles'
  BY <1>1, <1>2 DEF IInv, Roles, Users, Beats, Threads, ResetPcs
<1>6. \A x \in Users : th'[x].pc \notin Holding
  BY <1>1, <1>2 DEF IInv, Locked, Holding, Users, Beats, Threads, NoOne
<1>7. Locked' BY <1>6 DEF Locked
<1>8. ActsInBoot' BY <1>3, <1>6 DEF ActsInBoot, Holding
<1>9. FamiliesKnown' /\ Supervised' BY <1>3 DEF FamiliesKnown, Supervised
<1>10. ResetKnows'
  <2>1. Known => Known' BY <1>3 DEF Known, Carried
  <2>2. th'["lane"].pc \in {"rPolicy", "rDone"} => th'["lane"] = th["lane"]
    BY <1>1, <1>2 DEF Users, Threads
  <2>. QED BY <1>3, <1>6, <2>1, <2>2 DEF IInv, ResetKnows, Carried, Holding, Users
<1>11. IdentityPast' BY <1>3 DEF IInv, IdentityPast, Carried
<1>. QED BY <1>4, <1>5, <1>7, <1>8, <1>9, <1>10, <1>11 DEF IInv, Carried

(* Most steps of a user thread: it goes on, the link stays what it was.     *)
Proceeds(t, pc) ==
  /\ Moves(t, pc) /\ Carried
  /\ UNCHANGED <<conn, identity, declared, crossed, event, beat>>
  /\ open' \in BOOLEAN /\ inspection' \in BOOLEAN /\ (inspection => inspection')
  /\ io' \in Users \cup {NoOne}
  /\ io' = io \/ io \in {NoOne, t}
  /\ pc \in Holding => io' = t
  /\ pc \notin {"wait", "beats"}
  /\ t = "svc" => pc \notin ResetPcs

(* What it must have established where it arrives. *)
Arrives(t, pc) ==
  /\ pc \in {"act", "after"} => conn = "online"
  /\ pc = "after" =>
       /\ identity <= th'[t].by /\ th'[t].by <= hat.boot
       /\ th'[t].by = identity => th'[t].knew \/ crossed
  /\ pc \in {"rReset", "rAfter"} /\ hat.boot = identity => Known'
  /\ pc \in {"rPolicy", "rDone"} =>
       th'[t].by <= hat.boot /\ (hat.boot = th'[t].by => Known')

(* What it must have established to leave. *)
Departs(t, pc) ==
  /\ th[t].pc \in {"replay", "family"} => pc \in {"replay", "family"} \/ Known'
  /\ th[t].pc \in {"join", "close", "hello", "replay", "beat"} =>
       pc \in {"join", "close", "hello", "replay", "beat"} \/ conn # "online"

(* A step that goes on and establishes its obligations keeps IInv.          *)
LEMMA ProceedGood ==
  ASSUME IInv, NEW t \in Users, NEW pc \in Pcs,
         Proceeds(t, pc), Arrives(t, pc), Departs(t, pc)
  PROVE  IInv'
<1>1. /\ Typed' /\ th'[t].pc = pc /\ t \in Threads
      /\ \A x \in Threads \ {t} : th'[x] = th[x]
      /\ Beats \subseteq Threads \ {t} /\ Users \subseteq Threads
  BY DEF Proceeds, Moves, Users, Beats, Threads
<1>2. Known => Known' BY DEF Proceeds, Carried, Known
<1>3. TypeOK' BY <1>1, TypeParts, TypePartsNext DEF IInv, Proceeds, Carried, Scalars
<1>4. Roles' BY <1>1 DEF IInv, Roles, Proceeds, Users
<1>5. Locked'
  <2>1. th'[t].pc \in Holding => io' = t BY <1>1 DEF Proceeds
  <2>2. ASSUME NEW x \in Users \ {t}, th'[x].pc \in Holding PROVE io' = x
    BY <1>1, <2>2 DEF IInv, Locked, Proceeds, Users, NoOne
  <2>. QED BY <2>1, <2>2 DEF Locked
<1>6. IdentityPast' /\ LateIsLast' BY DEF IInv, IdentityPast, Proceeds, Carried
<1>7. ActsInBoot'
  <2>1. ASSUME NEW x \in Users
        PROVE  /\ th'[x].pc \in {"act", "after"} => conn' = "online"
               /\ th'[x].pc = "after" =>
                    /\ identity' <= th'[x].by /\ th'[x].by <= hat'.boot
                    /\ th'[x].by = identity' => th'[x].knew \/ crossed'
    <3>1. CASE x = t BY <1>1, <3>1 DEF Proceeds, Carried, Arrives
    <3>2. CASE x # t BY <1>1, <3>2 DEF Proceeds, Carried, IInv, ActsInBoot
    <3>. QED BY <3>1, <3>2
  <2>. QED BY <2>1 DEF ActsInBoot
<1>8. FamiliesKnown'
  <2>. SUFFICES ASSUME conn' = "online", ~inspection', hat'.boot = identity',
                       \A x \in Users : th'[x].pc \notin {"replay", "family"}
                PROVE  Known'
    BY DEF FamiliesKnown
  <2>1. conn = "online" /\ ~inspection /\ hat.boot = identity BY DEF Proceeds, Carried
  <2>2. CASE th[t].pc \in {"replay", "family"} BY <1>1, <2>2 DEF Departs
  <2>3. CASE th[t].pc \notin {"replay", "family"}
    <3>1. \A x \in Users : th[x].pc \notin {"replay", "family"} BY <1>1, <2>3
    <3>. QED BY <1>2, <2>1, <3>1 DEF IInv, FamiliesKnown
  <2>. QED BY <2>2, <2>3
<1>9. ResetKnows'
  <2>1. CASE t = "lane"
    BY <1>1, <2>1 DEF Arrives, Proceeds, Carried, ResetKnows
  <2>2. CASE t # "lane"
    <3>1. th'["lane"] = th["lane"] BY <1>1, <2>2 DEF Users
    <3>. QED BY <1>2, <3>1 DEF IInv, ResetKnows, Proceeds, Carried
  <2>. QED BY <2>1, <2>2
<1>10. Supervised'
  <2>. SUFFICES ASSUME conn' = "online",
                       \A x \in Users : th'[x].pc \notin {"join", "close", "hello", "replay", "beat"}
                PROVE  ~event' /\ \E b \in Beats : th'[b].pc # "idle"
    BY DEF Supervised
  <2>1. conn = "online" /\ event' = event BY DEF Proceeds
  <2>2. \A x \in Users : th[x].pc \notin {"join", "close", "hello", "replay", "beat"}
    BY <1>1, <2>1 DEF Departs
  <2>3. ~event /\ \E b \in Beats : th[b].pc # "idle" BY <2>1, <2>2 DEF IInv, Supervised
  <2>. QED BY <1>1, <2>1, <2>3
<1>. QED BY <1>3, <1>4, <1>5, <1>6, <1>7, <1>8, <1>9, <1>10 DEF IInv

(* What the type invariant says of the parts an action reads. *)
LEMMA StateFacts ==
  ASSUME IInv
  PROVE  /\ Typed /\ conn \in {"offline", "online", "faulted", "closed"} /\ open \in BOOLEAN
         /\ identity \in 0..MaxBoot /\ inspection \in BOOLEAN /\ declared \in 0..MaxDecl
         /\ io \in Users \cup {NoOne} /\ event \in BOOLEAN
         /\ hat \in [boot : 1..MaxBoot, family : 0..MaxDecl, stopped : BOOLEAN]
         /\ identity <= hat.boot
BY TypeParts DEF IInv, Scalars, Line, IdentityPast

(* A thread about to begin something. *)
LEMMA AskGood ==
  ASSUME IInv, NEW t \in Users, NEW pc \in {"before", "rBefore"}, Ask(t, pc),
         t = "svc" => pc = "before"
  PROVE  IInv'
<1>1. Carried /\ Typed BY QuietCarried, StateFacts DEF Ask
<1>2. Moves(t, pc) BY <1>1, GotoMoves DEF Ask, Threads, Pcs
<1>3. Proceeds(t, pc)
  BY <1>1, <1>2, StateFacts DEF Proceeds, Ask, Holding, ResetPcs, mine
<1>4. Arrives(t, pc) /\ Departs(t, pc) BY DEF Arrives, Departs, Ask, At
<1>. QED BY <1>3, <1>4, ProceedGood DEF Pcs

(* A request given up because the link is down. *)
LEMMA NotOnlineGood ==
  ASSUME IInv, NEW t \in Users, NotOnline(t)
  PROVE  IInv'
<1>1. Carried /\ Typed BY QuietCarried, StateFacts DEF NotOnline
<1>2. Moves(t, "idle") BY <1>1, LeaveMoves DEF NotOnline, Threads
<1>3. Proceeds(t, "idle")
  BY <1>1, <1>2, StateFacts DEF Proceeds, NotOnline, Holding, ResetPcs, mine
<1>4. Arrives(t, "idle") /\ Departs(t, "idle") BY DEF Arrives, Departs, NotOnline
<1>. QED BY <1>3, <1>4, ProceedGood DEF Pcs

(* The STATUS before a guarded command. *)
LEMMA ActBeforeGood ==
  ASSUME IInv, NEW t \in Users, ActBefore(t)
  PROVE  IInv'
<1>1. PICK a \in Answers("STATUS") :
        /\ Exchange("STATUS", a)
        /\ \/ SameBoot(a) /\ io' = t /\ Goto(t, "act")
              /\ inspection' = (inspection \/ hat.stopped) /\ UNCHANGED <<conn, mine, event>>
           \/ ~SameBoot(a) /\ Fault(t)
  BY DEF ActBefore
<1>2. Carried BY <1>1, ExchangeCarried
<1>3. io \in {NoOne, t} /\ conn = "online" /\ th[t].pc = "before" BY DEF ActBefore, Free, At
<1>4. CASE Fault(t) BY <1>2, <1>3, <1>4, FaultGood DEF Threads
<1>5. CASE io' = t /\ Goto(t, "act") /\ inspection' = (inspection \/ hat.stopped)
           /\ UNCHANGED <<conn, mine, event>>
  <2>1. Moves(t, "act") BY <1>5, StateFacts, GotoMoves DEF Threads, Pcs
  <2>2. inspection' \in BOOLEAN /\ (inspection => inspection') BY <1>5, StateFacts
  <2>3. Proceeds(t, "act")
    BY <1>2, <1>3, <1>5, <2>1, <2>2, StateFacts DEF Proceeds, ResetPcs, mine
  <2>4. Arrives(t, "act") /\ Departs(t, "act") BY <1>3 DEF Arrives, Departs
  <2>. QED BY <2>3, <2>4, ProceedGood DEF Pcs
<1>. QED BY <1>1, <1>4, <1>5

(* The lock is held here, and the link is online. *)
LEMMA Inside ==
  ASSUME IInv, NEW t \in Users, th[t].pc \in Holding
  PROVE  /\ io = t /\ io \in {NoOne, t}
         /\ \A x \in Users \ {t} : th[x].pc \notin Holding
         /\ th[t].pc \in {"act", "after"} => conn = "online"
BY DEF IInv, Locked, ActsInBoot

(* While a guarded command is under way no replay and no declaration is. *)
LEMMA ActKnows ==
  ASSUME IInv, NEW t \in Users, th[t].pc = "act", ~inspection, hat.boot = identity
  PROVE  Known
<1>1. conn = "online" /\ \A x \in Users : th[x].pc \notin {"replay", "family"}
  BY Inside DEF Holding
<1>. QED BY <1>1 DEF IInv, FamiliesKnown

(* The guarded command itself. *)
LEMMA ActSentGood ==
  ASSUME IInv, NEW t \in Users, ActSent(t)
  PROVE  IInv'
<1>1. th[t].pc = "act" /\ io = t /\ conn = "online"
  BY Inside DEF ActSent, At, Holding
<1>2. \/ /\ Leave(t) /\ io' = NoOne
         /\ UNCHANGED <<conn, mine, inspection, seq, event, hat, late>>
      \/ /\ ~inspection
         /\ \E a \in Answers("ACT") :
              /\ Exchange("ACT", a)
              /\ \/ Fault(t)
                 \/ /\ Leave(t) /\ io' = NoOne
                    /\ UNCHANGED <<conn, mine, inspection, event>>
                 \/ /\ a.how = "ok"
                    /\ th' = [th EXCEPT ![t] = [pc |-> "after", by |-> hat.boot,
                                                knew |-> hat.family = declared]]
                    /\ UNCHANGED <<conn, mine, inspection, io, event>>
  BY DEF ActSent
<1>3. ASSUME Carried, Leave(t), io' = NoOne, UNCHANGED <<conn, mine, inspection, event>>
      PROVE  IInv'
  <2>1. Moves(t, "idle") BY <1>3, StateFacts, LeaveMoves DEF Threads
  <2>2. Proceeds(t, "idle")
    BY <1>1, <1>3, <2>1, StateFacts DEF Proceeds, Holding, ResetPcs, mine
  <2>3. Arrives(t, "idle") /\ Departs(t, "idle") BY <1>1 DEF Arrives, Departs
  <2>. QED BY <2>2, <2>3, ProceedGood DEF Pcs
<1>4. CASE Leave(t) /\ io' = NoOne /\ UNCHANGED <<conn, mine, inspection, seq, event, hat, late>>
  BY <1>3, <1>4, QuietCarried
<1>5. ASSUME ~inspection, NEW a \in Answers("ACT"), Exchange("ACT", a),
             th' = [th EXCEPT ![t] = [pc |-> "after", by |-> hat.boot,
                                      knew |-> hat.family = declared]],
             UNCHANGED <<conn, mine, inspection, io, event>>
      PROVE  IInv'
  <2>1. Carried BY <1>5, ExchangeCarried
  <2>. DEFINE k == hat.family = declared
  <2>2. k \in BOOLEAN OBVIOUS
  <2>3. th' = [th EXCEPT ![t] = [pc |-> "after", by |-> hat.boot, knew |-> k]] BY <1>5
  <2>4. k => Known BY DEF Known
  <2>5. hat.boot = identity => k \/ crossed BY <1>1, <1>5, ActKnows DEF Known
  <2>. HIDE DEF k
  <2>6. Moves(t, "after") /\ th'[t].by = hat.boot /\ th'[t].knew = k
    BY <2>2, <2>3, StateFacts DEF Moves, Typed, ThreadState, Threads, Pcs
  <2>7. Proceeds(t, "after")
    BY <1>1, <1>5, <2>1, <2>6, StateFacts DEF Proceeds, ResetPcs, mine
  <2>8. Arrives(t, "after") BY <1>1, <2>5, <2>6, StateFacts DEF Arrives
  <2>9. Departs(t, "after") BY <1>1 DEF Departs
  <2>. QED BY <2>7, <2>8, <2>9, ProceedGood DEF Pcs
<1>6. ASSUME NEW a \in Answers("ACT"), Exchange("ACT", a), Fault(t) PROVE IInv'
  BY <1>1, <1>6, ExchangeCarried, FaultGood DEF Threads
<1>7. ASSUME NEW a \in Answers("ACT"), Exchange("ACT", a), Leave(t), io' = NoOne,
             UNCHANGED <<conn, mine, inspection, event>>
      PROVE  IInv'
  BY <1>3, <1>7, ExchangeCarried
<1>. QED BY <1>2, <1>4, <1>5, <1>6, <1>7

(* The STATUS after it. *)
LEMMA ActAfterGood ==
  ASSUME IInv, NEW t \in Users, ActAfter(t)
  PROVE  IInv'
<1>1. th[t].pc = "after" /\ io = t BY Inside DEF ActAfter, At, Holding
<1>2. PICK a \in Answers("STATUS") :
        /\ Exchange("STATUS", a)
        /\ \/ io' = NoOne /\ Leave(t)
              /\ inspection' = (inspection \/ hat.stopped) /\ UNCHANGED <<conn, mine, event>>
           \/ Fault(t)
  BY DEF ActAfter
<1>3. Carried BY <1>2, ExchangeCarried
<1>4. CASE Fault(t) BY <1>1, <1>3, <1>4, FaultGood DEF Threads
<1>5. CASE io' = NoOne /\ Leave(t) /\ inspection' = (inspection \/ hat.stopped)
           /\ UNCHANGED <<conn, mine, event>>
  <2>1. Moves(t, "idle") BY <1>5, StateFacts, LeaveMoves DEF Threads
  <2>2. inspection' \in BOOLEAN /\ (inspection => inspection') BY <1>5, StateFacts
  <2>3. Proceeds(t, "idle")
    BY <1>1, <1>3, <1>5, <2>1, <2>2, StateFacts DEF Proceeds, Holding, ResetPcs, mine
  <2>4. Arrives(t, "idle") /\ Departs(t, "idle") BY <1>1 DEF Arrives, Departs
  <2>. QED BY <2>3, <2>4, ProceedGood DEF Pcs
<1>. QED BY <1>2, <1>4, <1>5

(* A declaration is kept at once.  Only the lane declares, so it is in no   *)
(* reset; on an open gate it goes on to send the families.                  *)
LEMMA DeclareGood == IInv /\ Declare("lane") => IInv'
<1>. SUFFICES ASSUME IInv, Declare("lane") PROVE IInv' OBVIOUS
<1>1. /\ th["lane"].pc = "idle" /\ io \in {NoOne, "lane"}
      /\ declared' = declared + 1 /\ declared < MaxDecl
      /\ UNCHANGED <<conn, open, identity, inspection, seq, event, beat, hat, late, crossed>>
  BY DEF Declare, At, Free
<1>2. Carried BY <1>1, QuietCarried
<1>3. declared' \in 0..MaxDecl
  BY <1>1, StateFacts, LinkAssumption DEF LinkAssumption
<1>4. \/ conn = "online" /\ ~inspection /\ Goto("lane", "family") /\ io' = "lane"
      \/ ~(conn = "online" /\ ~inspection) /\ UNCHANGED <<th, io>>
  BY DEF Declare
<1>5. CASE ~(conn = "online" /\ ~inspection) /\ UNCHANGED <<th, io>>
  <2>1. TypeOK'
    BY <1>1, <1>2, <1>3, <1>5, TypeParts, TypePartsNext DEF IInv, Scalars, Carried, Typed
  <2>2. FamiliesKnown' BY <1>1, <1>5 DEF FamiliesKnown
  <2>3. ResetKnows' BY <1>1, <1>5 DEF ResetKnows
  <2>4. Roles' /\ Locked' /\ IdentityPast' /\ ActsInBoot' /\ Supervised'
    BY <1>1, <1>5 DEF IInv, Roles, Locked, IdentityPast, ActsInBoot, Supervised
  <2>. QED BY <1>2, <2>1, <2>2, <2>3, <2>4 DEF IInv, Carried
<1>6. CASE conn = "online" /\ ~inspection /\ Goto("lane", "family") /\ io' = "lane"
  <2>1. Moves("lane", "family") BY <1>6, StateFacts, GotoMoves DEF Threads, Users, Pcs
  <2>2. /\ Typed' /\ th'["lane"].pc = "family" /\ th'["svc"] = th["svc"]
        /\ \A b \in Beats : th'[b] = th[b]
    BY <2>1 DEF Moves, Threads, Users, Beats
  <2>3. th["svc"].pc \notin Holding
    BY <1>1 DEF IInv, Locked, Users, NoOne
  <2>4. TypeOK'
    BY <1>1, <1>2, <1>3, <1>6, <2>2, TypeParts, TypePartsNext
    DEF IInv, Scalars, Carried, Users
  <2>5. Roles' BY <2>2 DEF IInv, Roles, Users
  <2>6. Locked' BY <1>6, <2>2, <2>3 DEF Locked, Users
  <2>7. ActsInBoot' BY <1>1, <2>2, <2>3 DEF ActsInBoot, Users, Holding
  <2>8. FamiliesKnown' /\ ResetKnows' BY <2>2 DEF FamiliesKnown, ResetKnows, Users
  <2>9. Supervised' BY <1>1, <2>2 DEF IInv, Supervised, Users
  <2>10. IdentityPast' BY <1>1 DEF IInv, IdentityPast
  <2>. QED BY <1>2, <2>4, <2>5, <2>6, <2>7, <2>8, <2>9, <2>10 DEF IInv, Carried
<1>. QED BY <1>4, <1>5, <1>6

(* The family map is sent: from here on this boot knows it. *)
LEMMA SendFamilyGood ==
  ASSUME IInv, NEW t \in Users, NEW from, NEW to, SendFamily(t, from, to),
         \/ t = "lane" /\ from = "family" /\ to = "idle"
         \/ t = "lane" /\ from = "rFamily" /\ to = "rReset"
         \/ from = "replay" /\ to = "beat"
  PROVE  IInv'
<1>1. th[t].pc = from /\ io = t BY Inside DEF SendFamily, At, Holding
<1>2. PICK a \in Answers("FAMILY") :
        /\ Exchange("FAMILY", a)
        /\ \/ /\ a.how = "ok" /\ Goto(t, to) /\ io' = IF to = "idle" THEN NoOne ELSE io
              /\ UNCHANGED <<conn, mine, inspection, event>>
           \/ Fault(t)
  BY DEF SendFamily
<1>3. Carried BY <1>2, ExchangeCarried
<1>4. CASE Fault(t) BY <1>1, <1>3, <1>4, FaultGood DEF Threads
<1>5. CASE /\ a.how = "ok" /\ Goto(t, to) /\ io' = IF to = "idle" THEN NoOne ELSE io
           /\ UNCHANGED <<conn, mine, inspection, event>>
  <2>1. to \in Pcs /\ to \in {"idle", "rReset", "beat"} /\ (t = "svc" => to = "beat")
    BY DEF Pcs
  <2>2. Moves(t, to) BY <1>5, <2>1, StateFacts, GotoMoves DEF Threads
  <2>3. hat'.family = declared
    BY <1>2, <1>5, TypeParts, ExchangeFacts DEF IInv
  <2>4. Known' BY <1>5, <2>3 DEF Known, mine
  <2>5. io' \in Users \cup {NoOne} /\ (io' = io \/ io \in {NoOne, t})
        /\ (to \in Holding => io' = t)
    BY <1>1, <1>5, <2>1 DEF Holding
  <2>6. Proceeds(t, to)
    BY <1>3, <1>5, <2>1, <2>2, <2>5, StateFacts DEF Proceeds, ResetPcs, mine
  <2>7. Arrives(t, to) BY <2>1, <2>4 DEF Arrives
  <2>8. Departs(t, to) BY <1>1, <2>1, <2>4 DEF Departs
  <2>. QED BY <2>1, <2>6, <2>7, <2>8, ProceedGood
<1>. QED BY <1>2, <1>4, <1>5

-----------------------------------------------------------------------------
(* RESET: the lane only.                                                    *)

(* The STATUS before it: an open gate is one whose boot knows the families. *)
LEMMA ResetBeforeGood == IInv /\ ResetBefore("lane") => IInv'
<1>. SUFFICES ASSUME IInv, ResetBefore("lane") PROVE IInv' OBVIOUS
<1>. DEFINE t == "lane"
            pc == IF hat.stopped THEN "rFamily" ELSE IF inspection THEN "rStop" ELSE "rReset"
<1>1. th["lane"].pc = "rBefore" /\ io \in {NoOne, "lane"} /\ conn = "online"
  BY DEF ResetBefore, At, Free
<1>2. PICK a \in Answers("STATUS") :
        /\ Exchange("STATUS", a)
        /\ \/ /\ SameBoot(a) /\ io' = t /\ inspection' = (inspection \/ hat.stopped)
              /\ Goto(t, pc) /\ UNCHANGED <<conn, mine, event>>
           \/ Fault(t)
  BY DEF ResetBefore
<1>3. Carried /\ t \in Users BY <1>2, ExchangeCarried DEF Users
<1>4. CASE Fault(t) BY <1>1, <1>3, <1>4, FaultGood DEF Threads
<1>5. CASE /\ io' = t /\ inspection' = (inspection \/ hat.stopped)
           /\ Goto(t, pc) /\ UNCHANGED <<conn, mine, event>>
  <2>1. pc \in {"rFamily", "rStop", "rReset"} /\ (pc = "rReset" => ~inspection)
    OBVIOUS
  <2>2. Goto(t, pc) /\ io' = t /\ UNCHANGED <<conn, mine, event>> BY <1>5
  <2>3. inspection' \in BOOLEAN /\ (inspection => inspection') BY <1>5, StateFacts
  <2>. HIDE DEF pc
  <2>4. pc \in Pcs BY <2>1 DEF Pcs
  <2>5. Moves(t, pc) BY <1>3, <2>2, <2>4, StateFacts, GotoMoves DEF Threads
  <2>6. Proceeds(t, pc)
    BY <1>1, <1>3, <2>1, <2>2, <2>3, <2>5, StateFacts DEF Proceeds, mine
  <2>7. pc = "rReset" /\ hat.boot = identity => Known
    <3>1. th["svc"].pc \notin {"replay", "family"}
      BY <1>1 DEF IInv, Locked, Holding, Users, NoOne
    <3>. QED BY <1>1, <2>1, <3>1 DEF IInv, FamiliesKnown, Users
  <2>8. Known => Known' BY <1>3, <2>2 DEF Known, Carried, mine
  <2>9. Arrives(t, pc) BY <2>1, <2>7, <2>8 DEF Arrives
  <2>10. Departs(t, pc) BY <1>1 DEF Departs
  <2>. QED BY <1>3, <2>4, <2>6, <2>9, <2>10, ProceedGood
<1>. QED BY <1>2, <1>4, <1>5

(* A step of the reset that keeps the lock. *)
LEMMA ResetGoesOn ==
  ASSUME IInv, Carried, NEW pc \in {"rStatus", "rFamily", "rAfter"}, io = "lane",
         th["lane"].pc \in {"rStop", "rStatus", "rReset"},
         pc = "rAfter" => th["lane"].pc = "rReset",
         Goto("lane", pc), UNCHANGED <<conn, mine, inspection, io, event>>
  PROVE  IInv'
<1>1. "lane" \in Users /\ pc \in Pcs BY DEF Users, Pcs
<1>2. Moves("lane", pc) BY <1>1, StateFacts, GotoMoves DEF Threads
<1>3. Proceeds("lane", pc) BY <1>1, <1>2, StateFacts DEF Proceeds, mine
<1>4. Known => Known' BY DEF Known, Carried, mine
<1>5. Arrives("lane", pc) BY <1>4 DEF Arrives, IInv, ResetKnows
<1>6. Departs("lane", pc) BY DEF Departs
<1>. QED BY <1>1, <1>3, <1>5, <1>6, ProceedGood

(* The STOP and the STATUS before the RESET of a closed gate.               *)
LEMMA ResetStopsGood == IInv /\ ResetStops("lane") => IInv'
<1>. SUFFICES ASSUME IInv, ResetStops("lane") PROVE IInv' OBVIOUS
<1>1. th["lane"].pc \in {"rStop", "rStatus"} /\ io = "lane" /\ "lane" \in Users
  BY Inside DEF ResetStops, At, Holding, Users
<1>2. \E op \in {"STOP", "STATUS"} : \E a \in Answers(op) : \E pc \in {"rStatus", "rFamily"} :
        /\ Exchange(op, a)
        /\ \/ Goto("lane", pc) /\ UNCHANGED <<conn, mine, inspection, io, event>>
           \/ Fault("lane")
  BY DEF ResetStops
<1>0. PICK op \in {"STOP", "STATUS"} : \E a \in Answers(op) : \E pc \in {"rStatus", "rFamily"} :
        /\ Exchange(op, a)
        /\ \/ Goto("lane", pc) /\ UNCHANGED <<conn, mine, inspection, io, event>>
           \/ Fault("lane")
  BY <1>2
<1>3. PICK a \in Answers(op), pc \in {"rStatus", "rFamily"} :
        /\ Exchange(op, a)
        /\ \/ Goto("lane", pc) /\ UNCHANGED <<conn, mine, inspection, io, event>>
           \/ Fault("lane")
  BY <1>0
<1>4. Carried BY <1>3, ExchangeCarried
<1>. QED BY <1>1, <1>3, <1>4, FaultGood, ResetGoesOn DEF Threads

(* The RESET itself.                                                        *)
LEMMA ResetSentGood == IInv /\ ResetSent("lane") => IInv'
<1>. SUFFICES ASSUME IInv, ResetSent("lane") PROVE IInv' OBVIOUS
<1>1. th["lane"].pc = "rReset" /\ io = "lane" /\ "lane" \in Users
  BY Inside DEF ResetSent, At, Holding, Users
<1>2. PICK a \in Answers("RESET") :
        /\ Exchange("RESET", a)
        /\ \/ Fault("lane")
           \/ Leave("lane") /\ io' = NoOne /\ UNCHANGED <<conn, mine, inspection, event>>
           \/ Goto("lane", "rAfter") /\ UNCHANGED <<conn, mine, inspection, io, event>>
  BY DEF ResetSent
<1>3. Carried BY <1>2, ExchangeCarried
<1>4. ASSUME Leave("lane"), io' = NoOne, UNCHANGED <<conn, mine, inspection, event>>
      PROVE  IInv'
  <2>1. Moves("lane", "idle") BY <1>1, <1>4, StateFacts, LeaveMoves DEF Threads
  <2>2. Proceeds("lane", "idle")
    BY <1>1, <1>3, <1>4, <2>1, StateFacts DEF Proceeds, Holding, mine
  <2>3. Arrives("lane", "idle") /\ Departs("lane", "idle") BY <1>1 DEF Arrives, Departs
  <2>. QED BY <1>1, <2>2, <2>3, ProceedGood DEF Pcs
<1>. QED BY <1>1, <1>2, <1>3, <1>4, FaultGood, ResetGoesOn DEF Threads

(* The STATUS after it: the reset notes the boot it was confirmed by. *)
LEMMA ResetAfterGood == IInv /\ ResetAfter("lane") => IInv'
<1>. SUFFICES ASSUME IInv, ResetAfter("lane") PROVE IInv' OBVIOUS
<1>. DEFINE t == "lane"
            pc == IF inspection THEN "rPolicy" ELSE "rDone"
<1>1. th["lane"].pc = "rAfter" /\ io = "lane" /\ "lane" \in Users
  BY Inside DEF ResetAfter, At, Holding, Users
<1>2. PICK a \in Answers("STATUS") :
        /\ Exchange("STATUS", a)
        /\ \/ /\ io' = NoOne /\ inspection' = (inspection \/ hat.stopped)
              /\ th' = [th EXCEPT ![t].pc = pc, ![t].by = identity]
              /\ UNCHANGED <<conn, mine, event>>
           \/ Fault(t)
  BY DEF ResetAfter
<1>3. Carried BY <1>2, ExchangeCarried
<1>4. CASE Fault(t) BY <1>1, <1>3, <1>4, FaultGood DEF Threads
<1>5. CASE /\ io' = NoOne /\ inspection' = (inspection \/ hat.stopped)
           /\ th' = [th EXCEPT ![t].pc = pc, ![t].by = identity]
           /\ UNCHANGED <<conn, mine, event>>
  <2>1. pc \in {"rPolicy", "rDone"} OBVIOUS
  <2>2. th' = [th EXCEPT ![t].pc = pc, ![t].by = identity] BY <1>5
  <2>3. inspection' \in BOOLEAN /\ (inspection => inspection') BY <1>5, StateFacts
  <2>. HIDE DEF pc
  <2>4. pc \in Pcs BY <2>1 DEF Pcs
  <2>5. Moves(t, pc) /\ th'[t].by = identity
    BY <1>1, <2>2, <2>4, StateFacts DEF Moves, Typed, ThreadState, Threads
  <2>6. Proceeds(t, pc)
    BY <1>1, <1>3, <1>5, <2>1, <2>3, <2>5, StateFacts DEF Proceeds, Holding, mine
  <2>7. Known => Known' BY <1>3, <1>5 DEF Known, Carried, mine
  <2>8. Arrives(t, pc) BY <1>1, <2>1, <2>5, <2>7, StateFacts DEF Arrives, IInv, ResetKnows
  <2>9. Departs(t, pc) BY <1>1 DEF Departs
  <2>. QED BY <1>1, <2>4, <2>6, <2>8, <2>9, ProceedGood
<1>. QED BY <1>2, <1>4, <1>5

(* The motion policy of the boot the reset was confirmed by. *)
LEMMA ResetPolicyGood == IInv /\ ResetPolicy("lane") => IInv'
<1>. SUFFICES ASSUME IInv, ResetPolicy("lane") PROVE IInv' OBVIOUS
<1>1. th["lane"].pc = "rPolicy" /\ io \in {NoOne, "lane"} /\ "lane" \in Users
  BY DEF ResetPolicy, At, Free, Users
<1>2. PICK a \in Answers("CONFIG") :
        /\ Exchange("CONFIG", a)
        /\ \/ Goto("lane", "rDone") /\ UNCHANGED <<conn, mine, inspection, io, event>>
           \/ Fault("lane")
  BY DEF ResetPolicy
<1>3. Carried BY <1>2, ExchangeCarried
<1>4. CASE Fault("lane") BY <1>1, <1>3, <1>4, FaultGood DEF Threads
<1>5. CASE Goto("lane", "rDone") /\ UNCHANGED <<conn, mine, inspection, io, event>>
  <2>1. Moves("lane", "rDone") /\ th'["lane"].by = th["lane"].by
    BY <1>1, <1>5, StateFacts, GotoMoves DEF Threads, Pcs
  <2>2. Proceeds("lane", "rDone")
    BY <1>1, <1>3, <1>5, <2>1, StateFacts DEF Proceeds, Holding, mine
  <2>3. Known => Known' BY <1>3, <1>5 DEF Known, Carried, mine
  <2>4. Arrives("lane", "rDone") BY <1>1, <2>1, <2>3 DEF Arrives, IInv, ResetKnows
  <2>5. Departs("lane", "rDone") BY <1>1 DEF Departs
  <2>. QED BY <1>1, <2>2, <2>4, <2>5, ProceedGood DEF Pcs
<1>. QED BY <1>2, <1>4, <1>5

(* The gate opens: if the link was not reconnected since the reset was      *)
(* confirmed, the boot it is connected to knows the families.               *)
LEMMA ResetDoneGood == IInv /\ ResetDone("lane") => IInv'
<1>. SUFFICES ASSUME IInv, ResetDone("lane") PROVE IInv' OBVIOUS
<1>. DEFINE open_by == th["lane"].by # identity
<1>1. /\ th["lane"].pc = "rDone" /\ inspection' = FALSE /\ Leave("lane")
      /\ crossed' = (crossed \/ open_by)
      /\ UNCHANGED <<conn, open, identity, declared, beat, seq, io, event, hat, late>>
  BY DEF ResetDone, At
<1>2. Carried BY <1>1, QuietCarried
<1>3. open_by \in BOOLEAN /\ (~open_by => identity = th["lane"].by) OBVIOUS
<1>. HIDE DEF open_by
<1>4. Moves("lane", "idle") BY <1>1, StateFacts, LeaveMoves DEF Threads, Users
<1>5. /\ Typed' /\ th'["lane"].pc = "idle" /\ th'["svc"] = th["svc"]
      /\ \A b \in Beats : th'[b] = th[b]
  BY <1>4 DEF Moves, Threads, Users, Beats
<1>6. crossed' \in BOOLEAN /\ (crossed => crossed') /\ (open_by => crossed')
  <2>1. crossed \in BOOLEAN BY TypeParts DEF IInv, Scalars
  <2>. QED BY <1>1, <1>3, <2>1
<1>7. TypeOK'
  BY <1>1, <1>2, <1>5, <1>6, TypeParts, TypePartsNext DEF IInv, Scalars, Carried
<1>8. Roles' BY <1>5 DEF IInv, Roles, Users
<1>9. Locked' BY <1>1, <1>5 DEF IInv, Locked, Users, Holding
<1>10. ActsInBoot' BY <1>1, <1>5, <1>6 DEF IInv, ActsInBoot, Users
<1>11. FamiliesKnown' BY <1>1, <1>3, <1>6 DEF IInv, FamiliesKnown, ResetKnows, Known
<1>12. ResetKnows' BY <1>5 DEF ResetKnows
<1>13. Supervised' BY <1>1, <1>5 DEF IInv, Supervised, Users
<1>14. IdentityPast' BY <1>1 DEF IInv, IdentityPast
<1>. QED BY <1>2, <1>7, <1>8, <1>9, <1>10, <1>11, <1>12, <1>13, <1>14 DEF IInv, Carried

-----------------------------------------------------------------------------
(* Reconnecting.                                                            *)

(* The heartbeat threads are told to end. *)
LEMMA ReconnectGood ==
  ASSUME IInv, NEW t \in Users, Reconnect(t)
  PROVE  IInv'
<1>1. /\ th[t].pc = "idle" /\ event' = TRUE
      /\ UNCHANGED <<conn, mine, inspection, seq, io, hat, late>>
      /\ th' = [x \in Threads |-> IF x = t THEN [Idle EXCEPT !.pc = "join"] ELSE Ended(x)]
  BY DEF Reconnect, At
<1>2. Carried BY <1>1, QuietCarried
<1>3. /\ Idle \in ThreadState /\ Idle.pc = "idle"
      /\ [Idle EXCEPT !.pc = "join"] \in ThreadState /\ [Idle EXCEPT !.pc = "join"].pc = "join"
  <2>1. Idle \in ThreadState /\ Idle.pc = "idle" /\ "join" \in Pcs
    BY LinkAssumption DEF Idle, ThreadState, Pcs, LinkAssumption
  <2>. HIDE DEF Idle, Pcs
  <2>. QED BY <2>1 DEF ThreadState
<1>4. Users \subseteq Threads /\ Beats \subseteq Threads /\ t \notin Beats
  BY DEF Users, Beats, Threads
<1>5. \A x \in Users : ~At(x, "wait") BY DEF IInv, Roles, At
<1>6. /\ Typed' /\ th'[t].pc = "join"
      /\ \A x \in Users \ {t} : th'[x] = th[x]
      /\ \A b \in Beats : th'[b] \in {th[b], Idle}
  BY <1>1, <1>3, <1>4, <1>5, StateFacts DEF Typed, Ended
<1>7. TypeOK'
  BY <1>1, <1>2, <1>6, TypeParts, TypePartsNext DEF IInv, Scalars, Carried, mine
<1>8. Roles' BY <1>3, <1>6 DEF IInv, Roles, Users, ResetPcs
<1>9. Locked' BY <1>1, <1>6 DEF IInv, Locked, Holding
<1>10. ActsInBoot' BY <1>1, <1>6 DEF IInv, ActsInBoot, mine
<1>11. Supervised' BY <1>6 DEF Supervised
<1>12. FamiliesKnown'
  <2>1. (\A x \in Users : th'[x].pc \notin {"replay", "family"})
          => \A x \in Users : th[x].pc \notin {"replay", "family"}
    BY <1>1, <1>6
  <2>. QED BY <1>1, <2>1 DEF IInv, FamiliesKnown, Known, mine
<1>13. ResetKnows'
  BY <1>1, <1>6 DEF IInv, ResetKnows, Known, mine, Users
<1>14. IdentityPast' BY <1>1 DEF IInv, IdentityPast, mine
<1>. QED BY <1>2, <1>7, <1>8, <1>9, <1>10, <1>11, <1>12, <1>13, <1>14 DEF IInv, Carried

(* The heartbeat thread has ended, or the wait for it is over.              *)
LEMMA JoinedGood ==
  ASSUME IInv, NEW t \in Users, Joined(t)
  PROVE  IInv'
<1>1. th[t].pc = "join" BY DEF Joined, At
<1>2. Carried BY QuietCarried DEF Joined
<1>3. Moves(t, "close") BY StateFacts, GotoMoves DEF Joined, Threads, Pcs
<1>4. Proceeds(t, "close")
  BY <1>2, <1>3, StateFacts DEF Proceeds, Joined, Holding, ResetPcs, mine
<1>5. Arrives(t, "close") /\ Departs(t, "close") BY <1>1 DEF Arrives, Departs
<1>. QED BY <1>4, <1>5, ProceedGood DEF Pcs

(* A thread that takes over a link without owner changes what its state     *)
(* says while nobody else is inside an exchange.                            *)
LEMMA CloseGood ==
  ASSUME IInv, NEW t \in Users, Close(t)
  PROVE  IInv'
<1>1. /\ th[t].pc = "close" /\ io \in {NoOne, t} /\ Goto(t, "start")
      /\ open' = FALSE /\ beat' = NoOne
      /\ conn' = IF conn = "online" THEN "closed" ELSE conn
      /\ UNCHANGED <<identity, inspection, declared, seq, io, event, hat, late, crossed>>
  BY DEF Close, At, Free
<1>2. Carried BY <1>1, QuietCarried
<1>3. Moves(t, "start") BY <1>1, StateFacts, GotoMoves DEF Threads, Pcs
<1>4. /\ Typed' /\ th'[t].pc = "start"
      /\ \A x \in Users \ {t} : th'[x] = th[x]
      /\ \A b \in Beats : th'[b] = th[b]
  BY <1>3 DEF Moves, Threads, Users, Beats
<1>5. \A x \in Users : th'[x].pc \notin Holding
  BY <1>1, <1>4 DEF IInv, Locked, Holding, Users, NoOne
<1>6. conn' \in {"offline", "online", "faulted", "closed"} /\ conn' # "online"
  BY <1>1, StateFacts
<1>7. TypeOK'
  BY <1>1, <1>2, <1>4, <1>6, TypeParts, TypePartsNext DEF IInv, Scalars, Carried
<1>8. Roles' BY <1>4 DEF IInv, Roles, Users, ResetPcs
<1>9. Locked' /\ ActsInBoot' BY <1>5 DEF Locked, ActsInBoot, Holding
<1>10. FamiliesKnown' /\ Supervised' BY <1>6 DEF FamiliesKnown, Supervised
<1>11. ResetKnows' BY <1>1, <1>4 DEF IInv, ResetKnows, Known, Users
<1>12. IdentityPast' BY <1>1 DEF IInv, IdentityPast
<1>. QED BY <1>2, <1>7, <1>8, <1>9, <1>10, <1>11, <1>12 DEF IInv, Carried

(* The port is opened, or the link is up already, or opening it fails.      *)
LEMMA StartGood ==
  ASSUME IInv, NEW t \in Users, Start(t)
  PROVE  IInv'
<1>1. th[t].pc = "start" /\ io \in {NoOne, t} BY DEF Start, At, Free
<1>2. \/ Leave(t) /\ UNCHANGED <<conn, mine, inspection, seq, io, event, hat, late>>
      \/ Fault(t) /\ UNCHANGED <<seq, hat, late>>
      \/ /\ open' = TRUE /\ io' = t /\ late' \in {NoAnswer, late} /\ Goto(t, "hello")
         /\ UNCHANGED <<conn, identity, inspection, declared, seq, event, beat, hat, crossed>>
  BY DEF Start
<1>3. CASE Leave(t) /\ UNCHANGED <<conn, mine, inspection, seq, io, event, hat, late>>
  <2>1. Carried BY <1>3, QuietCarried
  <2>2. Moves(t, "idle") BY <1>3, StateFacts, LeaveMoves DEF Threads
  <2>3. Proceeds(t, "idle")
    BY <1>3, <2>1, <2>2, StateFacts DEF Proceeds, Holding, ResetPcs, mine
  <2>4. Arrives(t, "idle") /\ Departs(t, "idle") BY <1>1 DEF Arrives, Departs
  <2>. QED BY <2>3, <2>4, ProceedGood DEF Pcs
<1>4. CASE Fault(t) /\ UNCHANGED <<seq, hat, late>>
  BY <1>1, <1>4, QuietCarried, FaultGood DEF Threads
<1>5. CASE /\ open' = TRUE /\ io' = t /\ late' \in {NoAnswer, late} /\ Goto(t, "hello")
           /\ UNCHANGED <<conn, identity, inspection, declared, seq, event, beat, hat, crossed>>
  <2>1. NoAnswer \in [seq : 0..SeqLimit, boot : 0..MaxBoot]
    BY LinkAssumption DEF NoAnswer, LinkAssumption
  <2>2. Carried BY <1>5, <2>1, TypeParts DEF IInv, Carried, Line, LateIsLast
  <2>3. Moves(t, "hello") BY <1>5, StateFacts, GotoMoves DEF Threads, Pcs
  <2>4. Proceeds(t, "hello")
    BY <1>1, <1>5, <2>2, <2>3, StateFacts DEF Proceeds, Holding, ResetPcs
  <2>5. Arrives(t, "hello") /\ Departs(t, "hello") BY <1>1 DEF Arrives, Departs
  <2>. QED BY <2>4, <2>5, ProceedGood DEF Pcs
<1>. QED BY <1>2, <1>3, <1>4, <1>5

(* HELLO installs the identity of the controller running now.  The gate is  *)
(* closed, or the families are replayed before the lock is released.        *)
LEMMA HelloGood ==
  ASSUME IInv, NEW t \in Users, Hello(t)
  PROVE  IInv'
<1>1. th[t].pc = "hello" /\ io = t /\ \A x \in Users \ {t} : th[x].pc \notin Holding
  BY Inside DEF Hello, At, Holding
<1>. DEFINE pc == IF inspection \/ hat.stopped THEN "beat" ELSE "replay"
<1>2. PICK a \in Answers("HELLO") :
        /\ Exchange("HELLO", a)
        /\ \/ /\ a.how = "ok" /\ identity' = a.boot /\ conn' = "online"
              /\ inspection' = (inspection \/ hat.stopped) /\ Goto(t, pc)
              /\ UNCHANGED <<open, declared, io, supervision, crossed>>
           \/ Fault(t)
  BY DEF Hello
<1>3. Carried BY <1>2, ExchangeCarried
<1>4. CASE Fault(t) BY <1>1, <1>3, <1>4, FaultGood DEF Threads
<1>5. CASE /\ a.how = "ok" /\ identity' = a.boot /\ conn' = "online"
           /\ inspection' = (inspection \/ hat.stopped) /\ Goto(t, pc)
           /\ UNCHANGED <<open, declared, io, supervision, crossed>>
  <2>1. a.boot = hat.boot BY <1>2, <1>5, TypeParts, ExchangeFacts DEF IInv
  <2>2. identity' = hat.boot /\ identity' \in 0..MaxBoot
    BY <1>5, <2>1, StateFacts, LinkAssumption DEF LinkAssumption
  <2>3. pc \in {"beat", "replay"} /\ (~inspection' => pc = "replay")
        /\ inspection' \in BOOLEAN
    BY <1>5, StateFacts
  <2>4. Goto(t, pc) BY <1>5
  <2>. HIDE DEF pc
  <2>5. Moves(t, pc) BY <2>3, <2>4, StateFacts, GotoMoves DEF Threads, Pcs
  <2>6. /\ Typed' /\ th'[t].pc = pc
        /\ \A x \in Users \ {t} : th'[x] = th[x]
        /\ \A b \in Beats : th'[b] = th[b]
    BY <2>5 DEF Moves, Threads, Users, Beats
  <2>7. TypeOK'
    BY <1>3, <1>5, <2>2, <2>3, <2>6, TypeParts, TypePartsNext
    DEF IInv, Scalars, Carried, supervision
  <2>8. Roles' BY <2>3, <2>6 DEF IInv, Roles, Users, ResetPcs
  <2>9. Locked' BY <1>1, <1>5, <2>6 DEF Locked
  <2>10. ActsInBoot' BY <1>1, <2>3, <2>6 DEF ActsInBoot, Holding
  <2>11. FamiliesKnown' BY <2>3, <2>6 DEF FamiliesKnown
  <2>12. ResetKnows'
    <3>1. Known => Known' BY <1>3, <1>5 DEF Known, Carried
    <3>2. th'["lane"].pc \notin {"rReset", "rAfter"}
      BY <1>1, <2>3, <2>6 DEF Users, Holding
    <3>3. th'["lane"].pc \in {"rPolicy", "rDone"} => th'["lane"] = th["lane"]
      BY <2>3, <2>6 DEF Users
    <3>. QED BY <1>3, <3>1, <3>2, <3>3 DEF IInv, ResetKnows, Carried
  <2>13. Supervised' BY <2>3, <2>6 DEF Supervised
  <2>14. IdentityPast' BY <1>3, <2>2, StateFacts DEF IdentityPast, Carried
  <2>. QED BY <1>3, <2>7, <2>8, <2>9, <2>10, <2>11, <2>12, <2>13, <2>14 DEF IInv, Carried
<1>. QED BY <1>2, <1>4, <1>5

(* The heartbeat thread is started, unless both still run.                  *)
LEMMA BeatStartsGood ==
  ASSUME IInv, NEW t \in Users, BeatStarts(t)
  PROVE  IInv'
<1>1. /\ th[t].pc = "beat" /\ event' = FALSE /\ io' = NoOne /\ io = t
      /\ UNCHANGED <<conn, open, identity, inspection, declared, seq, hat, late, crossed>>
      /\ \A x \in Users \ {t} : th[x].pc \notin Holding
  BY Inside DEF BeatStarts, At, Holding
<1>2. Carried BY <1>1, QuietCarried
<1>3. Idle \in ThreadState /\ Idle.pc = "idle"
  BY LinkAssumption DEF Idle, ThreadState, Pcs, LinkAssumption
<1>4. Users \subseteq Threads /\ Beats \subseteq Threads /\ t \notin Beats /\ t \in Threads
      /\ Users \cap Beats = {}
  BY DEF Users, Beats, Threads
<1>5. /\ beat' \in Beats \cup {NoOne}
      /\ Typed' /\ th'[t].pc = "idle"
      /\ \A x \in Users \ {t} : th'[x] = th[x]
      /\ \A b \in Beats : th'[b] = th[b] \/ th'[b].pc = "wait"
      /\ \E b \in Beats : th'[b].pc # "idle"
  <2>1. CASE \E b \in Beats : /\ At(b, "idle") /\ beat' = b
                              /\ th' = [th EXCEPT ![t] = Idle, ![b].pc = "wait"]
    <3>1. PICK b \in Beats : beat' = b /\ th' = [th EXCEPT ![t] = Idle, ![b].pc = "wait"]
      BY <2>1
    <3>2. "wait" \in Pcs /\ b # t /\ b \in Threads BY <1>4 DEF Pcs
    <3>3. th'[t] = Idle /\ th'[b].pc = "wait" /\ Typed'
      BY <1>3, <1>4, <3>1, <3>2, StateFacts DEF Typed, ThreadState
    <3>4. \A x \in Threads \ {t, b} : th'[x] = th[x]
      BY <1>4, <3>1, <3>2, StateFacts DEF Typed
    <3>. QED BY <1>3, <1>4, <3>1, <3>3, <3>4
  <2>2. CASE (\A b \in Beats : ~At(b, "idle")) /\ Leave(t) /\ UNCHANGED beat
    <3>1. beat \in Beats \cup {NoOne} BY TypeParts DEF IInv, Scalars
    <3>2. Moves(t, "idle") BY <1>4, <2>2, StateFacts, LeaveMoves
    <3>3. "h1" \in Beats BY DEF Beats
    <3>. QED BY <1>4, <2>2, <3>1, <3>2, <3>3 DEF Moves, At
  <2>. QED BY <2>1, <2>2 DEF BeatStarts
<1>6. TypeOK'
  BY <1>1, <1>2, <1>5, TypeParts, TypePartsNext DEF IInv, Scalars, Carried
<1>7. Roles' BY <1>5 DEF IInv, Roles, Users, ResetPcs
<1>8. \A x \in Users : th'[x].pc \notin Holding BY <1>1, <1>5 DEF Holding
<1>9. Locked' /\ ActsInBoot' BY <1>8 DEF Locked, ActsInBoot, Holding
<1>10. FamiliesKnown'
  <2>1. \A x \in Users : th[x].pc \notin {"replay", "family"} BY <1>1 DEF Holding
  <2>. QED BY <1>1, <2>1 DEF IInv, FamiliesKnown, Known
<1>11. ResetKnows' BY <1>1, <1>5 DEF IInv, ResetKnows, Known, Users
<1>12. Supervised' BY <1>1, <1>5 DEF Supervised
<1>13. IdentityPast' BY <1>1 DEF IInv, IdentityPast
<1>. QED BY <1>2, <1>6, <1>7, <1>9, <1>10, <1>11, <1>12, <1>13 DEF IInv, Carried

-----------------------------------------------------------------------------
(* The heartbeat thread and the controller.                                 *)

(* A heartbeat thread moves between its own places; the link goes on as it  *)
(* was, and a thread that was not told to end does not.                     *)
LEMMA BeatMovesGood ==
  ASSUME IInv, Carried, NEW b \in Beats, NEW pc \in {"idle", "wait", "beats"},
         Goto(b, pc), pc = "idle" => event,
         UNCHANGED <<conn, mine, io, event>>,
         inspection' \in BOOLEAN, inspection => inspection'
  PROVE  IInv'
<1>1. /\ Moves(b, pc) /\ b \in Threads /\ Users \subseteq Threads \ {b}
      /\ Beats \subseteq Threads
  BY StateFacts, GotoMoves DEF Threads, Users, Beats, Pcs
<1>2. /\ Typed' /\ th'[b].pc = pc
      /\ \A x \in Users : th'[x] = th[x]
      /\ \A x \in Beats \ {b} : th'[x] = th[x]
  BY <1>1 DEF Moves
<1>3. TypeOK'
  BY <1>2, TypeParts, TypePartsNext DEF IInv, Scalars, Carried, mine
<1>4. Roles' BY <1>2 DEF IInv, Roles, Users
<1>5. Locked' BY <1>2 DEF IInv, Locked
<1>6. Known => Known' BY DEF Known, Carried, mine
<1>7. ActsInBoot' BY <1>2 DEF IInv, ActsInBoot, Carried, mine
<1>8. FamiliesKnown' BY <1>2, <1>6 DEF IInv, FamiliesKnown, Carried, mine
<1>9. ResetKnows' BY <1>2, <1>6 DEF IInv, ResetKnows, Carried, mine, Users
<1>10. Supervised' BY <1>2 DEF IInv, Supervised
<1>11. IdentityPast' BY DEF IInv, IdentityPast, Carried, mine
<1>. QED BY <1>3, <1>4, <1>5, <1>7, <1>8, <1>9, <1>10, <1>11 DEF IInv, Carried

(* The interval is over. *)
LEMMA BeatGood ==
  ASSUME IInv, NEW b \in Beats, Beat(b)
  PROVE  IInv'
<1>1. Carried BY QuietCarried DEF Beat
<1>2. inspection' \in BOOLEAN /\ (inspection => inspection') BY StateFacts DEF Beat
<1>3. Goto(b, "beats") /\ UNCHANGED <<conn, mine, io, event>> BY DEF Beat
<1>. QED BY <1>1, <1>2, <1>3, BeatMovesGood

(* A heartbeat was answered, or took the link down. *)
LEMMA BeatenGood ==
  ASSUME IInv, NEW b \in Beats, Beaten(b)
  PROVE  IInv'
<1>. DEFINE pc == IF event THEN "idle" ELSE "wait"
<1>1. PICK a \in Answers("HEARTBEAT") :
        /\ Exchange("HEARTBEAT", a)
        /\ \/ /\ inspection' = (inspection \/ (a.how = "ok" /\ hat.stopped))
              /\ Goto(b, pc) /\ UNCHANGED <<conn, mine, io, event>>
           \/ Fault(b)
  BY DEF Beaten
<1>2. Carried BY <1>1, ExchangeCarried
<1>3. CASE Fault(b) BY <1>2, <1>3, FaultGood DEF Threads, Beaten
<1>4. CASE /\ inspection' = (inspection \/ (a.how = "ok" /\ hat.stopped))
           /\ Goto(b, pc) /\ UNCHANGED <<conn, mine, io, event>>
  <2>1. inspection' \in BOOLEAN /\ (inspection => inspection') BY <1>4, StateFacts
  <2>2. pc \in {"idle", "wait", "beats"} /\ (pc = "idle" => event) OBVIOUS
  <2>3. Goto(b, pc) /\ UNCHANGED <<conn, mine, io, event>> BY <1>4
  <2>. HIDE DEF pc
  <2>. QED BY <1>2, <2>1, <2>2, <2>3, BeatMovesGood
<1>. QED BY <1>1, <1>3, <1>4

(* A reboot forgets the families; the identity is then that of a boot gone. *)
LEMMA RebootsGood ==
  ASSUME IInv, Reboots
  PROVE  IInv'
<1>1. /\ hat' = [boot |-> hat.boot + 1, family |-> 0, stopped |-> FALSE]
      /\ hat.boot < MaxBoot
      /\ UNCHANGED <<conn, mine, inspection, seq, io, event, late, th>>
  BY DEF Reboots
<1>2. /\ hat'.boot = hat.boot + 1 /\ hat.boot \in Int /\ identity \in Int
      /\ identity < hat'.boot
      /\ hat' \in [boot : 1..MaxBoot, family : 0..MaxDecl, stopped : BOOLEAN]
  BY <1>1, StateFacts, LinkAssumption DEF LinkAssumption
<1>3. \A x \in Users : th[x].by \in Int
  BY StateFacts, LinkAssumption DEF Typed, ThreadState, Users, Threads, LinkAssumption
<1>4. TypeOK'
  BY <1>1, <1>2, TypeParts, TypePartsNext DEF IInv, Scalars, Line, Typed, mine
<1>5. Roles' /\ Locked' /\ LateIsLast' /\ Supervised'
  BY <1>1 DEF IInv, Roles, Locked, LateIsLast, Supervised
<1>6. IdentityPast' BY <1>1, <1>2 DEF IdentityPast, mine
<1>7. ActsInBoot' BY <1>1, <1>2, <1>3 DEF IInv, ActsInBoot, mine
<1>8. FamiliesKnown' BY <1>1, <1>2 DEF FamiliesKnown, mine
<1>9. ResetKnows' BY <1>1, <1>2, <1>3 DEF IInv, ResetKnows, mine, Users
<1>. QED BY <1>4, <1>5, <1>6, <1>7, <1>8, <1>9 DEF IInv

(* The controller stops by itself. *)
LEMMA HatStopsGood ==
  ASSUME IInv, HatStops
  PROVE  IInv'
<1>1. /\ hat' = [hat EXCEPT !.stopped = TRUE]
      /\ UNCHANGED <<conn, mine, inspection, seq, io, event, late, th>>
  BY DEF HatStops
<1>2. /\ hat'.boot = hat.boot /\ hat'.family = hat.family
      /\ hat' \in [boot : 1..MaxBoot, family : 0..MaxDecl, stopped : BOOLEAN]
  BY <1>1, StateFacts
<1>4. TypeOK'
  BY <1>1, <1>2, TypeParts, TypePartsNext DEF IInv, Scalars, Line, Typed, mine
<1>5. Roles' /\ Locked' /\ LateIsLast' /\ Supervised'
  BY <1>1 DEF IInv, Roles, Locked, LateIsLast, Supervised
<1>6. IdentityPast' BY <1>1, <1>2 DEF IInv, IdentityPast, mine
<1>7. ActsInBoot' BY <1>1, <1>2 DEF IInv, ActsInBoot, mine
<1>8. FamiliesKnown' BY <1>1, <1>2 DEF IInv, FamiliesKnown, Known, mine
<1>9. ResetKnows' BY <1>1, <1>2 DEF IInv, ResetKnows, Known, mine
<1>. QED BY <1>4, <1>5, <1>6, <1>7, <1>8, <1>9 DEF IInv

-----------------------------------------------------------------------------
(* All steps.                                                               *)

(* The initial state.                                                       *)
LEMMA InitGood == Init => IInv
<1>. SUFFICES ASSUME Init PROVE IInv OBVIOUS
<1>1. Idle \in ThreadState /\ Idle.pc = "idle"
  BY LinkAssumption DEF Idle, ThreadState, Pcs, LinkAssumption
<1>2. NoAnswer \in [seq : 0..SeqLimit, boot : 0..MaxBoot]
  BY LinkAssumption DEF NoAnswer, LinkAssumption
<1>3. [boot |-> 1, family |-> 0, stopped |-> FALSE]
        \in [boot : 1..MaxBoot, family : 0..MaxDecl, stopped : BOOLEAN]
  BY LinkAssumption DEF LinkAssumption
<1>4. \A x \in Threads : th[x] = Idle BY DEF Init
<1>5. Users \subseteq Threads /\ Beats \subseteq Threads /\ "lane" \in Users /\ "svc" \in Users
  BY DEF Users, Beats, Threads
<1>6. Typed BY <1>1 DEF Init, Typed
<1>7. TypeOK
  <2>0. 0 \in 0..MaxBoot /\ 0 \in 0..MaxDecl BY LinkAssumption DEF LinkAssumption
  <2>1. Scalars BY <2>0 DEF Init, Scalars
  <2>2. Line(seq, hat, late) BY <1>2, <1>3, LinkAssumption DEF Init, Line, LinkAssumption
  <2>. QED BY <1>6, <2>1, <2>2, TypeParts
<1>8. Roles BY <1>1, <1>4, <1>5 DEF Roles, ResetPcs
<1>9. Locked /\ ActsInBoot BY <1>1, <1>4, <1>5 DEF Locked, ActsInBoot, Holding
<1>10. FamiliesKnown /\ Supervised /\ LateIsLast BY DEF Init, FamiliesKnown, Supervised, LateIsLast
<1>11. ResetKnows BY <1>1, <1>4, <1>5 DEF ResetKnows
<1>12. IdentityPast BY DEF Init, IdentityPast
<1>. QED BY <1>7, <1>8, <1>9, <1>10, <1>11, <1>12 DEF IInv

(* A guarded command, of either user. *)
LEMMA GuardedGood ==
  ASSUME IInv, NEW t \in Users, Guarded(t)
  PROVE  IInv'
BY NotOnlineGood, ActBeforeGood, ActSentGood, ActAfterGood DEF Guarded

(* A reconnect, of either user. *)
LEMMA ReconnectsGood ==
  ASSUME IInv, NEW t \in Users, Reconnects(t)
  PROVE  IInv'
<1>1. CASE SendFamily(t, "replay", "beat") BY <1>1, SendFamilyGood
<1>. QED BY <1>1, JoinedGood, CloseGood, StartGood, HelloGood, BeatStartsGood DEF Reconnects

(* A RESET, of the lane. *)
LEMMA ResetsGood ==
  ASSUME IInv, Resets("lane")
  PROVE  IInv'
<1>1. CASE SendFamily("lane", "rFamily", "rReset") BY <1>1, SendFamilyGood DEF Users
<1>. QED
  BY <1>1, ResetBeforeGood, ResetStopsGood, ResetSentGood, ResetAfterGood,
     ResetPolicyGood, ResetDoneGood DEF Resets, Users

(* Every step of the admission lane.                                        *)
LEMMA LaneGood ==
  ASSUME IInv, Lane
  PROVE  IInv'
<1>0. "lane" \in Users BY DEF Users
<1>1. CASE ActAsked("lane") BY <1>0, <1>1, AskGood DEF ActAsked
<1>2. CASE Declare("lane") BY <1>0, <1>2, DeclareGood
<1>3. CASE SendFamily("lane", "family", "idle") BY <1>0, <1>3, SendFamilyGood
<1>4. CASE Ask("lane", "rBefore") BY <1>0, <1>4, AskGood
<1>5. CASE Resets("lane") BY <1>5, ResetsGood
<1>6. CASE Reconnect("lane") BY <1>0, <1>6, ReconnectGood
<1>7. CASE Guarded("lane") \/ Reconnects("lane")
  BY <1>0, <1>7, GuardedGood, ReconnectsGood
<1>. QED BY <1>1, <1>2, <1>3, <1>4, <1>5, <1>6, <1>7 DEF Lane

(* Every step of the service thread.                                        *)
LEMMA ServiceGood ==
  ASSUME IInv, Service
  PROVE  IInv'
<1>0. "svc" \in Users BY DEF Users
<1>1. CASE ActAsked("svc") BY <1>0, <1>1, AskGood DEF ActAsked
<1>2. CASE Reconnect("svc") BY <1>0, <1>2, ReconnectGood
<1>3. CASE Guarded("svc") \/ Reconnects("svc")
  BY <1>0, <1>3, GuardedGood, ReconnectsGood
<1>. QED BY <1>1, <1>2, <1>3 DEF Service

(* Every step keeps the inductive invariant. *)
LEMMA NextGood == IInv /\ [Next]_vars => IInv'
<1>. SUFFICES ASSUME IInv, [Next]_vars PROVE IInv' OBVIOUS
<1>1. CASE UNCHANGED vars
  BY <1>1 DEF vars, IInv, TypeOK, Roles, Locked, LateIsLast, IdentityPast, ActsInBoot,
     FamiliesKnown, ResetKnows, Known, Supervised
<1>2. CASE Lane \/ Service BY <1>2, LaneGood, ServiceGood
<1>3. CASE \E b \in Beats : Beat(b) \/ Beaten(b) BY <1>3, BeatGood, BeatenGood
<1>4. CASE Reboots \/ HatStops BY <1>4, RebootsGood, HatStopsGood
<1>. QED BY <1>1, <1>2, <1>3, <1>4 DEF Next

-----------------------------------------------------------------------------
(* What a confirmation rests on.                                            *)

(* Only HELLO changes the identity. *)
LEMMA OnlyHelloIdentifies ==
  ASSUME [Next]_vars, identity' # identity
  PROVE  \E t \in Users : Hello(t)
<1>1. ASSUME NEW t \in Users, Guarded(t) PROVE identity' = identity
  BY <1>1 DEF Guarded, NotOnline, ActBefore, ActSent, ActAfter, Fault, mine
<1>2. ASSUME NEW t \in Users, Resets(t) PROVE identity' = identity
  BY <1>2 DEF Resets, ResetBefore, ResetStops, SendFamily, ResetSent, ResetAfter,
     ResetPolicy, ResetDone, Fault, mine
<1>3. ASSUME NEW t \in Users, Reconnects(t) PROVE identity' = identity \/ Hello(t)
  BY <1>3 DEF Reconnects, Joined, Close, Start, SendFamily, BeatStarts, Fault, mine
<1>4. Lane => identity' = identity \/ Hello("lane")
  BY <1>1, <1>2, <1>3 DEF Lane, ActAsked, Ask, Declare, SendFamily, Reconnect, Fault, mine, Users
<1>5. Service => identity' = identity \/ Hello("svc")
  BY <1>1, <1>3 DEF Service, ActAsked, Ask, Reconnect, mine, Users
<1>6. (\E b \in Beats : Beat(b) \/ Beaten(b)) \/ Reboots \/ HatStops => identity' = identity
  BY DEF Beat, Beaten, Reboots, HatStops, Fault, mine
<1>. QED BY <1>4, <1>5, <1>6 DEF Next, vars, Users

(* A thread that waits for the STATUS after its command goes on only by it. *)
LEMMA OnlyStatusConfirms ==
  ASSUME IInv, [Next]_vars, NEW t \in Users, th[t].pc = "after"
  PROVE  th'[t] = th[t] \/ ActAfter(t)
<1>1. /\ Typed /\ t \in Threads
      /\ \A b \in Beats : b # t /\ b \in Threads
      /\ \A x \in Users : x \in Threads
  BY StateFacts DEF Users, Beats, Threads
<1>2. ASSUME NEW x \in Threads, NEW pc, Goto(x, pc) \/ Leave(x), x # t
      PROVE  th'[t] = th[t]
  BY <1>1, <1>2 DEF Goto, Leave, Typed
<1>3. ASSUME NEW x \in Threads, Fault(x), x # t PROVE th'[t] = th[t]
  BY <1>1, <1>3 DEF Fault, Ended, At
<1>4. ASSUME NEW x \in Users, Guarded(x) PROVE th'[t] = th[t] \/ ActAfter(t)
  <2>1. CASE x = t
    BY <2>1, <1>4 DEF Guarded, NotOnline, ActBefore, ActSent, At
  <2>2. CASE x # t
    <3>1. \/ \E pc : Goto(x, pc) \/ Leave(x)
          \/ Fault(x)
          \/ \E r : th' = [th EXCEPT ![x] = r]
      BY <1>4 DEF Guarded, NotOnline, ActBefore, ActSent, ActAfter
    <3>2. ASSUME NEW r, th' = [th EXCEPT ![x] = r] PROVE th'[t] = th[t]
      BY <1>1, <2>2, <3>2 DEF Typed
    <3>. QED BY <1>1, <1>2, <1>3, <2>2, <3>1, <3>2
  <2>. QED BY <2>1, <2>2
<1>5. ASSUME NEW x \in Users, Reconnects(x) PROVE th'[t] = th[t]
  <2>1. x # t
    BY <1>5 DEF Reconnects, Joined, Close, Start, Hello, SendFamily, BeatStarts, At
  <2>2. \/ \E pc : Goto(x, pc) \/ Leave(x)
        \/ Fault(x)
        \/ \E b \in Beats : th' = [th EXCEPT ![x] = Idle, ![b].pc = "wait"]
    BY <1>5 DEF Reconnects, Joined, Close, Start, Hello, SendFamily, BeatStarts
  <2>3. ASSUME NEW b \in Beats, th' = [th EXCEPT ![x] = Idle, ![b].pc = "wait"]
        PROVE  th'[t] = th[t]
    BY <1>1, <2>1, <2>3 DEF Typed
  <2>. QED BY <1>1, <1>2, <1>3, <2>1, <2>2, <2>3
<1>6. ASSUME Resets("lane") PROVE th'[t] = th[t]
  <2>0. "lane" \in Threads BY DEF Users, Threads
  <2>1. t # "lane"
    BY <1>6 DEF Resets, ResetBefore, ResetStops, SendFamily, ResetSent, ResetAfter,
       ResetPolicy, ResetDone, At
  <2>2. \/ \E pc : Goto("lane", pc) \/ Leave("lane")
        \/ Fault("lane")
        \/ \E pc, by : th' = [th EXCEPT !["lane"].pc = pc, !["lane"].by = by]
    BY <1>6 DEF Resets, ResetBefore, ResetStops, SendFamily, ResetSent, ResetAfter,
       ResetPolicy, ResetDone
  <2>3. ASSUME NEW pc, NEW by, th' = [th EXCEPT !["lane"].pc = pc, !["lane"].by = by]
        PROVE  th'[t] = th[t]
    BY <1>1, <2>1, <2>3 DEF Typed
  <2>. QED BY <1>2, <1>3, <2>0, <2>1, <2>2, <2>3
<1>7. ASSUME NEW x \in Users, ActAsked(x) \/ Ask(x, "rBefore") \/ Reconnect(x)
      PROVE  th'[t] = th[t]
  <2>1. x # t BY <1>7 DEF ActAsked, Ask, Reconnect, At
  <2>2. CASE ActAsked(x) \/ Ask(x, "rBefore")
    <3>1. \E pc : Goto(x, pc) BY <2>2 DEF ActAsked, Ask
    <3>. QED BY <1>1, <1>2, <2>1, <3>1
  <2>3. CASE Reconnect(x) BY <1>1, <2>1, <2>3 DEF Reconnect, Ended, At
  <2>. QED BY <1>7, <2>2, <2>3
<1>8. ASSUME Declare("lane") \/ SendFamily("lane", "family", "idle") PROVE th'[t] = th[t]
  <2>0. "lane" \in Threads BY DEF Users, Threads
  <2>1. t # "lane" BY <1>8 DEF Declare, SendFamily, At
  <2>2. (\E pc : Goto("lane", pc)) \/ Fault("lane") \/ th' = th
    BY <1>8 DEF Declare, SendFamily
  <2>. QED BY <1>2, <1>3, <2>0, <2>1, <2>2
<1>9. ASSUME NEW b \in Beats, Beat(b) \/ Beaten(b) PROVE th'[t] = th[t]
  <2>1. (\E pc : Goto(b, pc)) \/ Fault(b) BY <1>9 DEF Beat, Beaten
  <2>. QED BY <1>1, <1>2, <1>3, <2>1
<1>10. Lane => th'[t] = th[t] \/ ActAfter(t)
  BY <1>4, <1>5, <1>6, <1>7, <1>8 DEF Lane, Users
<1>11. Service => th'[t] = th[t] \/ ActAfter(t)
  BY <1>4, <1>5, <1>7 DEF Service, Users
<1>12. Reboots \/ HatStops \/ UNCHANGED vars => th'[t] = th[t]
  BY DEF Reboots, HatStops, vars
<1>. QED BY <1>9, <1>10, <1>11, <1>12 DEF Next

(* What a confirmation says, for one step.                                  *)
LEMMA ConfirmationTrue ==
  ASSUME IInv, [Next]_vars
  PROVE  IdentityIsCurrent /\ ConfirmedInOneBoot /\ ConfirmedKnewFamilies
<1>1. Line(seq, hat, late) /\ Scalars /\ LateIsLast /\ Typed BY TypeParts DEF IInv
<1>2. IdentityIsCurrent
  <2>. SUFFICES ASSUME identity' # identity PROVE identity' = hat.boot
    BY DEF IdentityIsCurrent
  <2>1. PICK t \in Users : Hello(t) BY OnlyHelloIdentifies
  <2>2. PICK a \in Answers("HELLO") :
          Exchange("HELLO", a) /\ a.how = "ok" /\ identity' = a.boot
    BY <2>1 DEF Hello, Fault
  <2>. QED BY <1>1, <2>2, ExchangeFacts
<1>3. ASSUME NEW t \in Users, Confirmed(t)
      PROVE  /\ th[t].by = identity /\ hat.boot = identity
             /\ th[t].knew \/ crossed
  <2>1. th[t].pc = "after" /\ th'[t].pc = "idle" /\ conn' = "online"
    BY <1>3 DEF Confirmed, At
  <2>2. ActAfter(t) BY <2>1, OnlyStatusConfirms
  <2>3. PICK a \in Answers("STATUS") : Exchange("STATUS", a) /\ SameBoot(a)
    BY <2>1, <2>2 DEF ActAfter, Fault
  <2>4. hat.boot = identity BY <1>1, <2>3, ExchangeFacts DEF SameBoot
  <2>5. th[t].by \in Int /\ identity \in Int
    BY <1>1, LinkAssumption DEF Typed, ThreadState, Scalars, Users, Threads, LinkAssumption
  <2>6. identity <= th[t].by /\ th[t].by <= hat.boot
        /\ (th[t].by = identity => th[t].knew \/ crossed)
    BY <2>1 DEF IInv, ActsInBoot
  <2>. QED BY <2>4, <2>5, <2>6
<1>4. ConfirmedInOneBoot BY <1>3 DEF ConfirmedInOneBoot
<1>5. ConfirmedKnewFamilies BY <1>3 DEF ConfirmedKnewFamilies
<1>. QED BY <1>2, <1>4, <1>5

-----------------------------------------------------------------------------
(* The link is of the type it says, its lock has one owner, at most the     *)
(* answer of the last request is on its way, the identity is of a boot that *)
(* was, and an open gate on an online link means the running controller     *)
(* holds every family declared (_command_with_identity_guard, reset,        *)
(* start): in every state.                                                  *)
THEOREM LinkInductive == Spec => []IInv
<1>1. Init => IInv BY InitGood
<1>2. IInv /\ [Next]_vars => IInv' BY NextGood
<1>. QED BY <1>1, <1>2, PTL DEF Spec

(* An online link has a heartbeat thread that was not told to end, unless a *)
(* reconnect is under way (close, start, _heartbeat_loop).                  *)
THEOREM Supervision == Spec => []LinkIsSupervised
<1>1. IInv => LinkIsSupervised
  <2>. SUFFICES ASSUME IInv PROVE TypeOK /\ OnlineIsSupervised BY DEF LinkIsSupervised
  <2>1. Supervised /\ TypeOK BY DEF IInv
  <2>. QED BY <2>1 DEF Supervised, OnlineIsSupervised, At
<1>. QED BY <1>1, LinkInductive, PTL

(* A command reported as done was carried out by the boot that still runs,  *)
(* by a controller that knew every family declared, and the identity that   *)
(* HELLO installs is of the controller that answers now: whatever is lost,  *)
(* late or rebooted (_command_with_identity_guard, _parse_response).        *)
THEOREM Confirmation == Spec => ConfirmedIsTrue
<1>1. IInv /\ [Next]_vars
        => [IdentityIsCurrent /\ ConfirmedInOneBoot /\ ConfirmedKnewFamilies]_vars
  BY ConfirmationTrue
<1>. QED BY <1>1, LinkInductive, PTL DEF Spec, ConfirmedIsTrue

=============================================================================
