----------------------------- MODULE ServoProofs -----------------------------
(***************************************************************************)
(* Proofs about what HAT and gateway believe of the servos: the count of a *)
(* joint's turns (Odometer), the torque-off obligations (TorqueOffRetry),  *)
(* the counted frame of the Base (BaseFrame), the evidence and the profile *)
(* of a multi-turn joint (Commissioning) and the IDs on the bus (JointIds);*)
(* then about MCServos, where a behaviour is of one of the five.           *)
(*                                                                         *)
(* The first five parts are about each module's own specification and hold *)
(* for every value of its constants and every set of faults.               *)
(***************************************************************************)
EXTENDS MCServos, Sequences, WellFoundedInduction, TLAPS

-----------------------------------------------------------------------------
(* The count of a joint's turns, for every set of angles it may be turned   *)
(* to and every limit of turns.                                             *)
(*                                                                          *)
(* CountIsTrue alone is not inductive: a wrapping sample adds the ticks     *)
(* between two readings, which says nothing of the joint unless the count   *)
(* agrees with the joint's angle up to whole turns.  Counted adds that.     *)
Whole(n) == \E k \in Int : n = k * Odo!Turn

Counted ==
  count.valid /\ ~lost => Odo!Value = shown.value /\ Whole(shown.value - shown.place)

CountInv == Odo!TypeOK /\ Counted

-----------------------------------------------------------------------------
(* Arithmetic of one turn. *)
LEMMA WithinTurn ==
  ASSUME NEW r \in 0..(Odo!Turn - 1)
  PROVE  r \in Int /\ 0 <= r /\ r < Odo!Turn
BY SMT DEF Odo!Turn

LEMMA SplitTurns ==
  ASSUME NEW c \in Int
  PROVE  /\ c \div Odo!Turn \in Int /\ c % Odo!Turn \in 0..(Odo!Turn - 1)
         /\ (c \div Odo!Turn) * Odo!Turn + (c % Odo!Turn) = c
BY SMT DEF Odo!Turn

LEMMA WholeRests ==
  ASSUME NEW n \in Int, Whole(n)
  PROVE  n % Odo!Turn = 0
BY SMT DEF Whole, Odo!Turn

(* A count and a coordinate that agree with one angle up to whole turns.    *)
LEMMA SameAngle ==
  ASSUME NEW v \in Int, NEW c \in Int, NEW p \in Int, Whole(v - p), Whole(c - p)
  PROVE  Whole(c - v) /\ (c - v) % Odo!Turn = 0
<1>1. PICK i \in Int : v - p = i * Odo!Turn BY DEF Whole
<1>2. PICK j \in Int : c - p = j * Odo!Turn BY DEF Whole
<1>3. j - i \in Int /\ c - v = (j - i) * Odo!Turn
  BY <1>1, <1>2, SMT DEF Odo!Turn
<1>4. Whole(c - v) /\ c - v \in Int BY <1>3 DEF Whole
<1>5. QED BY <1>4, WholeRests

(* Two readings within one turn, of a joint that moved from p to q, less    *)
(* than half a turn, tell how far and which way it moved.                   *)
LEMMA ShorterWay ==
  ASSUME NEW revs \in Int, NEW r \in Int, 0 <= r, r < Odo!Turn,
         NEW c \in Int, 0 <= c, c < Odo!Turn, NEW v \in Int, NEW p \in Int, NEW q \in Int,
         NEW moved \in Int, moved = q - p, -Odo!Half < moved, moved < Odo!Half,
         revs * Odo!Turn + r = v, Whole(v - p), Whole(c - q)
  PROVE  /\ c - r > Odo!Half => (revs - 1) * Odo!Turn + c = v + moved
         /\ c - r < -Odo!Half => (revs + 1) * Odo!Turn + c = v + moved
         /\ c - r <= Odo!Half /\ c - r >= -Odo!Half => revs * Odo!Turn + c = v + moved
<1>1. PICK i \in Int : v - p = i * Odo!Turn BY DEF Whole
<1>2. PICK j \in Int : c - q = j * Odo!Turn BY DEF Whole
<1>3. PICK k \in Int : k = revs + j - i
  BY <1>1, <1>2
<1>4. c - r - moved = k * Odo!Turn
  BY <1>1, <1>2, <1>3, SMT DEF Odo!Turn
<1>5. k = -1 \/ k = 0 \/ k = 1
  BY <1>4, SMT DEF Odo!Turn, Odo!Half
<1>6. QED BY <1>4, <1>5, SMT DEF Odo!Turn, Odo!Half

(* The turn nearest to a count is the right one for the same reason.        *)
LEMMA NearestTurn ==
  ASSUME NEW v \in Int, NEW c \in Int, NEW p \in Int, NEW q \in Int,
         NEW moved \in Int, moved = q - p, -Odo!Half < moved, moved < Odo!Half,
         Whole(v - p), Whole(c - q), NEW t \in Int, t = (v - c + Odo!Half) \div Odo!Turn
  PROVE  t * Odo!Turn + c = v + moved
<1>1. PICK i \in Int : v - p = i * Odo!Turn BY DEF Whole
<1>2. PICK j \in Int : c - q = j * Odo!Turn BY DEF Whole
<1>3. PICK k \in Int : k = i - j
  BY <1>1, <1>2
<1>4. v + moved - c = k * Odo!Turn
  BY <1>1, <1>2, <1>3, SMT DEF Odo!Turn
<1>5. (v - c + Odo!Half) \div Odo!Turn = k
  BY <1>4, SMT DEF Odo!Turn, Odo!Half
<1>6. QED BY <1>4, <1>5, SMT DEF Odo!Turn

LEMMA CoordinateType ==
  ASSUME Odo!TypeOK
  PROVE  /\ angle \in Int /\ Odo!Moved \in Int /\ Odo!Value \in Int
         /\ Odo!Lacks \in Int /\ Odo!Coordinate \in Int /\ Whole(Odo!Coordinate - angle)
<1>1. angle \in Int /\ servo.lacks \in Int
  BY ServosAssumption DEF Odo!TypeOK
<1>2. Odo!Lacks \in Int
  BY <1>1, SplitTurns DEF Odo!Lacks
<1>3. Odo!Coordinate \in Int /\ Whole(Odo!Coordinate - angle)
  BY <1>1, <1>2, SMT DEF Odo!Coordinate, Whole, Odo!Turn
<1>4. /\ shown.place \in Int /\ count.revs \in Int
      /\ count.raw \in 0..(Odo!Turn - 1)
  BY DEF Odo!TypeOK
<1>5. count.raw \in Int
  BY <1>4, WithinTurn
<1>6. Odo!Moved \in Int /\ Odo!Value \in Int
  BY <1>1, <1>4, <1>5 DEF Odo!Moved, Odo!Value, Odo!Turn
<1>7. QED BY <1>1, <1>2, <1>3, <1>6

-----------------------------------------------------------------------------
(* What one sample does to the count, in each of the three ways to read it. *)
CountType ==
  [tracking : BOOLEAN, valid : BOOLEAN, revs : Int, raw : 0..(Odo!Turn - 1),
   missed : BOOLEAN, mode : BOOLEAN]

Agrees(n) ==
  n.valid /\ ~lost'
    => n.revs * Odo!Turn + n.raw = shown.value + Odo!Moved
             /\ Whole(shown.value + Odo!Moved - angle)

LEMMA SignedSample ==
  ASSUME CountInv, lost' = (lost \/ Odo!Hidden(TRUE))
  PROVE  Odo!Native(Odo!Coordinate) \in CountType /\ Agrees(Odo!Native(Odo!Coordinate))
<1> DEFINE c == Odo!Coordinate
<1>1. /\ angle \in Int /\ shown.place \in Int /\ shown.value \in Int /\ c \in Int
      /\ Odo!Value \in Int /\ Odo!Moved \in Int /\ Odo!Moved = angle - shown.place
      /\ count \in CountType /\ Whole(c - angle)
  BY CoordinateType DEF CountInv, Odo!TypeOK, Odo!Moved, CountType
<1>2. /\ c \div Odo!Turn \in Int /\ c % Odo!Turn \in 0..(Odo!Turn - 1)
      /\ (c \div Odo!Turn) * Odo!Turn + (c % Odo!Turn) = c
  BY <1>1, SplitTurns
<1>3. CASE Odo!Native(c) = Odo!Broken
  BY <1>1, <1>3 DEF Odo!Broken, CountType, Agrees
<1>4. CASE Odo!Native(c) # Odo!Broken
  <2>1. Odo!Continuous(c)
        /\ Odo!Native(c) = [count EXCEPT !.revs = c \div Odo!Turn, !.raw = c % Odo!Turn,
                                    !.missed = FALSE]
    BY <1>4 DEF Odo!Native, Odo!Stored, Odo!Broken
  <2>2. /\ Odo!Native(c) \in CountType /\ Odo!Native(c).valid = count.valid
        /\ Odo!Native(c).revs = c \div Odo!Turn /\ Odo!Native(c).raw = c % Odo!Turn
    BY <1>1, <1>2, <2>1 DEF CountType
  <2>3. ASSUME count.valid, ~lost'
        PROVE  c = shown.value + Odo!Moved
             /\ Whole(shown.value + Odo!Moved - angle)
    <3>1. Odo!Value = shown.value /\ Whole(shown.value - shown.place) /\ ~Odo!Hidden(TRUE)
      BY <2>3 DEF CountInv, Counted
    <3>2. Whole(shown.value + Odo!Moved - angle)
      <4>1. shown.value + Odo!Moved - angle = shown.value - shown.place
        BY <1>1
      <4>2. QED BY <3>1, <4>1
    <3>3. CASE c # shown.value + Odo!Moved
      <4>1. Odo!Moved = 0 /\ (quick \/ count.missed)
        BY <3>1, <3>3 DEF Odo!Hidden
      <4>2. (c - Odo!Value) % Odo!Turn = 0
        <5>1. angle = shown.place
          BY <1>1, <4>1
        <5>2. Whole(Odo!Value - shown.place) /\ Whole(c - shown.place)
          BY <1>1, <3>1, <5>1
        <5>3. QED BY <1>1, <5>2, SameAngle
      <4>3. c # Odo!Value
        BY <1>1, <3>1, <3>3, <4>1
      <4>4. QED BY <2>1, <2>3, <4>1, <4>2, <4>3 DEF Odo!Continuous
    <3>4. QED BY <3>2, <3>3
  <2>4. QED BY <1>2, <2>2, <2>3 DEF Agrees
<1>5. QED BY <1>3, <1>4

LEMMA WrappedSample ==
  ASSUME CountInv, lost' = (lost \/ Odo!Hidden(FALSE)), Odo!Single(Odo!Coordinate)
  PROVE  Odo!Wrapped(Odo!Coordinate) \in CountType /\ Agrees(Odo!Wrapped(Odo!Coordinate))
<1> DEFINE c == Odo!Coordinate
           turns == IF ~count.valid THEN count.revs
                    ELSE IF c - count.raw > Odo!Half THEN count.revs - 1
                    ELSE IF c - count.raw < -Odo!Half THEN count.revs + 1
                    ELSE count.revs
           n == Odo!Wrapped(c)
<1>1. /\ angle \in Int /\ shown.place \in Int /\ shown.value \in Int
      /\ c \in Int /\ 0 <= c /\ c < Odo!Turn /\ c \in 0..(Odo!Turn - 1)
      /\ Odo!Moved \in Int /\ Odo!Moved = angle - shown.place /\ Whole(c - angle)
  <2>1. c \in Int /\ 0 <= c /\ c < Odo!Turn
    BY CoordinateType DEF CountInv, Odo!Single
  <2>2. c \in 0..(Odo!Turn - 1)
    BY <2>1, SMT DEF Odo!Turn
  <2>3. QED BY <2>1, <2>2, CoordinateType DEF CountInv, Odo!TypeOK, Odo!Moved
<1>2. /\ count \in CountType /\ count.revs \in Int /\ count.valid \in BOOLEAN
      /\ count.raw \in 0..(Odo!Turn - 1)
  BY DEF CountInv, Odo!TypeOK, CountType
<1>3. count.raw \in Int /\ 0 <= count.raw /\ count.raw < Odo!Turn
  BY <1>2, WithinTurn
<1>4. turns \in Int
  BY <1>2
<1>5. n = [count EXCEPT !.revs = turns, !.raw = c,
                        !.valid = @ /\ -MaxTurns <= turns /\ turns <= MaxTurns]
  BY DEF Odo!Wrapped
<1>6. n \in CountType /\ n.revs = turns /\ n.raw = c /\ (n.valid => count.valid)
  <2> HIDE DEF turns, c, n
  <2>1. (count.valid /\ -MaxTurns <= turns /\ turns <= MaxTurns) \in BOOLEAN
    OBVIOUS
  <2>2. QED BY <1>1, <1>2, <1>4, <1>5, <2>1 DEF CountType
<1>7. ASSUME count.valid, ~lost'
      PROVE  turns * Odo!Turn + c = shown.value + Odo!Moved
             /\ Whole(shown.value + Odo!Moved - angle)
  <2>1. ~lost /\ ~Odo!Hidden(FALSE)
    BY <1>7
  <2>2. count.revs * Odo!Turn + count.raw = shown.value /\ Whole(shown.value - shown.place)
    BY <1>7, <2>1 DEF CountInv, Counted, Odo!Value
  <2>3. -Odo!Half < Odo!Moved /\ Odo!Moved < Odo!Half
    BY <1>1, <2>1 DEF Odo!Hidden, Odo!Half
  <2>4. shown.value + Odo!Moved - angle = shown.value - shown.place
    BY <1>1
  <2> HIDE DEF c, turns
  <2>5. /\ c - count.raw > Odo!Half => (count.revs - 1) * Odo!Turn + c = shown.value + Odo!Moved
        /\ c - count.raw < -Odo!Half => (count.revs + 1) * Odo!Turn + c = shown.value + Odo!Moved
        /\ c - count.raw <= Odo!Half /\ c - count.raw >= -Odo!Half
             => count.revs * Odo!Turn + c = shown.value + Odo!Moved
    BY <1>1, <1>2, <1>3, <2>2, <2>3, ShorterWay
  <2>6. \/ c - count.raw > Odo!Half /\ turns = count.revs - 1
        \/ c - count.raw < -Odo!Half /\ turns = count.revs + 1
        \/ c - count.raw <= Odo!Half /\ c - count.raw >= -Odo!Half /\ turns = count.revs
    BY <1>1, <1>3, <1>7 DEF turns, Odo!Half
  <2>7. turns * Odo!Turn + c = shown.value + Odo!Moved
    BY <2>5, <2>6
  <2>8. Whole(shown.value + Odo!Moved - angle)
    BY <2>2, <2>4
  <2>9. QED BY <2>7, <2>8 DEF turns, c
<1>8. n \in CountType /\ Agrees(n)
  <2> HIDE DEF n, turns, c
  <2>1. ASSUME n.valid, ~lost'
        PROVE  n.revs * Odo!Turn + n.raw = shown.value + Odo!Moved
             /\ Whole(shown.value + Odo!Moved - angle)
    BY <1>6, <1>7, <2>1
  <2>2. QED BY <1>6, <2>1 DEF Agrees
<1>9. QED BY <1>8

-----------------------------------------------------------------------------
(* A sample moves the history along, and a count that agrees stays Counted. *)
LEMMA ObservedKeeps ==
  ASSUME CountInv, NEW signed \in BOOLEAN, Odo!Observed(signed), UNCHANGED <<angle, servo>>,
         extended' \in BOOLEAN, count' \in CountType, Agrees(count')
  PROVE  CountInv'
<1>1. /\ angle \in Int /\ shown.place \in Int /\ shown.value \in Int /\ Odo!Moved \in Int
      /\ angle \in Turnable /\ lost \in BOOLEAN
  BY CoordinateType DEF CountInv, Odo!TypeOK
<1>2. Odo!Hidden(signed) \in BOOLEAN
  BY DEF Odo!Hidden
<1>3. lost' \in BOOLEAN /\ quick' = TRUE
  BY <1>1, <1>2 DEF Odo!Observed
<1>4. shown'.place = angle /\ (~lost' => shown'.value = shown.value + Odo!Moved)
  BY DEF Odo!Observed
<1>5. shown.value + Odo!Moved \in Int
  BY <1>1
<1>6. shown' \in [place : Int, value : Int]
  BY <1>1, <1>5 DEF Odo!Observed
<1>7. angle' \in Turnable /\ servo' \in [extended : BOOLEAN, lacks : Int]
  BY DEF CountInv, Odo!TypeOK
<1>8. Odo!TypeOK'
  BY <1>3, <1>6, <1>7, Zenon DEF Odo!TypeOK, CountType
<1>9. Counted'
  <2>1. ASSUME count'.valid, ~lost'
        PROVE  Odo!Value' = shown'.value /\ Whole(shown'.value - shown'.place)
    <3>1. /\ count'.revs * Odo!Turn + count'.raw = shown.value + Odo!Moved
          /\ Whole(shown.value + Odo!Moved - angle)
      BY <2>1 DEF Agrees
    <3>2. shown'.value = shown.value + Odo!Moved /\ shown'.place = angle
      BY <1>4, <2>1
    <3>3. Odo!Value' = count'.revs * Odo!Turn + count'.raw
      BY DEF Odo!Value
    <3>4. Odo!Value' = shown'.value
      BY <3>1, <3>2, <3>3
    <3>5. shown'.value - shown'.place = shown.value + Odo!Moved - angle
      BY <1>1, <1>5, <3>2
    <3>6. Whole(shown'.value - shown'.place)
      BY <3>1, <3>5
    <3>7. QED BY <3>4, <3>6
  <2>2. QED BY <2>1 DEF Counted
<1>10. QED BY <1>8, <1>9 DEF CountInv

(* A step that leaves joint and history alone keeps a count that it does    *)
(* not make valid and whose turns it leaves alone while it is.              *)
LEMMA QuietKeeps ==
  ASSUME CountInv, UNCHANGED <<angle, shown, lost>>,
         servo' \in [extended : BOOLEAN, lacks : Int],
         extended' \in BOOLEAN, quick' \in BOOLEAN, count' \in CountType,
         count'.valid => count.valid /\ count'.revs = count.revs /\ count'.raw = count.raw
  PROVE  CountInv'
BY DEF CountInv, Odo!TypeOK, CountType, Counted, Odo!Value

LEMMA TurnsKeeps == CountInv /\ Odo!Turns => CountInv'
BY DEF CountInv, Odo!TypeOK, Counted, Odo!Value, Odo!Turns

LEMMA ElapsesKeeps == CountInv /\ Odo!Elapses => CountInv'
BY QuietKeeps DEF CountInv, Odo!TypeOK, CountType, Odo!Elapses

LEMMA ServoCyclesKeeps == CountInv /\ Odo!ServoCycles => CountInv'
<1> SUFFICES ASSUME CountInv, Odo!ServoCycles PROVE CountInv'
  OBVIOUS
<1>1. angle \in Int
  BY CoordinateType DEF CountInv
<1>2. angle \div Odo!Turn \in Int
  BY <1>1, SplitTurns
<1>3. servo' \in [extended : BOOLEAN, lacks : Int]
  BY <1>2 DEF CountInv, Odo!TypeOK, Odo!ServoCycles
<1>4. QED BY <1>3, QuietKeeps DEF CountInv, Odo!TypeOK, CountType, Odo!ServoCycles

LEMMA UntrackedType == Odo!Untracked \in CountType
BY SMT DEF Odo!Untracked, CountType, Odo!Turn

LEMMA HatRestartsKeeps == CountInv /\ Odo!HatRestarts => CountInv'
<1> SUFFICES ASSUME CountInv, Odo!HatRestarts PROVE CountInv'
  OBVIOUS
<1>1. count' \in CountType /\ ~count'.valid
  BY UntrackedType DEF Odo!HatRestarts, Odo!Untracked
<1>2. QED BY <1>1, QuietKeeps DEF CountInv, Odo!TypeOK, Odo!HatRestarts

LEMMA SampleFailsKeeps == CountInv /\ (Odo!SampleFails \/ Odo!SampleUnread) => CountInv'
<1> SUFFICES ASSUME CountInv, Odo!SampleFails \/ Odo!SampleUnread PROVE CountInv'
  OBVIOUS
<1>1. count \in CountType /\ extended \in BOOLEAN
  BY DEF CountInv, Odo!TypeOK, CountType
<1>2. PICK m \in BOOLEAN : count' = [count EXCEPT !.missed = m]
  BY <1>1 DEF Odo!SampleFails, Odo!SampleUnread, CountType
<1>3. /\ count' \in CountType /\ count'.valid = count.valid
      /\ count'.revs = count.revs /\ count'.raw = count.raw
  BY <1>1, <1>2 DEF CountType
<1>4. QED BY <1>3, QuietKeeps DEF CountInv, Odo!TypeOK, Odo!SampleFails, Odo!SampleUnread

LEMMA SampleKeeps == CountInv /\ Odo!Sample => CountInv'
<1> SUFFICES ASSUME CountInv, Odo!Sample PROVE CountInv'
  OBVIOUS
<1>1. lost' = (lost \/ Odo!Hidden(extended)) /\ extended \in BOOLEAN
  BY DEF Odo!Sample, Odo!Observed, CountInv, Odo!TypeOK
<1>2. CASE extended
  BY <1>1, <1>2, SignedSample, ObservedKeeps DEF Odo!Sample
<1>3. CASE ~extended /\ Odo!Single(Odo!Coordinate)
  BY <1>1, <1>3, WrappedSample, ObservedKeeps DEF Odo!Sample
<1>4. CASE ~extended /\ ~Odo!Single(Odo!Coordinate)
  <2>1. count' = Odo!Broken /\ Odo!Broken \in CountType /\ ~Odo!Broken.valid
    BY <1>4 DEF Odo!Sample, Odo!Broken, CountInv, Odo!TypeOK, CountType
  <2>2. QED BY <1>1, <2>1, ObservedKeeps DEF Odo!Sample, Agrees
<1>5. QED BY <1>2, <1>3, <1>4

LEMMA RefreshKeeps == CountInv /\ Odo!Refresh => CountInv'
<1> SUFFICES ASSUME CountInv, Odo!Refresh PROVE CountInv'
  OBVIOUS
<1> DEFINE signed == extended \/ (~Odo!Single(Odo!Coordinate) /\ Odo!Decodable(Odo!Coordinate))
<1>1. extended \in BOOLEAN /\ signed \in BOOLEAN /\ extended' = signed
  BY DEF CountInv, Odo!TypeOK, Odo!Refresh
<1>2. CASE signed
  <2>1. /\ count' = [Odo!Native(Odo!Coordinate) EXCEPT !.mode = TRUE]
        /\ Odo!Observed(TRUE) /\ lost' = (lost \/ Odo!Hidden(TRUE))
    BY <1>2 DEF Odo!Refresh, Odo!Observed
  <2>2. Odo!Native(Odo!Coordinate) \in CountType /\ Agrees(Odo!Native(Odo!Coordinate))
    BY <2>1, SignedSample
  <2>3. count' \in CountType /\ Agrees(count')
    <3> HIDE DEF signed
    <3>1. PICK n \in CountType : n = Odo!Native(Odo!Coordinate) /\ Agrees(n)
      BY <2>2
    <3>2. /\ count' \in CountType /\ count'.valid = n.valid
          /\ count'.revs = n.revs /\ count'.raw = n.raw
      BY <2>1, <3>1 DEF CountType
    <3>3. QED BY <3>1, <3>2 DEF Agrees
  <2>4. QED BY <1>1, <2>1, <2>3, ObservedKeeps DEF Odo!Refresh
<1>3. CASE ~signed
  <2>1. count' = [count EXCEPT !.mode = TRUE] /\ UNCHANGED <<quick, shown, lost>>
    BY <1>3 DEF Odo!Refresh
  <2>2. /\ count' \in CountType /\ count'.valid = count.valid
        /\ count'.revs = count.revs /\ count'.raw = count.raw
    BY <2>1 DEF CountInv, Odo!TypeOK, CountType
  <2>3. QED BY <1>1, <2>1, <2>2, QuietKeeps DEF CountInv, Odo!TypeOK, Odo!Refresh
<1>4. QED BY <1>1, <1>2, <1>3

LEMMA RefreshFailsKeeps == CountInv /\ (Odo!RefreshFails \/ Odo!RefreshWithoutMode) => CountInv'
<1> SUFFICES ASSUME CountInv, Odo!RefreshFails \/ Odo!RefreshWithoutMode PROVE CountInv'
  OBVIOUS
<1>1. count \in CountType /\ extended \in BOOLEAN
  BY DEF CountInv, Odo!TypeOK, CountType
<1>2. \/ count' = count
      \/ \E m \in BOOLEAN : count' = [count EXCEPT !.mode = FALSE, !.missed = m]
  BY <1>1 DEF Odo!RefreshFails, Odo!RefreshWithoutMode, CountType
<1>3. /\ count' \in CountType /\ count'.valid = count.valid
      /\ count'.revs = count.revs /\ count'.raw = count.raw
  BY <1>1, <1>2 DEF CountType
<1>4. QED BY <1>3, QuietKeeps DEF CountInv, Odo!TypeOK, Odo!RefreshFails, Odo!RefreshWithoutMode

LEMMA ZeroKeeps == CountInv /\ Odo!Zero => CountInv'
<1> SUFFICES ASSUME CountInv, Odo!Zero PROVE CountInv'
  OBVIOUS
<1> DEFINE c == Odo!Coordinate
<1>1. /\ angle \in Int /\ c \in Int /\ Whole(c - angle)
      /\ count \in CountType /\ extended \in BOOLEAN
  BY CoordinateType DEF CountInv, Odo!TypeOK, CountType
<1> HIDE DEF c
<1>2. /\ c \div Odo!Turn \in Int /\ c % Odo!Turn \in 0..(Odo!Turn - 1)
      /\ (c \div Odo!Turn) * Odo!Turn + (c % Odo!Turn) = c
  BY <1>1, SplitTurns
<1>3. /\ count' = [count EXCEPT !.tracking = TRUE, !.valid = TRUE, !.revs = c \div Odo!Turn,
                                 !.raw = c % Odo!Turn, !.missed = @ /\ ~extended]
      /\ shown' = [place |-> angle, value |-> c] /\ quick' = TRUE /\ lost' = FALSE
      /\ UNCHANGED <<angle, servo, extended>>
  BY DEF Odo!Zero, c
<1>4. count' \in CountType /\ count'.revs = c \div Odo!Turn /\ count'.raw = c % Odo!Turn
  <2>1. (count.missed /\ ~extended) \in BOOLEAN
    OBVIOUS
  <2>2. QED BY <1>1, <1>2, <1>3, <2>1 DEF CountType
<1>5. shown' \in [place : Int, value : Int] /\ shown'.place = angle /\ shown'.value = c
  BY <1>1, <1>3
<1>6. Odo!TypeOK'
  <2>1. angle' \in Turnable /\ servo' \in [extended : BOOLEAN, lacks : Int]
    BY <1>3 DEF CountInv, Odo!TypeOK
  <2>2. QED BY <1>1, <1>3, <1>4, <1>5, <2>1, Zenon DEF Odo!TypeOK, CountType
<1>7. Odo!Value' = shown'.value /\ Whole(shown'.value - shown'.place)
  <2>1. Odo!Value' = (c \div Odo!Turn) * Odo!Turn + (c % Odo!Turn)
    BY <1>4 DEF Odo!Value
  <2>2. Odo!Value' = shown'.value
    BY <1>2, <1>5, <2>1
  <2>3. QED BY <1>1, <1>5, <2>2
<1>8. QED BY <1>6, <1>7 DEF CountInv, Counted

(* A count that is not valid afterwards keeps the invariant by itself.      *)
LEMMA BrokenKeeps ==
  ASSUME CountInv, Odo!ZeroFails \/ Odo!MultiTurn(TRUE) \/ Odo!MultiTurn(FALSE)
               \/ Odo!MultiTurnFails
               \/ Odo!ResyncFails
  PROVE  CountInv'
<1>1. count \in CountType /\ Odo!Lacks \in Int
  BY CoordinateType DEF CountInv, Odo!TypeOK, CountType
<1>2. count' \in CountType /\ ~count'.valid
  BY <1>1
    DEF Odo!ZeroFails, Odo!MultiTurn, Odo!MultiTurnFails, Odo!ResyncFails, Odo!Broken, CountType
<1>3. servo' \in [extended : BOOLEAN, lacks : Int]
  <2>1. /\ servo \in [extended : BOOLEAN, lacks : Int]
        /\ [extended |-> TRUE, lacks |-> Odo!Lacks] \in [extended : BOOLEAN, lacks : Int]
        /\ [extended |-> FALSE, lacks |-> 0] \in [extended : BOOLEAN, lacks : Int]
    BY <1>1 DEF CountInv, Odo!TypeOK
  <2>2. CASE Odo!MultiTurn(TRUE)
    BY <2>1, <2>2 DEF Odo!MultiTurn
  <2>3. CASE Odo!MultiTurn(FALSE)
    BY <2>1, <2>3 DEF Odo!MultiTurn
  <2>4. CASE Odo!MultiTurnFails
    BY <2>1, <2>4 DEF Odo!MultiTurnFails
  <2>5. CASE Odo!ZeroFails \/ Odo!ResyncFails
    BY <2>1, <2>5 DEF Odo!ZeroFails, Odo!ResyncFails
  <2>6. QED BY <2>2, <2>3, <2>4, <2>5
<1>4. extended' \in BOOLEAN /\ quick' \in BOOLEAN /\ UNCHANGED <<angle, shown, lost>>
  BY DEF CountInv, Odo!TypeOK, Odo!ZeroFails, Odo!MultiTurn, Odo!MultiTurnFails, Odo!ResyncFails
<1>5. QED BY <1>2, <1>3, <1>4, QuietKeeps

LEMMA ResyncKeeps == CountInv /\ Odo!Resync => CountInv'
<1> SUFFICES ASSUME CountInv, Odo!Resync PROVE CountInv'
  OBVIOUS
<1> DEFINE c == Odo!Coordinate
           turns == Odo!Reconciled(c) \div Odo!Turn
<1>1. /\ angle \in Int /\ shown.place \in Int /\ shown.value \in Int
      /\ Odo!Value \in Int /\ Odo!Moved \in Int /\ Odo!Moved = angle - shown.place
      /\ Whole(c - angle) /\ count \in CountType
  BY CoordinateType DEF CountInv, Odo!TypeOK, Odo!Moved, CountType
<1>2. c \in Int /\ 0 <= c /\ c < Odo!Turn /\ c \in 0..(Odo!Turn - 1)
  <2>1. c \in Int /\ 0 <= c /\ c < Odo!Turn
    BY CoordinateType DEF CountInv, Odo!Resync, Odo!Single
  <2>2. QED BY <2>1, SMT DEF Odo!Turn
<1>3. turns \in Int /\ turns * Odo!Turn + c = Odo!Reconciled(c)
  <2> HIDE DEF c
  <2>1. QED BY <1>1, <1>2, SMT DEF Odo!Reconciled, Odo!Turn, Odo!Half
<1>4. /\ Odo!Observed(FALSE) /\ lost' = (lost \/ Odo!Hidden(FALSE))
      /\ UNCHANGED <<angle, servo, extended>>
      /\ count' = IF count.valid
                  THEN [count EXCEPT !.revs = turns, !.raw = c, !.mode = TRUE]
                  ELSE [count EXCEPT !.raw = c, !.mode = TRUE]
  BY DEF Odo!Resync, Odo!Observed
<1>5. /\ count' \in CountType /\ (count'.valid => count.valid)
      /\ count.valid => count'.revs = turns /\ count'.raw = c
  <2> HIDE DEF c, turns
  <2>1. QED BY <1>1, <1>2, <1>3, <1>4 DEF CountType
<1>6. ASSUME count.valid, ~lost'
      PROVE  Odo!Reconciled(c) = shown.value + Odo!Moved
             /\ Whole(shown.value + Odo!Moved - angle)
  <2>1. ~lost /\ ~Odo!Hidden(FALSE)
    BY <1>4, <1>6
  <2>2. Odo!Value = shown.value /\ Whole(shown.value - shown.place)
    BY <1>6, <2>1 DEF CountInv, Counted
  <2>3. -Odo!Half < Odo!Moved /\ Odo!Moved < Odo!Half
    BY <1>1, <2>1 DEF Odo!Hidden, Odo!Half
  <2>4. Odo!Reconciled(c) = Odo!Value + Odo!Moved
    <3> HIDE DEF c
    <3>1. Whole(Odo!Value - shown.place)
      BY <2>2
    <3>2. /\ Odo!Value \in Int /\ c \in Int /\ shown.place \in Int /\ angle \in Int
          /\ Odo!Moved \in Int /\ Odo!Moved = angle - shown.place
          /\ -Odo!Half < Odo!Moved /\ Odo!Moved < Odo!Half
          /\ Whole(Odo!Value - shown.place) /\ Whole(c - angle)
      BY <1>1, <1>2, <2>3, <3>1
    <3>3. ((Odo!Value - c + Odo!Half) \div Odo!Turn) * Odo!Turn + c = Odo!Value + Odo!Moved
      <4> DEFINE v == Odo!Value
                 m == Odo!Moved
                 p == shown.place
      <4>1. /\ v \in Int /\ c \in Int /\ p \in Int /\ angle \in Int /\ m \in Int
            /\ m = angle - p /\ -Odo!Half < m /\ m < Odo!Half /\ Whole(v - p) /\ Whole(c - angle)
        BY <3>2
      <4> HIDE DEF v, m, p
      <4>2. ((v - c + Odo!Half) \div Odo!Turn) * Odo!Turn + c = v + m
        <5>1. v - c + Odo!Half \in Int
          BY <4>1 DEF Odo!Half
        <5>2. PICK t \in Int : t = (v - c + Odo!Half) \div Odo!Turn
          BY <5>1, SplitTurns
        <5>3. t * Odo!Turn + c = v + m
          BY <4>1, <5>2, NearestTurn, SMT DEF Odo!Turn, Odo!Half, Whole
        <5>4. QED BY <5>2, <5>3
      <4>3. QED BY <4>2 DEF v, m
    <3>4. QED BY <3>3 DEF Odo!Reconciled
  <2>5. shown.value + Odo!Moved - angle = shown.value - shown.place
    BY <1>1
  <2>6. Whole(shown.value + Odo!Moved - angle)
    BY <2>2, <2>5
  <2>7. QED BY <2>2, <2>4, <2>6
<1>7. Agrees(count')
  <2> HIDE DEF c, turns
  <2>1. ASSUME count'.valid, ~lost'
        PROVE  /\ count'.revs * Odo!Turn + count'.raw = shown.value + Odo!Moved
               /\ Whole(shown.value + Odo!Moved - angle)
    BY <1>3, <1>5, <1>6, <2>1
  <2>2. QED BY <2>1 DEF Agrees
<1>8. extended' \in BOOLEAN
  BY <1>4 DEF CountInv, Odo!TypeOK
<1>9. QED BY <1>4, <1>5, <1>7, <1>8, ObservedKeeps

-----------------------------------------------------------------------------
LEMMA CountBegins == Odo!Init => CountInv
<1> SUFFICES ASSUME Odo!Init PROVE CountInv
  OBVIOUS
<1>1. count \in CountType /\ ~count.valid
  BY UntrackedType DEF Odo!Init, Odo!Untracked
<1>2. QED BY <1>1, ServosAssumption DEF Odo!Init, CountInv, Odo!TypeOK, Counted, CountType

(* Every step of the controller, its servo and its joint keeps CountInv.        *)
LEMMA CountStays == CountInv /\ [Odo!Next]_Odo!vars => CountInv'
<1> SUFFICES ASSUME CountInv, [Odo!Next]_Odo!vars PROVE CountInv'
  OBVIOUS
<1>1. CASE UNCHANGED Odo!vars
  BY <1>1 DEF Odo!vars, CountInv, Odo!TypeOK, Counted, Odo!Value
<1>2. CASE Odo!Next
  BY <1>2, TurnsKeeps, ElapsesKeeps, ServoCyclesKeeps, HatRestartsKeeps,
     SampleFailsKeeps, SampleKeeps, RefreshFailsKeeps, RefreshKeeps, ZeroKeeps,
     BrokenKeeps, ResyncKeeps DEF Odo!Next
<1>3. QED BY <1>1, <1>2

(* The count of turns keeps its form and stays true of the joint, for every *)
(* set of angles and every limit of turns.                                  *)
THEOREM TurnsAreCounted == Odo!Spec => [](Odo!TypeOK /\ Odo!CountIsTrue)
<1>1. CountInv => Odo!TypeOK /\ Odo!CountIsTrue BY DEF CountInv, Counted, Odo!CountIsTrue
<1>2. QED BY <1>1, CountBegins, CountStays, PTL DEF Odo!Spec

-----------------------------------------------------------------------------
(* The torque-off obligations, for every set of servos and of mute ones.    *)
(* Every operation but the arrival of an obligation thins the list: some    *)
(* entries leave, the others keep their order.  A pass of resolvePending-   *)
(* TorqueOff is a function defined by recursion on the step: it is shown to *)
(* exist, and to thin the list at every step, by the least step that would  *)
(* be a counterexample.                                                     *)

(* A list with its cursor inside and no servo twice. *)
Listed(o) ==
  /\ o = [ids |-> o.ids, cursor |-> o.cursor, seen |-> o.seen, last |-> o.last]
  /\ o.ids \in Seq(Servos) /\ o.cursor \in Nat /\ o.seen \in BOOLEAN /\ o.last = 0
  /\ \A i, j \in DOMAIN o.ids : o.ids[i] = o.ids[j] => i = j
  /\ o.cursor < Len(o.ids) \/ o.cursor = 0

RetryInv == Listed(off) /\ retryDue \in BOOLEAN

(* A list p that is left of o: some are gone, the others stand as they did. *)
Thins(o, p) ==
  /\ Listed(p) /\ Retries!Owed(p) \subseteq Retries!Owed(o)
  /\ \A a, b \in Retries!Owed(p) : Retries!Before(o, a, b) => Retries!Before(p, a, b)

LEMMA IndexIs ==
  ASSUME NEW o, Listed(o), NEW i \in DOMAIN o.ids
  PROVE  Retries!Index(o, o.ids[i]) = i - 1
<1>1. \A j \in DOMAIN o.ids : o.ids[j] = o.ids[i] <=> j = i BY DEF Listed
<1>2. (CHOOSE j \in DOMAIN o.ids : o.ids[j] = o.ids[i]) = i BY <1>1
<1>3. QED BY <1>2 DEF Retries!Index

LEMMA BeforeIs ==
  ASSUME NEW o, Listed(o), NEW a, NEW b
  PROVE  Retries!Before(o, a, b)
           <=> \E i, j \in DOMAIN o.ids : i < j /\ o.ids[i] = a /\ o.ids[j] = b
<1>1. DOMAIN o.ids = 1..Len(o.ids) /\ Len(o.ids) \in Nat BY DEF Listed
<1>2. \A i \in DOMAIN o.ids : Retries!Index(o, o.ids[i]) = i - 1 BY IndexIs
<1>3. QED BY <1>1, <1>2 DEF Retries!Before, Retries!Owed

LEMMA ThinsItself == ASSUME NEW o, Listed(o) PROVE Thins(o, o)
BY DEF Thins

LEMMA ThinsOn ==
  ASSUME NEW o, NEW p, NEW q, Thins(o, p), Thins(p, q)
  PROVE  Thins(o, q)
BY DEF Thins

LEMMA InRange == \A a \in Nat, n \in Nat \ {0} : a % n \in Nat /\ a % n < n
OBVIOUS

LEMMA NotedThins ==
  ASSUME NEW o, Listed(o), NEW id, NEW t, t = 0
  PROVE  /\ Listed(Retries!Noted(o, id, t)) /\ Thins(o, Retries!Noted(o, id, t))
         /\ Retries!Owed(Retries!Noted(o, id, t)) = Retries!Owed(o)
<1>1. CASE o.ids = <<>>
  BY <1>1, ThinsItself DEF Retries!Noted
<1>2. CASE o.ids # <<>>
  <2> DEFINE c == IF id \in Retries!Owed(o) THEN (Retries!Index(o, id) + 1) % Len(o.ids)
                  ELSE o.cursor
             p == [o EXCEPT !.seen = TRUE, !.last = t, !.cursor = c]
  <2>1. Retries!Noted(o, id, t) = p BY <1>2 DEF Retries!Noted
  <2>2. c \in Nat /\ (c < Len(o.ids) \/ c = 0)
    <3>1. Len(o.ids) \in Nat \ {0} BY <1>2 DEF Listed
    <3>2. \A i \in DOMAIN o.ids : Retries!Index(o, o.ids[i]) + 1 \in Nat BY IndexIs DEF Listed
    <3>3. CASE id \in Retries!Owed(o)
      <4>1. Retries!Index(o, id) + 1 \in Nat BY <3>2, <3>3 DEF Retries!Owed
      <4>2. QED BY <4>1, <3>1, <3>3, InRange
    <3>4. CASE id \notin Retries!Owed(o)
      BY <3>4 DEF Listed
    <3>5. QED BY <3>3, <3>4
  <2> HIDE DEF c
  <2>3. p.ids = o.ids /\ p.cursor = c /\ p.seen = TRUE /\ p.last = 0
        /\ p = [ids |-> p.ids, cursor |-> p.cursor, seen |-> p.seen, last |-> p.last]
    <3>1. o = [ids |-> o.ids, cursor |-> o.cursor, seen |-> o.seen, last |-> o.last]
      BY DEF Listed
    <3>2. p.ids = o.ids /\ p.cursor = c /\ p.seen = TRUE /\ p.last = 0 BY <3>1
    <3>3. p = [ids |-> p.ids, cursor |-> p.cursor, seen |-> p.seen, last |-> p.last]
      <4> DEFINE Lists == [ids : Seq(Servos), cursor : Nat, seen : BOOLEAN, last : {0}]
      <4>1. o \in Lists BY <3>1 DEF Listed
      <4>2. p \in Lists BY <4>1, <2>2
      <4> HIDE DEF p
      <4>3. QED BY <4>2
    <3>4. QED BY <3>2, <3>3
  <2> HIDE DEF p
  <2>4. Listed(p) /\ Retries!Owed(p) = Retries!Owed(o) BY <2>2, <2>3 DEF Listed, Retries!Owed
  <2>5. \A a, b \in Retries!Owed(p) : Retries!Before(o, a, b) => Retries!Before(p, a, b)
    BY <2>3, <2>4, BeforeIs
  <2>6. QED BY <2>1, <2>4, <2>5 DEF Thins
<1>3. QED BY <1>1, <1>2

LEMMA SettledThins ==
  ASSUME NEW o, Listed(o), NEW id
  PROVE  Thins(o, Retries!Settled(o, id))
<1>1. CASE id \notin Retries!Owed(o)
  BY <1>1, ThinsItself DEF Retries!Settled
<1>2. CASE id \in Retries!Owed(o)
  <2> DEFINE n == Len(o.ids) - 1
             Was(k) == IF k <= Retries!Index(o, id) THEN k ELSE k + 1
             rest == [k \in 1..n |-> o.ids[Was(k)]]
  <2>1. PICK x \in DOMAIN o.ids : o.ids[x] = id BY <1>2 DEF Retries!Owed
  <2>2. Retries!Index(o, id) = x - 1 BY <2>1, IndexIs
  <2>3. DOMAIN o.ids = 1..Len(o.ids) /\ Len(o.ids) \in Nat /\ n \in Nat /\ x \in 1..(n + 1)
        /\ Len(o.ids) = n + 1 /\ \A i \in 1..(n + 1) : o.ids[i] \in Servos
    BY <2>1 DEF Listed
  <2>4. \A k \in 1..n : Was(k) \in 1..(n + 1) /\ Was(k) # x
    BY <2>2, <2>3
  <2>5. \A k, l \in 1..n : (k < l <=> Was(k) < Was(l)) /\ (Was(k) = Was(l) => k = l)
    BY <2>2, <2>3
  <2>6. \A i \in 1..(n + 1) : i # x => \E k \in 1..n : Was(k) = i
    <3>1. SUFFICES ASSUME NEW i \in 1..(n + 1), i # x PROVE \E k \in 1..n : Was(k) = i
      OBVIOUS
    <3>2. CASE i < x
      <4>1. i \in 1..n /\ Was(i) = i BY <3>2, <2>2, <2>3
      <4>2. QED BY <4>1
    <3>3. CASE i > x
      <4>1. i - 1 \in 1..n /\ Was(i - 1) = i BY <3>3, <2>2, <2>3
      <4>2. QED BY <4>1
    <3>4. QED BY <3>1, <3>2, <3>3, <2>3
  <2> HIDE DEF Was
  <2>7. /\ rest \in Seq(Servos) /\ DOMAIN rest = 1..n /\ Len(rest) = n
        /\ \A k \in 1..n : rest[k] = o.ids[Was(k)]
    BY <2>3, <2>4
  <2> DEFINE p == Retries!Settled(o, id)
  <2>8. p = IF n = 0 THEN [o EXCEPT !.ids = <<>>, !.cursor = 0, !.seen = FALSE]
            ELSE [o EXCEPT !.ids = rest, !.cursor = @ % n]
    BY <1>2 DEF Retries!Settled, Was
  <2>9. n = 0 => rest = <<>>
    <3>1. \A s \in Seq(Servos) : Len(s) = 0 => s = <<>> OBVIOUS
    <3> HIDE DEF rest, n
    <3>2. QED BY <2>7, <3>1
  <2> HIDE DEF rest
  <2>10. /\ p.ids = rest /\ p.last = 0 /\ p.seen \in BOOLEAN
         /\ p.cursor = IF n = 0 THEN 0 ELSE o.cursor % n
         /\ p = [ids |-> p.ids, cursor |-> p.cursor, seen |-> p.seen, last |-> p.last]
    <3> HIDE DEF n, p
    <3>1. CASE n = 0 BY <3>1, <2>8, <2>9 DEF Listed
    <3>2. CASE n # 0 BY <3>2, <2>8 DEF Listed
    <3>3. QED BY <3>1, <3>2
  <2> HIDE DEF p
  <2>11. p.cursor \in Nat /\ (p.cursor < n \/ p.cursor = 0)
    BY <2>3, <2>10, InRange DEF Listed
  <2> HIDE DEF n
  <2>12. \A k, l \in 1..n : rest[k] = rest[l] => k = l
    <3>1. SUFFICES ASSUME NEW k \in 1..n, NEW l \in 1..n, rest[k] = rest[l] PROVE k = l
      OBVIOUS
    <3>2. Was(k) \in DOMAIN o.ids /\ Was(l) \in DOMAIN o.ids /\ o.ids[Was(k)] = o.ids[Was(l)]
      BY <2>3, <2>4, <2>7, <3>1
    <3>3. Was(k) = Was(l) BY <3>2 DEF Listed
    <3>4. QED BY <2>5, <3>3
  <2>13. Listed(p)
    BY <2>7, <2>10, <2>11, <2>12 DEF Listed
  <2>14. \A k \in 1..n : rest[k] \in Retries!Owed(o)
    BY <2>3, <2>4, <2>7 DEF Retries!Owed
  <2>15. Retries!Owed(p) \subseteq Retries!Owed(o)
    BY <2>7, <2>10, <2>14 DEF Retries!Owed
  <2>16. ASSUME NEW a \in Retries!Owed(p), NEW b \in Retries!Owed(p),
                Retries!Before(o, a, b)
         PROVE  Retries!Before(p, a, b)
    <3>1. PICK i \in DOMAIN o.ids, j \in DOMAIN o.ids : i < j /\ o.ids[i] = a /\ o.ids[j] = b
      BY <2>16, BeforeIs
    <3>2. PICK k \in 1..n, l \in 1..n : rest[k] = a /\ rest[l] = b
      BY <2>7, <2>10 DEF Retries!Owed
    <3>3. Was(k) = i /\ Was(l) = j
      BY <3>1, <3>2, <2>3, <2>4, <2>7 DEF Listed
    <3>4. k < l BY <3>1, <3>3, <2>5
    <3>5. QED BY <3>2, <3>4, <2>7, <2>10, <2>13, BeforeIs
  <2>17. QED BY <2>13, <2>15, <2>16 DEF Thins, p
<1>3. QED BY <1>1, <1>2

(* A servo that is added comes last. *)
LEMMA QueuedKeeps ==
  ASSUME NEW o, Listed(o), NEW id \in Servos
  PROVE  /\ Listed(Retries!Queued(o, id))
         /\ \A a, b \in Retries!Owed(o) :
              Retries!Before(o, a, b) => Retries!Before(Retries!Queued(o, id), a, b)
<1>1. CASE id \in Retries!Owed(o)
  BY <1>1 DEF Retries!Queued
<1>2. CASE id \notin Retries!Owed(o) /\ o.ids = <<>>
  <2>1. Retries!Queued(o, id) = [ids |-> <<id>>, cursor |-> 0, seen |-> FALSE, last |-> 0]
    BY <1>2 DEF Retries!Queued, Retries!NoObligations
  <2>2. Retries!Owed(o) = {} BY <1>2 DEF Retries!Owed
  <2>3. QED BY <2>1, <2>2 DEF Listed
<1>3. CASE id \notin Retries!Owed(o) /\ o.ids # <<>>
  <2> DEFINE p == Retries!Queued(o, id)
             more == Append(o.ids, id)
  <2>1. p = [o EXCEPT !.ids = more]
    BY <1>3 DEF Retries!Queued
  <2>2. /\ o.ids \in Seq(Servos) /\ Len(o.ids) \in Nat /\ DOMAIN o.ids = 1..Len(o.ids)
        /\ more \in Seq(Servos) /\ Len(more) = Len(o.ids) + 1 /\ DOMAIN more = 1..(Len(o.ids) + 1)
        /\ more[Len(o.ids) + 1] = id /\ \A i \in 1..Len(o.ids) : more[i] = o.ids[i]
    BY DEF Listed
  <2> HIDE DEF more
  <2>3. /\ p.ids = more /\ p.cursor = o.cursor /\ p.seen = o.seen /\ p.last = o.last
        /\ p = [ids |-> p.ids, cursor |-> p.cursor, seen |-> p.seen, last |-> p.last]
    BY <2>1 DEF Listed
  <2> HIDE DEF p
  <2>4. \A i \in 1..Len(o.ids) : o.ids[i] # id BY <1>3, <2>2 DEF Retries!Owed
  <2>5. \A i, j \in DOMAIN more : more[i] = more[j] => i = j
    BY <2>2, <2>4 DEF Listed
  <2>6. Listed(p) BY <2>2, <2>3, <2>5 DEF Listed
  <2>7. ASSUME NEW a, NEW b, Retries!Before(o, a, b)
         PROVE  Retries!Before(p, a, b)
    <3>1. PICK i \in DOMAIN o.ids, j \in DOMAIN o.ids : i < j /\ o.ids[i] = a /\ o.ids[j] = b
      BY <2>7, BeforeIs
    <3>2. i \in DOMAIN p.ids /\ j \in DOMAIN p.ids /\ p.ids[i] = a /\ p.ids[j] = b
      BY <3>1, <2>2, <2>3
    <3>3. QED BY <3>1, <3>2, <2>6, BeforeIs
  <2>8. QED BY <2>6, <2>7 DEF p
<1>4. QED BY <1>1, <1>2, <1>3

LEMMA AttemptThins ==
  ASSUME NEW o, Listed(o), NEW id \in Retries!Owed(o), NEW heard
  PROVE  Thins(o, Retries!Attempt(o, id, heard, 0))
<1>1. Retries!Queued(o, id) = o BY DEF Retries!Queued
<1>2. Thins(o, Retries!Noted(o, id, 0)) /\ Listed(Retries!Noted(o, id, 0)) BY NotedThins
<1>3. Thins(Retries!Noted(o, id, 0), Retries!Settled(Retries!Noted(o, id, 0), id)) BY <1>2,
SettledThins
<1>4. Thins(o, Retries!Settled(Retries!Noted(o, id, 0), id)) BY <1>2, <1>3, ThinsOn
<1>5. QED BY <1>1, <1>2, <1>4 DEF Retries!Attempt

LEMMA ResolvedThins ==
  ASSUME NEW o, Listed(o), NEW S
  PROVE  Thins(o, Retries!Resolved(o, S, 0))
<1>1. CASE o.ids = <<>>
  BY <1>1, ThinsItself DEF Retries!Resolved
<1>2. CASE o.ids # <<>>
  <2>1. Len(o.ids) \in Nat \ {0} /\ DOMAIN o.ids = 1..Len(o.ids) /\ o.cursor \in Nat
    BY <1>2 DEF Listed
  <2>2. o.cursor % Len(o.ids) \in Nat /\ o.cursor % Len(o.ids) < Len(o.ids)
    BY <2>1, InRange
  <2>3. (o.cursor % Len(o.ids)) + 1 \in DOMAIN o.ids BY <2>1, <2>2
  <2>4. Retries!UnderCursor(o) \in Retries!Owed(o) BY <2>3 DEF Retries!UnderCursor, Retries!Owed
  <2>5. QED BY <2>4, <1>2, AttemptThins DEF Retries!Resolved
<1>3. QED BY <1>1, <1>2

LEMMA LeastOf ==
  ASSUME NEW T, T \subseteq Nat, T # {}
  PROVE  \E m \in T : \A n \in T : m <= n
<1>1. \E x \in T : \A y \in T : ~(<<y, x>> \in OpToRel(<, Nat))
  BY NatLessThanWellFounded, WFMin
<1>2. PICK x \in T : \A y \in T : ~(<<y, x>> \in OpToRel(<, Nat))
  BY <1>1
<1>3. \A y \in T : ~(y < x)
  BY <1>2 DEF OpToRel
<1>4. QED BY <1>3

PassOf(f, o, S, t, N) == [n \in 0..N |-> IF n = 0 THEN o ELSE Retries!Resolved(f[n - 1], S, t)]

LEMMA PassExists ==
  ASSUME NEW o, NEW S, NEW t, NEW N \in Nat
  PROVE  \E f : f = PassOf(f, o, S, t, N)
<1> DEFINE Bad == {m \in 0..N : ~\E f : f = PassOf(f, o, S, t, m)}
<1>1. SUFFICES ASSUME Bad # {} PROVE FALSE
  OBVIOUS
<1>2. PICK m \in Bad : \A n \in Bad : m <= n
  <2> HIDE DEF Bad
  <2>1. Bad \subseteq Nat BY DEF Bad
  <2>2. QED BY <1>1, <2>1, LeastOf
<1>3. m # 0
  <2>1. [n \in 0..0 |-> o] = PassOf([n \in 0..0 |-> o], o, S, t, 0) BY DEF PassOf
  <2>2. QED BY <2>1
<1>4. PICK f : f = PassOf(f, o, S, t, m - 1)
  BY <1>2, <1>3
<1> DEFINE g == [n \in 0..m |-> IF n = m THEN Retries!Resolved(f[m - 1], S, t) ELSE f[n]]
<1>5. g = PassOf(g, o, S, t, m)
  <2>1. m \in Nat BY <1>2
  <2>2. ASSUME NEW n \in 0..m PROVE g[n] = IF n = 0 THEN o ELSE Retries!Resolved(g[n - 1], S, t)
    BY <1>3, <1>4, <2>1 DEF PassOf
  <2>3. QED BY <2>2 DEF PassOf
<1>6. QED BY <1>2, <1>5

LEMMA PassIs ==
  ASSUME NEW o, NEW S, NEW t, Len(o.ids) \in Nat
  PROVE  \E f : f = PassOf(f, o, S, t, Len(o.ids)) /\ Retries!ResolvePass(o, S, t) = f[Len(o.ids)]
<1> DEFINE pass == CHOOSE f : f = PassOf(f, o, S, t, Len(o.ids))
<1>1. \E f : f = PassOf(f, o, S, t, Len(o.ids))
  BY PassExists
<1>2. pass = PassOf(pass, o, S, t, Len(o.ids))
  BY <1>1
<1>3. Retries!ResolvePass(o, S, t) = pass[Len(o.ids)]
  BY Zenon DEF Retries!ResolvePass, PassOf
<1>4. QED BY <1>2, <1>3

LEMMA PassThins ==
  ASSUME NEW o, Listed(o), NEW S
  PROVE  Thins(o, Retries!ResolvePass(o, S, 0))
<1> DEFINE N == Len(o.ids)
<1>1. N \in Nat BY DEF Listed
<1>2. PICK f : f = PassOf(f, o, S, 0, N) /\ Retries!ResolvePass(o, S, 0) = f[N]
  BY <1>1, PassIs
<1>3. \A n \in 0..N : f[n] = IF n = 0 THEN o ELSE Retries!Resolved(f[n - 1], S, 0)
  BY <1>2 DEF PassOf
<1> DEFINE Bad == {n \in 0..N : ~Thins(o, f[n])}
<1> HIDE DEF N
<1>4. Bad = {}
  <2>1. SUFFICES ASSUME Bad # {} PROVE FALSE OBVIOUS
  <2>2. PICK m \in Bad : \A n \in Bad : m <= n
    <3>1. Bad \subseteq Nat BY <1>1
    <3> HIDE DEF Bad
    <3>2. QED BY <2>1, <3>1, LeastOf
  <2>3. m \in 0..N /\ ~Thins(o, f[m]) OBVIOUS
  <2>4. m # 0 BY <1>1, <1>3, <2>3, ThinsItself
  <2>5. m - 1 \in 0..N /\ m - 1 < m BY <1>1, <2>3, <2>4
  <2>6. Thins(o, f[m - 1]) BY <2>2, <2>5
  <2>7. Thins(f[m - 1], f[m]) BY <1>3, <2>3, <2>4, <2>6, ResolvedThins DEF Thins
  <2>8. QED BY <2>3, <2>6, <2>7, ThinsOn
<1>5. N \in 0..N BY <1>1
<1>6. QED BY <1>2, <1>4, <1>5

LEMMA FirstIsOwed ==
  ASSUME NEW o, Listed(o), o.ids # <<>>
  PROVE  Retries!FirstOutside(o, {}) \in Retries!Owed(o)
<1> DEFINE open == {i \in DOMAIN o.ids : o.ids[i] \notin {}}
<1>1. open = 1..Len(o.ids) /\ DOMAIN o.ids = 1..Len(o.ids) /\ 1 \in 1..Len(o.ids) BY DEF Listed
<1>2. 1 \in open /\ \A j \in open : 1 <= j BY <1>1
<1> HIDE DEF open
<1>3. (CHOOSE i \in open : \A j \in open : i <= j) \in open BY <1>2
<1>4. QED BY <1>1, <1>3 DEF Retries!FirstOutside, Retries!Owed, open

(* What a step leaves: a proper list, in the order it had. *)
RetryKeeps ==
  /\ RetryInv'
  /\ \A a, b \in Retries!Pending \cap Retries!Pending' :
       Retries!Before(off, a, b) => Retries!Before(off, a, b)'

(* Every operation on the list and every step of the retry keeps it. *)
LEMMA RetryStays == RetryInv /\ Retries!Next => RetryKeeps
<1> SUFFICES ASSUME RetryInv, Retries!Next PROVE RetryKeeps OBVIOUS
<1>1. CASE Retries!FallsDue
  BY <1>1 DEF Retries!FallsDue, RetryInv, RetryKeeps
<1>2. ASSUME Thins(off, off'), retryDue' \in BOOLEAN PROVE RetryKeeps
  BY <1>2 DEF Thins, RetryKeeps, RetryInv, Retries!Pending, Retries!Before
<1>3. ASSUME NEW heard \in BOOLEAN, Retries!TickRetry(heard) PROVE RetryKeeps
  <2>1. Retries!FirstOutside(off, {}) \in Retries!Owed(off) BY <1>3, FirstIsOwed
    DEF Retries!TickRetry, RetryInv
  <2>2. Thins(off, Retries!Attempt(off, Retries!FirstOutside(off, {}), heard, 0)) BY <2>1,
  AttemptThins DEF RetryInv
  <2>3. QED BY <1>2, <1>3, <2>2 DEF Retries!TickRetry
<1>4. ASSUME NEW S \in SUBSET Servos, Retries!Resolve(S) PROVE RetryKeeps
  <2>1. Thins(off, Retries!ResolvePass(off, S, 0)) BY PassThins DEF RetryInv
  <2>2. retryDue' \in BOOLEAN BY <1>4 DEF Retries!Resolve, RetryInv
  <2>3. QED BY <1>2, <1>4, <2>1, <2>2 DEF Retries!Resolve
<1>5. ASSUME NEW id \in Servos, Retries!Queue(id) PROVE RetryKeeps
  <2>1. /\ Listed(Retries!Queued(off, id))
        /\ \A a, b \in Retries!Owed(off) :
             Retries!Before(off, a, b) => Retries!Before(Retries!Queued(off, id), a, b)
    BY QueuedKeeps DEF RetryInv
  <2>2. retryDue' \in BOOLEAN BY <1>5 DEF Retries!Queue, RetryInv
  <2>3. QED BY <1>5, <2>1, <2>2
    DEF Retries!Queue, RetryKeeps, RetryInv, Retries!Pending, Retries!Before
<1>6. QED BY <1>1, <1>3, <1>4, <1>5 DEF Retries!Next

LEMMA RetryBegins == Retries!Init => RetryInv
BY DEF Retries!Init, Retries!NoObligations, RetryInv, Listed

LEMMA OrderStays ==
  RetryInv /\ [Retries!Next]_Retries!vars =>
    /\ RetryInv'
    /\ [/\ Retries!TypeOK'
        /\ \A a, b \in Retries!Pending \cap Retries!Pending' :
             Retries!Before(off, a, b) => Retries!Before(off, a, b)']_Retries!vars
<1>1. RetryInv /\ UNCHANGED Retries!vars => RetryInv'
  BY DEF RetryInv, Retries!vars
<1>2. RetryInv /\ Retries!Next => RetryKeeps /\ Retries!TypeOK'
  BY RetryStays DEF RetryKeeps, RetryInv, Listed, Retries!TypeOK
<1>3. QED BY <1>1, <1>2 DEF RetryKeeps

(* Obligations are settled and retried first come, first served, for every  *)
(* set of servos and whichever of them answer.                              *)
THEOREM ObligationsInOrder == Retries!Spec => []RetryInv /\ Retries!ArrivalOrderKept
BY RetryBegins, OrderStays, PTL DEF Retries!Spec, Retries!ArrivalOrderKept

-----------------------------------------------------------------------------
(* The counted frame of the Base, for any set of faults.  Captured says     *)
(* where a calibration has come to, from the capture to the open gate;      *)
(* Believed, of the fault sets that keep the frame, that what is believed   *)
(* of a valid count is its coordinate, and that an interrupted calibration  *)
(* left memory and file alike; Quiet, without faults, that every stored and *)
(* cached zero, the service thread's too, is of the frame the HAT counts in.*)
Homed == op \in {"homed", "save", "open"}
Zeroed == IF op = "homed" THEN home ELSE mem.zero

Captured ==
  /\ Homed /\ valid => home = coord
  /\ op \in {"save", "open"} => mem.zero = home
  /\ op = "open" => disk.zero = home
  /\ op # "idle" => goal = None

Believed ==
  /\ valid /\ Ready /\ op # "homed" /\ mem.zero # None => mem.zero = coord
  /\ valid /\ goal # None => goal = coord
  /\ "restart" \in faults /\ ~gate /\ op \in {"idle", "homing", "undo"} => disk = mem
  /\ op = "open" => disk = mem
  /\ ~shut

Quiet ==
  /\ mem.range \in {None, mem.zero}
  /\ valid => Zeroed = coord
  /\ raw # NoCount => raw.at = Zeroed
  /\ srv.valid => srv.count.at = Zeroed
  /\ op \in {"homing", "undo"} => srv = NoRead /\ raw = NoCount

FrameInv == TypeOK /\ Captured /\ (Sound => Believed) /\ (faults = {} => Quiet)
Reads == [kind : {"none", "arm", "refresh"}, valid : BOOLEAN, count : Counts]

LEMMA Fresh ==
  /\ NoCount \in Counts /\ NoRead \in Reads /\ None \in Zeros
  /\ \A c \in 0..Coords, b \in 0..Boots : [at |-> c, boot |-> b] \in Counts
  /\ \A c \in 2..Coords : c \in 0..Coords /\ c \in Zeros
  /\ \A b \in 1..Boots : b \in 0..Boots
  /\ \A c \in 0..Coords : c \in Zeros
BY FrameAssumption DEF NoCount, NoRead, Counts, Reads, None, Zeros, Broken

LEMMA PowerLossKeeps ==
  ASSUME FrameInv, UNCHANGED faults, PowerLoss
  PROVE  FrameInv'
<1>1. TypeOK'
  <2>1. coord' \in 2..Coords BY FrameAssumption DEF FrameInv, TypeOK, PowerLoss
  <2>2. QED BY <2>1 DEF FrameInv, TypeOK, Reads, PowerLoss, cache, drive, store, system
<1>2. Captured'
  BY FrameAssumption
    DEF FrameInv, TypeOK, Captured, Homed, PowerLoss, None, hat, cache, drive, store, system
<1>3. Sound' => Believed'
  BY FrameAssumption
    DEF FrameInv, TypeOK, Sound, Captured, Homed, Believed, Ready, PowerLoss, None, Zeros, hat,
        cache, drive, store, system
<1>4. faults' = {} => Quiet'
  BY FrameAssumption
    DEF FrameInv, TypeOK, Captured, Homed, Quiet, Zeroed, PowerLoss, None, NoCount, NoRead,
        Counts, Zeros, hat, cache, drive, store, system
<1>5. QED BY <1>1, <1>2, <1>3, <1>4 DEF FrameInv

LEMMA HatRebootsKeeps ==
  ASSUME FrameInv, UNCHANGED faults, HatReboots
  PROVE  FrameInv'
<1>1. TypeOK'
  <2>1. boot' \in 1..Boots BY FrameAssumption DEF FrameInv, TypeOK, HatReboots
  <2>2. QED BY <2>1 DEF FrameInv, TypeOK, Reads, HatReboots, cache, drive, store, system
<1>2. Captured'
  BY FrameAssumption
    DEF FrameInv, TypeOK, Captured, Homed, HatReboots, None, hat, cache, drive, store, system
<1>3. Sound' => Believed'
  BY FrameAssumption
    DEF FrameInv, TypeOK, Sound, Captured, Homed, Believed, Ready, HatReboots, None, Zeros, hat,
        cache, drive, store, system
<1>4. faults' = {} => Quiet'
  BY FrameAssumption
    DEF FrameInv, TypeOK, Captured, Homed, Quiet, Zeroed, HatReboots, None, NoCount, NoRead,
        Counts, Zeros, hat, cache, drive, store, system
<1>5. QED BY <1>1, <1>2, <1>3, <1>4 DEF FrameInv

LEMMA LinkDropsKeeps ==
  ASSUME FrameInv, UNCHANGED faults, LinkDrops
  PROVE  FrameInv'
<1>1. TypeOK'
  BY FrameAssumption, Fresh
    DEF FrameInv, TypeOK, Reads, LinkDrops, hat, cache, drive, store, system
<1>2. Captured'
  BY FrameAssumption
    DEF FrameInv, TypeOK, Captured, Homed, LinkDrops, None, hat, cache, drive, store, system
<1>3. Sound' => Believed'
  BY FrameAssumption
    DEF FrameInv, TypeOK, Sound, Captured, Homed, Believed, Ready, LinkDrops, None, Zeros, hat,
        cache, drive, store, system
<1>4. faults' = {} => Quiet'
  BY FrameAssumption
    DEF FrameInv, TypeOK, Captured, Homed, Quiet, Zeroed, LinkDrops, None, NoCount, NoRead,
        Counts, Zeros, hat, cache, drive, store, system
<1>5. QED BY <1>1, <1>2, <1>3, <1>4 DEF FrameInv

LEMMA ReconnectsKeeps ==
  ASSUME FrameInv, UNCHANGED faults, Reconnects
  PROVE  FrameInv'
<1>1. TypeOK'
  BY FrameAssumption, Fresh
    DEF FrameInv, TypeOK, Reads, Reconnects, hat, cache, drive, store, system
<1>2. Captured'
  BY FrameAssumption
    DEF FrameInv, TypeOK, Captured, Homed, Reconnects, None, hat, cache, drive, store, system
<1>3. Sound' => Believed'
  BY FrameAssumption
    DEF FrameInv, TypeOK, Sound, Captured, Homed, Believed, Ready, Reconnects, None, Zeros, hat,
        cache, drive, store, system
<1>4. faults' = {} => Quiet'
  BY FrameAssumption
    DEF FrameInv, TypeOK, Captured, Homed, Quiet, Zeroed, Reconnects, None, NoCount, NoRead,
        Counts, Zeros, hat, cache, drive, store, system
<1>5. QED BY <1>1, <1>2, <1>3, <1>4 DEF FrameInv

LEMMA LookKeeps ==
  ASSUME FrameInv, UNCHANGED faults, Look
  PROVE  FrameInv'
<1>1. TypeOK'
  BY FrameAssumption, Fresh
    DEF FrameInv, TypeOK, Reads, Look, LockFree, Sync, Kept, hat, cache, drive, store, system
<1>2. Captured'
  BY FrameAssumption
    DEF FrameInv, TypeOK, Captured, Homed, Look, LockFree, Sync, Kept, None, hat, cache, drive,
        store, system
<1>3. Sound' => Believed'
  BY FrameAssumption
    DEF FrameInv, TypeOK, Sound, Captured, Homed, Believed, Ready, Look, LockFree, Sync, Kept,
        None, Zeros, hat, cache, drive, store, system
<1>4. faults' = {} => Quiet'
  BY FrameAssumption
    DEF FrameInv, TypeOK, Captured, Homed, Quiet, Zeroed, Look, LockFree, Sync, Kept, None,
        NoCount, NoRead, Counts, Zeros, hat, cache, drive, store, system
<1>5. QED BY <1>1, <1>2, <1>3, <1>4 DEF FrameInv

LEMMA ServiceReadsKeeps ==
  ASSUME FrameInv, UNCHANGED faults, NEW k \in {"arm", "refresh"}, ServiceReads(k)
  PROVE  FrameInv'
<1>1. TypeOK'
  <2>1. /\ link' \in [up : BOOLEAN, boot : 1..Boots] /\ bootId' \in 0..Boots /\ raw' \in Counts
        /\ armed' \in BOOLEAN /\ goal' \in Zeros
    BY Fresh DEF FrameInv, TypeOK, ServiceReads, Sync
  <2>2. [at |-> coord, boot |-> boot] \in Counts BY Fresh DEF FrameInv, TypeOK
  <2>3. srv' \in Reads
    BY <2>2 DEF FrameInv, TypeOK, Reads, ServiceReads
  <2>4. QED BY <2>1, <2>3 DEF FrameInv, TypeOK, Reads, ServiceReads, hat, store
<1>2. Captured'
  BY FrameAssumption
    DEF FrameInv, TypeOK, Captured, Homed, ServiceReads, Sync, Kept, LockFree, None, hat, cache,
        drive, store, system
<1>3. Sound' => Believed'
  BY FrameAssumption
    DEF FrameInv, TypeOK, Sound, Captured, Homed, Believed, Ready, ServiceReads, Sync, Kept,
        LockFree, None, Zeros, hat, cache, drive, store, system
<1>4. faults' = {} => Quiet'
  BY FrameAssumption
    DEF FrameInv, TypeOK, Captured, Homed, Quiet, Zeroed, ServiceReads, Sync, Kept, LockFree,
        None, NoCount, NoRead, Counts, Zeros, hat, cache, drive, store, system
<1>5. QED BY <1>1, <1>2, <1>3, <1>4 DEF FrameInv

LEMMA ServiceWritesKeeps ==
  ASSUME FrameInv, UNCHANGED faults, ServiceWrites
  PROVE  FrameInv'
<1>1. TypeOK'
  <2>1. raw' \in Counts /\ armed' \in BOOLEAN
    <3>1. srv.count \in Counts BY DEF FrameInv, TypeOK
    <3>2. QED BY <3>1, Fresh DEF FrameInv, TypeOK, ServiceWrites
  <2>2. srv' \in Reads BY Fresh DEF ServiceWrites
  <2>3. QED BY <2>1, <2>2 DEF FrameInv, TypeOK, Reads, ServiceWrites, hat, drive, store
<1>2. Captured'
  BY FrameAssumption
    DEF FrameInv, TypeOK, Captured, Homed, ServiceWrites, LockFree, None, hat, cache, drive,
        store, system
<1>3. Sound' => Believed'
  BY FrameAssumption
    DEF FrameInv, TypeOK, Sound, Captured, Homed, Believed, Ready, ServiceWrites, LockFree, None,
        Zeros, hat, cache, drive, store, system
<1>4. faults' = {} => Quiet'
  BY FrameAssumption
    DEF FrameInv, TypeOK, Captured, Homed, Quiet, Zeroed, ServiceWrites, LockFree, None, NoCount,
        NoRead, Counts, Zeros, hat, cache, drive, store, system
<1>5. QED BY <1>1, <1>2, <1>3, <1>4 DEF FrameInv

LEMMA TorqueKeeps ==
  ASSUME FrameInv, UNCHANGED faults, Torque
  PROVE  FrameInv'
<1>1. TypeOK'
  BY FrameAssumption, Fresh
    DEF FrameInv, TypeOK, Reads, Torque, Prepared, Ready, Kept, Answers, hat, cache, drive,
        store, system
<1>2. Captured'
  BY FrameAssumption
    DEF FrameInv, TypeOK, Captured, Homed, Torque, Prepared, Ready, Kept, Answers, None, hat,
        cache, drive, store, system
<1>3. Sound' => Believed'
  BY FrameAssumption
    DEF FrameInv, TypeOK, Sound, Captured, Homed, Believed, Ready, Torque, Prepared, Kept,
        Answers, None, Zeros, hat, cache, drive, store, system
<1>4. faults' = {} => Quiet'
  BY FrameAssumption
    DEF FrameInv, TypeOK, Captured, Homed, Quiet, Zeroed, Torque, Prepared, Ready, Kept, Answers,
        None, NoCount, NoRead, Counts, Zeros, hat, cache, drive, store, system
<1>5. QED BY <1>1, <1>2, <1>3, <1>4 DEF FrameInv

LEMMA TargetKeeps ==
  ASSUME FrameInv, UNCHANGED faults, Target
  PROVE  FrameInv'
<1>1. TypeOK'
  BY FrameAssumption, Fresh
    DEF FrameInv, TypeOK, Reads, Target, Prepared, Ready, Kept, Answers, hat, cache, drive,
        store, system
<1>2. Captured'
  BY FrameAssumption
    DEF FrameInv, TypeOK, Captured, Homed, Target, Prepared, Ready, Kept, Answers, None, hat,
        cache, drive, store, system
<1>3. Sound' => Believed'
  BY FrameAssumption
    DEF FrameInv, TypeOK, Sound, Captured, Homed, Believed, Ready, Target, Prepared, Kept,
        Answers, None, Zeros, hat, cache, drive, store, system
<1>4. faults' = {} => Quiet'
  BY FrameAssumption
    DEF FrameInv, TypeOK, Captured, Homed, Quiet, Zeroed, Target, Prepared, Ready, Kept, Answers,
        None, NoCount, NoRead, Counts, Zeros, hat, cache, drive, store, system
<1>5. QED BY <1>1, <1>2, <1>3, <1>4 DEF FrameInv

LEMMA RenewalKeeps ==
  ASSUME FrameInv, UNCHANGED faults, Renewal
  PROVE  FrameInv'
<1>1. TypeOK'
  BY FrameAssumption, Fresh
    DEF FrameInv, TypeOK, Reads, Renewal, LockFree, Ready, Sync, Kept, Answers, hat, cache,
        drive, store, system
<1>2. Captured'
  BY FrameAssumption
    DEF FrameInv, TypeOK, Captured, Homed, Renewal, LockFree, Ready, Sync, Kept, Answers, None,
        hat, cache, drive, store, system
<1>3. Sound' => Believed'
  BY FrameAssumption
    DEF FrameInv, TypeOK, Sound, Captured, Homed, Believed, Ready, Renewal, LockFree, Sync, Kept,
        Answers, None, Zeros, hat, cache, drive, store, system
<1>4. faults' = {} => Quiet'
  BY FrameAssumption
    DEF FrameInv, TypeOK, Captured, Homed, Quiet, Zeroed, Renewal, LockFree, Ready, Sync, Kept,
        Answers, None, NoCount, NoRead, Counts, Zeros, hat, cache, drive, store, system
<1>5. QED BY <1>1, <1>2, <1>3, <1>4 DEF FrameInv

LEMMA ChaseKeeps ==
  ASSUME FrameInv, UNCHANGED faults, Chase
  PROVE  FrameInv'
<1>1. TypeOK'
  BY FrameAssumption, Fresh
    DEF FrameInv, TypeOK, Reads, Chase, Ready, Answers, hat, cache, drive, store, system
<1>2. Captured'
  BY FrameAssumption
    DEF FrameInv, TypeOK, Captured, Homed, Chase, Ready, Answers, None, hat, cache, drive, store,
        system
<1>3. Sound' => Believed'
  BY FrameAssumption
    DEF FrameInv, TypeOK, Sound, Captured, Homed, Believed, Ready, Chase, Answers, None, Zeros,
        hat, cache, drive, store, system
<1>4. faults' = {} => Quiet'
  BY FrameAssumption
    DEF FrameInv, TypeOK, Captured, Homed, Quiet, Zeroed, Chase, Ready, Answers, None, NoCount,
        NoRead, Counts, Zeros, hat, cache, drive, store, system
<1>5. QED BY <1>1, <1>2, <1>3, <1>4 DEF FrameInv

LEMMA ReleaseKeeps ==
  ASSUME FrameInv, UNCHANGED faults, Release
  PROVE  FrameInv'
<1>1. TypeOK'
  BY FrameAssumption, Fresh DEF FrameInv, TypeOK, Reads, Release, hat, cache, drive, store, system
<1>2. Captured'
  BY FrameAssumption
    DEF FrameInv, TypeOK, Captured, Homed, Release, None, hat, cache, drive, store, system
<1>3. Sound' => Believed'
  BY FrameAssumption
    DEF FrameInv, TypeOK, Sound, Captured, Homed, Believed, Ready, Release, None, Zeros, hat,
        cache, drive, store, system
<1>4. faults' = {} => Quiet'
  BY FrameAssumption
    DEF FrameInv, TypeOK, Captured, Homed, Quiet, Zeroed, Release, None, NoCount, NoRead, Counts,
        Zeros, hat, cache, drive, store, system
<1>5. QED BY <1>1, <1>2, <1>3, <1>4 DEF FrameInv

LEMMA HomeBeginsKeeps ==
  ASSUME FrameInv, UNCHANGED faults, HomeBegins
  PROVE  FrameInv'
<1>1. TypeOK'
  BY FrameAssumption, Fresh
    DEF FrameInv, TypeOK, Reads, HomeBegins, hat, cache, drive, store, system
<1>2. Captured'
  BY FrameAssumption
    DEF FrameInv, TypeOK, Captured, Homed, HomeBegins, None, hat, cache, drive, store, system
<1>3. Sound' => Believed'
  BY FrameAssumption
    DEF FrameInv, TypeOK, Sound, Captured, Homed, Believed, Ready, HomeBegins, None, Zeros, hat,
        cache, drive, store, system
<1>4. faults' = {} => Quiet'
  BY FrameAssumption
    DEF FrameInv, TypeOK, Captured, Homed, Quiet, Zeroed, HomeBegins, None, NoCount, NoRead,
        Counts, Zeros, hat, cache, drive, store, system
<1>5. QED BY <1>1, <1>2, <1>3, <1>4 DEF FrameInv

LEMMA HomeAnsweredKeeps ==
  ASSUME FrameInv, UNCHANGED faults, HomeAnswered
  PROVE  FrameInv'
<1>1. TypeOK'
  BY FrameAssumption, Fresh
    DEF FrameInv, TypeOK, Reads, HomeAnswered, Answers, hat, cache, drive, store, system
<1>2. Captured'
  BY FrameAssumption
    DEF FrameInv, TypeOK, Captured, Homed, HomeAnswered, Answers, None, hat, cache, drive, store,
        system
<1>3. Sound' => Believed'
  BY FrameAssumption
    DEF FrameInv, TypeOK, Sound, Captured, Homed, Believed, Ready, HomeAnswered, Answers, None,
        Zeros, hat, cache, drive, store, system
<1>4. faults' = {} => Quiet'
  BY FrameAssumption
    DEF FrameInv, TypeOK, Captured, Homed, Quiet, Zeroed, HomeAnswered, Answers, None, NoCount,
        NoRead, Counts, Zeros, hat, cache, drive, store, system
<1>5. QED BY <1>1, <1>2, <1>3, <1>4 DEF FrameInv

LEMMA HomeFailsKeeps ==
  ASSUME FrameInv, UNCHANGED faults, HomeFails
  PROVE  FrameInv'
<1>1. TypeOK'
  BY FrameAssumption, Fresh
    DEF FrameInv, TypeOK, Reads, HomeFails, Answers, hat, cache, drive, store, system
<1>2. Captured'
  BY FrameAssumption
    DEF FrameInv, TypeOK, Captured, Homed, HomeFails, Answers, None, hat, cache, drive, store,
        system
<1>3. Sound' => Believed'
  BY FrameAssumption
    DEF FrameInv, TypeOK, Sound, Captured, Homed, Believed, Ready, HomeFails, Answers, None,
        Zeros, hat, cache, drive, store, system
<1>4. faults' = {} => Quiet'
  BY FrameAssumption
    DEF FrameInv, TypeOK, Captured, Homed, Quiet, Zeroed, HomeFails, Answers, None, NoCount,
        NoRead, Counts, Zeros, hat, cache, drive, store, system
<1>5. QED BY <1>1, <1>2, <1>3, <1>4 DEF FrameInv

LEMMA HomeUndoneKeeps ==
  ASSUME FrameInv, UNCHANGED faults, HomeUndone
  PROVE  FrameInv'
<1>1. TypeOK'
  BY FrameAssumption, Fresh
    DEF FrameInv, TypeOK, Reads, HomeUndone, Answers, hat, cache, drive, store, system
<1>2. Captured'
  BY FrameAssumption
    DEF FrameInv, TypeOK, Captured, Homed, HomeUndone, Answers, None, hat, cache, drive, store,
        system
<1>3. Sound' => Believed'
  BY FrameAssumption
    DEF FrameInv, TypeOK, Sound, Captured, Homed, Believed, Ready, HomeUndone, Answers, None,
        Zeros, hat, cache, drive, store, system
<1>4. faults' = {} => Quiet'
  BY FrameAssumption
    DEF FrameInv, TypeOK, Captured, Homed, Quiet, Zeroed, HomeUndone, Answers, None, NoCount,
        NoRead, Counts, Zeros, hat, cache, drive, store, system
<1>5. QED BY <1>1, <1>2, <1>3, <1>4 DEF FrameInv

LEMMA CalibratedKeeps ==
  ASSUME FrameInv, UNCHANGED faults, Calibrated
  PROVE  FrameInv'
<1>1. TypeOK'
  <2>1. Shifted(mem) \in [zero : Zeros, range : Zeros]
    <3>1. home \in Zeros /\ Broken \in Zeros
      BY FrameAssumption DEF FrameInv, TypeOK, Zeros, Broken
    <3>2. QED BY <3>1 DEF FrameInv, TypeOK, Shifted
  <2>2. QED BY <2>1 DEF FrameInv, TypeOK, Reads, Calibrated, hat, cache, drive
<1>2. Captured'
  BY FrameAssumption
    DEF FrameInv, TypeOK, Captured, Homed, Calibrated, Shifted, Ready, None, hat, cache, drive,
        store, system
<1>3. Sound' => Believed'
  BY FrameAssumption
    DEF FrameInv, TypeOK, Sound, Captured, Homed, Believed, Ready, Calibrated, Shifted, None,
        Zeros, hat, cache, drive, store, system
<1>4. faults' = {} => Quiet'
  BY FrameAssumption
    DEF FrameInv, TypeOK, Captured, Homed, Quiet, Zeroed, Calibrated, Shifted, Ready, None,
        NoCount, NoRead, Counts, Zeros, hat, cache, drive, store, system
<1>5. QED BY <1>1, <1>2, <1>3, <1>4 DEF FrameInv

LEMMA SavesKeeps ==
  ASSUME FrameInv, UNCHANGED faults, Saves
  PROVE  FrameInv'
<1>1. TypeOK'
  BY FrameAssumption, Fresh
    DEF FrameInv, TypeOK, Reads, Saves, Verified, Ready, hat, cache, drive, store, system
<1>2. Captured'
  BY FrameAssumption
    DEF FrameInv, TypeOK, Captured, Homed, Saves, Verified, Ready, None, hat, cache, drive,
        store, system
<1>3. Sound' => Believed'
  BY FrameAssumption
    DEF FrameInv, TypeOK, Sound, Captured, Homed, Believed, Ready, Saves, Verified, None, Zeros,
        hat, cache, drive, store, system
<1>4. faults' = {} => Quiet'
  BY FrameAssumption
    DEF FrameInv, TypeOK, Captured, Homed, Quiet, Zeroed, Saves, Verified, Ready, None, NoCount,
        NoRead, Counts, Zeros, hat, cache, drive, store, system
<1>5. QED BY <1>1, <1>2, <1>3, <1>4 DEF FrameInv

LEMMA UnverifiedKeeps ==
  ASSUME FrameInv, UNCHANGED faults, Unverified
  PROVE  FrameInv'
<1>1. TypeOK'
  BY FrameAssumption, Fresh
    DEF FrameInv, TypeOK, Reads, Unverified, Verified, Ready, hat, cache, drive, store, system
<1>2. Captured'
  BY FrameAssumption
    DEF FrameInv, TypeOK, Captured, Homed, Unverified, Verified, Ready, None, hat, cache, drive,
        store, system
<1>3. Sound' => Believed'
  BY FrameAssumption
    DEF FrameInv, TypeOK, Sound, Captured, Homed, Believed, Ready, Unverified, Verified, None,
        Zeros, hat, cache, drive, store, system
<1>4. faults' = {} => Quiet'
  BY FrameAssumption
    DEF FrameInv, TypeOK, Captured, Homed, Quiet, Zeroed, Unverified, Verified, Ready, None,
        NoCount, NoRead, Counts, Zeros, hat, cache, drive, store, system
<1>5. QED BY <1>1, <1>2, <1>3, <1>4 DEF FrameInv

LEMMA SaveFailsKeeps ==
  ASSUME FrameInv, UNCHANGED faults, SaveFails
  PROVE  FrameInv'
<1>1. TypeOK'
  BY FrameAssumption, Fresh
    DEF FrameInv, TypeOK, Reads, SaveFails, Verified, Ready, hat, cache, drive, store, system
<1>2. Captured'
  BY FrameAssumption
    DEF FrameInv, TypeOK, Captured, Homed, SaveFails, Verified, Ready, None, hat, cache, drive,
        store, system
<1>3. Sound' => Believed'
  BY FrameAssumption
    DEF FrameInv, TypeOK, Sound, Captured, Homed, Believed, Ready, SaveFails, Verified, None,
        Zeros, hat, cache, drive, store, system
<1>4. faults' = {} => Quiet'
  BY FrameAssumption
    DEF FrameInv, TypeOK, Captured, Homed, Quiet, Zeroed, SaveFails, Verified, Ready, None,
        NoCount, NoRead, Counts, Zeros, hat, cache, drive, store, system
<1>5. QED BY <1>1, <1>2, <1>3, <1>4 DEF FrameInv

LEMMA GateOpensKeeps ==
  ASSUME FrameInv, UNCHANGED faults, GateOpens
  PROVE  FrameInv'
<1>1. TypeOK'
  BY FrameAssumption, Fresh
    DEF FrameInv, TypeOK, Reads, GateOpens, Persisted, hat, cache, drive, store, system
<1>2. Captured'
  BY FrameAssumption
    DEF FrameInv, TypeOK, Captured, Homed, GateOpens, Persisted, None, hat, cache, drive, store,
        system
<1>3. Sound' => Believed'
  BY FrameAssumption
    DEF FrameInv, TypeOK, Sound, Captured, Homed, Believed, Ready, GateOpens, Persisted, None,
        Zeros, hat, cache, drive, store, system
<1>4. faults' = {} => Quiet'
  BY FrameAssumption
    DEF FrameInv, TypeOK, Captured, Homed, Quiet, Zeroed, GateOpens, Persisted, None, NoCount,
        NoRead, Counts, Zeros, hat, cache, drive, store, system
<1>5. QED BY <1>1, <1>2, <1>3, <1>4 DEF FrameInv

LEMMA GateFailsKeeps ==
  ASSUME FrameInv, UNCHANGED faults, GateFails
  PROVE  FrameInv'
<1>1. TypeOK'
  BY FrameAssumption, Fresh
    DEF FrameInv, TypeOK, Reads, GateFails, hat, cache, drive, store, system
<1>2. Captured'
  BY FrameAssumption
    DEF FrameInv, TypeOK, Captured, Homed, GateFails, None, hat, cache, drive, store, system
<1>3. Sound' => Believed'
  BY FrameAssumption
    DEF FrameInv, TypeOK, Sound, Captured, Homed, Believed, Ready, GateFails, None, Zeros, hat,
        cache, drive, store, system
<1>4. faults' = {} => Quiet'
  BY FrameAssumption
    DEF FrameInv, TypeOK, Captured, Homed, Quiet, Zeroed, GateFails, None, NoCount, NoRead,
        Counts, Zeros, hat, cache, drive, store, system
<1>5. QED BY <1>1, <1>2, <1>3, <1>4 DEF FrameInv

LEMMA SetRangeKeeps ==
  ASSUME FrameInv, UNCHANGED faults, SetRange
  PROVE  FrameInv'
<1>1. TypeOK'
  <2>1. mem' \in [zero : Zeros, range : Zeros]
    <3>1. raw.at \in Zeros /\ coord \in Zeros
      BY Fresh DEF FrameInv, TypeOK, Counts
    <3>2. QED BY <3>1 DEF FrameInv, TypeOK, SetRange
  <2>2. raw' \in Counts /\ bootId' \in 0..Boots
    BY Fresh DEF FrameInv, TypeOK, SetRange
  <2>3. QED BY <2>1, <2>2 DEF FrameInv, TypeOK, Reads, SetRange, hat, drive
<1>2. Captured'
  BY FrameAssumption
    DEF FrameInv, TypeOK, Captured, Homed, SetRange, Kept, Answers, None, hat, cache, drive,
        store, system
<1>3. Sound' => Believed'
  BY FrameAssumption
    DEF FrameInv, TypeOK, Sound, Captured, Homed, Believed, Ready, SetRange, Kept, Answers, None,
        Zeros, hat, cache, drive, store, system
<1>4. faults' = {} => Quiet'
  BY FrameAssumption
    DEF FrameInv, TypeOK, Captured, Homed, Quiet, Zeroed, SetRange, Kept, Answers, None, NoCount,
        NoRead, Counts, Zeros, hat, cache, drive, store, system
<1>5. QED BY <1>1, <1>2, <1>3, <1>4 DEF FrameInv

LEMMA ClearZeroKeeps ==
  ASSUME FrameInv, UNCHANGED faults, ClearZero
  PROVE  FrameInv'
<1>1. TypeOK'
  BY FrameAssumption, Fresh
    DEF FrameInv, TypeOK, Reads, ClearZero, hat, cache, drive, store, system
<1>2. Captured'
  BY FrameAssumption
    DEF FrameInv, TypeOK, Captured, Homed, ClearZero, None, hat, cache, drive, store, system
<1>3. Sound' => Believed'
  BY FrameAssumption
    DEF FrameInv, TypeOK, Sound, Captured, Homed, Believed, Ready, ClearZero, None, Zeros, hat,
        cache, drive, store, system
<1>4. faults' = {} => Quiet'
  BY FrameAssumption
    DEF FrameInv, TypeOK, Captured, Homed, Quiet, Zeroed, ClearZero, None, NoCount, NoRead,
        Counts, Zeros, hat, cache, drive, store, system
<1>5. QED BY <1>1, <1>2, <1>3, <1>4 DEF FrameInv

LEMMA RestartKeeps ==
  ASSUME FrameInv, UNCHANGED faults, Restart
  PROVE  FrameInv'
<1>1. TypeOK'
  <2>1. /\ link' \in [up : BOOLEAN, boot : 1..Boots] /\ bootId' \in 0..Boots /\ home' \in 0..Coords
        /\ goal' \in Zeros /\ srv' \in Reads /\ raw' \in Counts
    BY FrameAssumption, Fresh DEF FrameInv, TypeOK, Restart, None
  <2>2. QED BY <2>1 DEF FrameInv, TypeOK, Reads, Restart, hat
<1>2. Captured'
  BY FrameAssumption
    DEF FrameInv, TypeOK, Captured, Homed, Restart, None, hat, cache, drive, store, system
<1>3. Sound' => Believed'
  BY FrameAssumption
    DEF FrameInv, TypeOK, Sound, Captured, Homed, Believed, Ready, Restart, None, Zeros, hat,
        cache, drive, store, system
<1>4. faults' = {} => Quiet'
  BY FrameAssumption
    DEF FrameInv, TypeOK, Captured, Homed, Quiet, Zeroed, Restart, None, NoCount, NoRead, Counts,
        Zeros, hat, cache, drive, store, system
<1>5. QED BY <1>1, <1>2, <1>3, <1>4 DEF FrameInv

LEMMA FrameBegins == Init => FrameInv
<1> SUFFICES ASSUME Init PROVE FrameInv OBVIOUS
<1>1. /\ coord \in 2..Coords /\ boot \in 1..Boots /\ 1 \in 1..Boots /\ 0 \in 0..Boots
      /\ home \in 0..Coords /\ goal \in Zeros /\ Old \in Zeros /\ coord \in Zeros
  BY FrameAssumption DEF Init, Zeros, Broken, None, Old
<1>2. mem \in [zero : Zeros, range : Zeros] /\ disk \in [zero : Zeros, range : Zeros]
  BY <1>1, Fresh DEF Init
<1>3. TypeOK BY <1>1, <1>2, Fresh DEF Init, TypeOK, Reads
<1>4. Captured BY DEF Init, Captured, Homed
<1>5. Believed BY DEF Init, Believed, None
<1>6. Quiet BY DEF Init, Quiet, Zeroed, NoRead, None, NoCount
<1>7. QED BY <1>3, <1>4, <1>5, <1>6 DEF FrameInv

LEMMA FrameStays == FrameInv /\ [Next]_vars => FrameInv'
<1> SUFFICES ASSUME FrameInv, [Next]_vars PROVE FrameInv' OBVIOUS
<1>1. CASE UNCHANGED vars
  BY <1>1
    DEF vars, system, FrameInv, TypeOK, Captured, Homed, Sound, Believed, Ready, Quiet, Zeroed
<1>2. ASSUME NEW k \in {"arm", "refresh"}, Next, ServiceReads(k) PROVE FrameInv'
  BY <1>2, ServiceReadsKeeps DEF Next
<1>3. ASSUME Next, Calibrate PROVE FrameInv'
  BY <1>3, HomeBeginsKeeps, HomeAnsweredKeeps, HomeFailsKeeps, HomeUndoneKeeps,
       CalibratedKeeps, SavesKeeps, UnverifiedKeeps, SaveFailsKeeps,
       GateOpensKeeps, GateFailsKeeps, SetRangeKeeps, ClearZeroKeeps
     DEF Next, Calibrate
<1>4. QED
  BY <1>1, <1>2, <1>3, PowerLossKeeps, HatRebootsKeeps, LinkDropsKeeps, ReconnectsKeeps,
       LookKeeps, ServiceWritesKeeps, TorqueKeeps, TargetKeeps, RenewalKeeps,
       ChaseKeeps, ReleaseKeeps, RestartKeeps
     DEF Next, Service

(* The invariant of the Base's frame holds in every reachable state.        *)
THEOREM FrameInductive == Spec => []FrameInv
BY FrameBegins, FrameStays, PTL DEF Spec

(* The marker goes when the zero that was homed has been read from the file.*)
LEMMA GateGoes ==
  ASSUME FrameInv, Next, gate, ~gate', valid
  PROVE  disk.zero = coord
<1>1. CASE GateOpens \/ GateFails
  BY <1>1 DEF FrameInv, Captured, Homed, GateOpens, GateFails
<1>2. gate' = gate \/ GateOpens \/ GateFails
  <2>1. CASE Calibrate
    BY <2>1 DEF Calibrate, HomeBegins, HomeAnswered, HomeFails, HomeUndone, Calibrated, Saves,
       Unverified, SaveFails, SetRange, ClearZero, store
  <2>2. CASE Service
    BY <2>2 DEF Service, ServiceReads, ServiceWrites, store
  <2>3. CASE PowerLoss \/ HatReboots \/ LinkDrops \/ Reconnects \/ Look \/ Restart
    BY <2>3 DEF PowerLoss, HatReboots, LinkDrops, Reconnects, Look, Restart, store
  <2>4. CASE Torque \/ Target \/ Renewal \/ Chase \/ Release
    BY <2>4 DEF Torque, Target, Renewal, Chase, Release, store, system
  <2>5. QED BY <2>1, <2>2, <2>3, <2>4 DEF Next
<1>3. QED BY <1>1, <1>2

LEMMA TargetIsTrue ==
  ASSUME FrameInv, Target
  PROVE  /\ Sound => mem.zero = coord
         /\ faults = {} => mem.range \in {None, coord}
BY DEF FrameInv, Target, Prepared, Believed, Quiet, Zeroed

LEMMA GoalIsTrue == FrameInv => (Sound => StaysTrue)
BY DEF FrameInv, Believed, StaysTrue

(* A command is prepared from the zero the joint is at, a goal stays true of*)
(* the count it was given in, and the marker goes only when the zero that   *)
(* was homed is in the file.                                                *)
THEOREM BaseStaysTrue == Spec => BaseIsTrue
<1>1. FrameInv /\ [Next]_vars =>
        [/\ Sound => (Target => mem.zero = coord) /\ StaysTrue
         /\ faults = {} => (Target => mem.range \in {None, coord})
         /\ gate /\ ~gate' /\ valid => disk.zero = coord]_vars
  BY GateGoes, TargetIsTrue, GoalIsTrue
<1>2. QED BY <1>1, FrameInductive, PTL DEF Spec, BaseIsTrue

-----------------------------------------------------------------------------
(* Commissioning.  ApiTyped carries that a link which is up is of the boot  *)
(* the HAT is in, which ties evidence to a boot; Compared that, while no    *)
(* frame changed within the boot, what is filed under it, or on the way to  *)
(* be, lacks the same turns, and that a commit past its check carries limits*)
(* the joint reached; Current that a token which all three layers still keep*)
(* was not ended by anything.                                               *)
Kinds == Api!Operations \cup {"none"}
Places == {"none", "body", "check", "take", "ask", "label", "keep", "scan",
           "fresh", "after", "save", "adopt"}
Committing(o) == o.kind = "commit" /\ o.at \notin {"body", "check", "ask"}

Entry == [boot : 1..ApiBoots, kind : {"cap", "nudge"}, raw : Int, multi : Int, at : 0..Positions]

(* The HAT and the link.  A power cycle takes the link down, so a link that *)
(* is up is to this boot.                                                   *)
HatTyped(h) ==
  /\ h = [boot |-> h.boot, native |-> h.native, frame |-> h.frame, valid |-> h.valid,
          stopped |-> h.stopped, prop |-> h.prop, made |-> h.made]
  /\ h.boot \in 1..ApiBoots /\ h.frame \in 0..Positions /\ h.made \in 0..Tokens
  /\ h.native \in BOOLEAN /\ h.valid \in BOOLEAN /\ h.stopped \in BOOLEAN
  /\ h.prop # Api!None => h.prop.from \in Nat /\ h.prop.id \in 1..h.made

LinkTyped(l, h) ==
  /\ l = [up |-> l.up, boot |-> l.boot, prop |-> l.prop]
  /\ l.up \in BOOLEAN /\ l.boot \in 1..h.boot
  /\ l.up => l.boot = h.boot

(* The operation: what it carries at each place. *)
OpTyped(o, h) ==
  /\ o = [kind |-> o.kind, at |-> o.at, rec |-> o.rec] /\ o.kind \in Kinds /\ o.at \in Places
  /\ o.kind = "none" <=> o.at = "none"
  /\ o.kind = "prepare" /\ o.at \in {"body", "check", "ask"} => h.made < Tokens
  /\ o.at \in {"scan", "fresh", "after", "save", "adopt"} => o.kind = "commit"
  /\ o.at = "label" => o.rec.raw \in Int /\ o.rec.multi \in Int /\ o.rec.at \in 0..Positions
                       /\ o.rec.kind = "cap" /\ o.kind = "capture"
  /\ o.kind = "execute" /\ o.at = "ask" => o.rec.boot \in 1..h.boot
  /\ Committing(o) =>
       /\ o.rec.boot \in 1..h.boot
       /\ o.rec.zero \in Int /\ o.rec.low \in Int /\ o.rec.high \in Int

ProfileTyped(f) ==
  f # Api!None =>
    f.rev \in 1..Saved /\ f.zero \in Int /\ f.low \in Int /\ f.high \in Int
StoreTyped(s, o) ==
  /\ s = [mem |-> s.mem, disk |-> s.disk] /\ ProfileTyped(s.mem) /\ ProfileTyped(s.disk)
  /\ o.at = "adopt" => Api!Rev(s.mem) < Saved

SeenTyped(s, h) ==
  /\ s = [since |-> s.since, refused |-> s.refused, over |-> s.over, late |-> s.late,
          torn |-> s.torn]
  /\ s.over \in 0..h.made /\ s.late \in BOOLEAN /\ s.torn \in BOOLEAN

ApiTyped ==
  /\ apiFaults \in SUBSET Api!FaultKinds
  /\ pos \in 0..Positions /\ HatTyped(apiHat) /\ LinkTyped(apiLink, apiHat)
  /\ ledger \subseteq Entry /\ \A e \in ledger : e.boot <= apiHat.boot
  /\ OpTyped(apiOp, apiHat) /\ StoreTyped(profile, apiOp)
  /\ stop \in {"none", "asked", "running"}
  /\ SeenTyped(seen, apiHat)

(* The turns a count lacks, and how many ticks those are. *)
Lacking(h) == ApiTurn * h.frame

(* A count in the evidence, and where it was taken, differ by what the      *)
(* count of that boot lacks.                                                *)
InFrame(r, h) == r.multi # Api!NoCount => r.at - r.multi = Lacking(h)
Reached(f) == f.low - f.zero <= -1 /\ f.high - f.zero >= 1

Filed(q, h) == \A e \in q : e.boot = h.boot => InFrame(e, h)
Compared ==
  /\ ~seen.torn => Filed(ledger, apiHat)
  /\ ~seen.torn /\ apiOp.at = "label" => InFrame(apiOp.rec, apiHat)
  /\ Committing(apiOp) => apiOp.rec.torn \/ Reached(apiOp.rec)
  /\ \A f \in {profile.mem, profile.disk} \ {Api!None} : f.torn \/ Reached(f)

(* The router, or the operation under way, has the token. *)
Carrying(o) == (o.kind = "prepare" /\ o.at = "keep") \/ (o.kind = "execute" /\ o.at = "ask")
Holds(t) == (http # Api!None /\ http.id = t) \/ (Carrying(apiOp) /\ apiOp.rec.id = t)
Live(t) == apiHat.prop # Api!None /\ apiHat.prop.id = t /\ apiLink.prop = [id |-> t]
Current == ~seen.late /\ \A t \in 1..Tokens : Live(t) /\ Holds(t) => seen.over < t

ApiInv == ApiTyped /\ Compared /\ Current

LEMMA LackingIsInt == \A h : h.frame \in 0..Positions => Lacking(h) \in Int
<1> SUFFICES ASSUME NEW h, h.frame \in 0..Positions PROVE ApiTurn * h.frame \in Int BY DEF Lacking
<1>1. ApiTurn \in Int /\ h.frame \in Int BY ServosAssumption
<1>2. QED BY <1>1

(* A position in turns, and what a capture reads. *)
LEMMA WholeTurns ==
  ASSUME NEW p \in 0..Positions
  PROVE  p \div ApiTurn \in 0..Positions /\ p % ApiTurn \in Int
<1>1. ApiTurn \in Nat \ {0} /\ p \in Nat BY ServosAssumption
<1>2. /\ p % ApiTurn \in 0..(ApiTurn - 1) /\ p \div ApiTurn \in Int
      /\ p = ApiTurn * (p \div ApiTurn) + (p % ApiTurn)
  BY <1>1
<1> DEFINE q == p \div ApiTurn
<1>3. q \in Int /\ ApiTurn * q <= p /\ p < ApiTurn * q + ApiTurn BY <1>1, <1>2
<1> HIDE DEF q
<1>4. 0 <= q
  <2>1. SUFFICES ASSUME q <= -1 PROVE FALSE BY <1>3
  <2>2. ApiTurn * q <= ApiTurn * (-1) BY <2>1, <1>1, <1>3
  <2>3. QED BY <2>2, <1>1, <1>3
<1>5. q <= p
  <2>1. q <= ApiTurn * q BY <1>1, <1>3, <1>4
  <2>2. ApiTurn * q \in Int BY <1>1, <1>3
  <2>3. QED BY <2>1, <2>2, <1>1, <1>3
<1>6. q \in 0..Positions BY <1>3, <1>4, <1>5, ServosAssumption
<1>7. QED BY <1>2, <1>6 DEF q

LEMMA ReadingIsTrue ==
  ASSUME ApiTyped
  PROVE  /\ Api!Reading.kind = "cap" /\ Api!Reading.raw \in Int /\ Api!Reading.multi \in Int
         /\ Api!Reading.at = pos /\ InFrame(Api!Reading, apiHat)
<1>1. Lacking(apiHat) \in Int BY LackingIsInt DEF ApiTyped, HatTyped
<1>2. pos \in Int /\ pos % ApiTurn \in Int BY WholeTurns, ServosAssumption DEF ApiTyped
<1>3. Api!Multi = IF apiHat.valid THEN pos - Lacking(apiHat) ELSE Api!NoCount
  BY DEF Api!Multi, Lacking
<1>4. QED BY <1>1, <1>2, <1>3 DEF Api!Reading, Api!NoCount, InFrame

(* What is filed under boot b. *)
Fits(b, r) ==
  /\ b \in 1..apiHat.boot /\ r.kind \in {"cap", "nudge"} /\ r.raw \in Int /\ r.multi \in Int
  /\ r.at \in 0..Positions

LEMMA FilingIsTyped ==
  ASSUME ApiTyped, NEW b, NEW r, Fits(b, r)
  PROVE  Api!Recorded(b, r) \subseteq Entry /\ \A e \in Api!Recorded(b, r) : e.boot <= apiHat.boot
<1> DEFINE new == [boot |-> b, kind |-> r.kind, raw |-> r.raw, multi |-> r.multi, at |-> r.at]
<1>1. b \in 1..ApiBoots /\ b <= apiHat.boot
  BY ServosAssumption DEF Fits, ApiTyped, HatTyped
<1>2. new \in Entry /\ new.boot <= apiHat.boot
  BY <1>1 DEF Fits, Entry
<1>3. Api!Recorded(b, r) \subseteq ledger \cup {new} BY DEF Api!Recorded
<1> HIDE DEF new
<1>4. ledger \subseteq Entry /\ \A e \in ledger : e.boot <= apiHat.boot BY DEF ApiTyped
<1>5. QED BY <1>2, <1>3, <1>4

LEMMA FilingIsTrue ==
  ASSUME Filed(ledger, apiHat), NEW b, NEW r,
         b = apiHat.boot => InFrame(r, apiHat)
  PROVE  Filed(Api!Recorded(b, r), apiHat)
<1> DEFINE new == [boot |-> b, kind |-> r.kind, raw |-> r.raw, multi |-> r.multi, at |-> r.at]
<1>1. new.boot = b /\ new.multi = r.multi /\ new.at = r.at OBVIOUS
<1>2. Api!Recorded(b, r) \subseteq ledger \cup {new} BY DEF Api!Recorded
<1> HIDE DEF new
<1>3. new.boot = apiHat.boot => InFrame(new, apiHat) BY <1>1 DEF InFrame
<1>4. QED BY <1>2, <1>3 DEF Filed

LEMMA ApiHandTurnKeeps ==
  ASSUME ApiInv, UNCHANGED apiFaults, Api!HandTurn
  PROVE  ApiInv'
<1>1. ApiTyped'
  <2>1. pos' \in 0..Positions
    BY DEF ApiInv, ApiTyped, Api!HandTurn
  <2>2. HatTyped(apiHat')
    BY DEF ApiInv, ApiTyped, HatTyped, Api!HandTurn, Api!None
  <2>3. LinkTyped(apiLink', apiHat')
    BY DEF ApiInv, ApiTyped, HatTyped, LinkTyped, Api!HandTurn
  <2>4. ledger' \subseteq Entry /\ \A e \in ledger' : e.boot <= apiHat'.boot
    BY DEF ApiInv, ApiTyped, HatTyped, Api!HandTurn
  <2>5. OpTyped(apiOp', apiHat')
    BY DEF ApiInv, ApiTyped, HatTyped, LinkTyped, OpTyped, Committing, Kinds, Places,
         Api!Operations, Api!HandTurn, Api!Runs, Api!GoOn, Api!Over, Api!Idle, Api!Counted
  <2>6. StoreTyped(profile', apiOp')
    BY DEF OpTyped, ProfileTyped, ApiInv, ApiTyped, StoreTyped, Api!HandTurn, Api!Runs, Api!GoOn,
         Api!Over, Api!Idle, Api!Counted
  <2>7. SeenTyped(seen', apiHat')
    BY DEF ApiInv, ApiTyped, HatTyped, SeenTyped, Api!HandTurn, Api!Counted, Api!Sent
  <2>8. QED
    BY <2>1, <2>2, <2>3, <2>4, <2>5, <2>6, <2>7
      DEF ApiInv, ApiTyped, Api!HandTurn
<1>2. Compared'
  BY DEF ApiInv, ApiTyped, HatTyped, OpTyped, Compared, Filed, InFrame, Lacking,
       Reached, Committing, Api!HandTurn, Api!Runs, Api!GoOn, Api!Over, Api!Idle, Api!Counted
<1>3. Current'
  BY DEF ApiInv, ApiTyped, HatTyped, LinkTyped, OpTyped, SeenTyped, Current, Live, Holds,
         Carrying, Api!None, Api!HandTurn, Api!Counted, Api!Runs, Api!GoOn, Api!Over, Api!Idle
<1>4. QED BY <1>1, <1>2, <1>3 DEF ApiInv

LEMMA ApiPowerCycleKeeps ==
  ASSUME ApiInv, UNCHANGED apiFaults, Api!PowerCycle
  PROVE  ApiInv'
<1>1. ApiTyped'
  <2>1. pos' \in 0..Positions
    BY DEF ApiInv, ApiTyped, Api!PowerCycle
  <2>2. HatTyped(apiHat') /\ apiHat'.boot = apiHat.boot + 1
    <3>1. apiHat' = [boot |-> apiHat.boot + 1, native |-> apiHat.native,
                     frame |-> pos \div ApiTurn, valid |-> FALSE,
                     stopped |-> FALSE, prop |-> Api!None, made |-> apiHat.made]
      BY DEF ApiInv, ApiTyped, HatTyped, Api!PowerCycle
    <3>2. pos \div ApiTurn \in 0..Positions BY WholeTurns DEF ApiInv, ApiTyped
    <3>3. apiHat.boot + 1 \in 1..ApiBoots
      BY ServosAssumption DEF ApiInv, ApiTyped, HatTyped, Api!PowerCycle
    <3>4. QED BY <3>1, <3>2, <3>3 DEF ApiInv, ApiTyped, HatTyped
  <2>3. LinkTyped(apiLink', apiHat')
    <3>1. apiLink' = [up |-> FALSE, boot |-> apiLink.boot, prop |-> apiLink.prop]
      BY DEF ApiInv, ApiTyped, LinkTyped, Api!PowerCycle
    <3>2. apiHat.boot \in Int
      BY ServosAssumption DEF ApiInv, ApiTyped, HatTyped
    <3>3. apiLink.boot \in 1..(apiHat.boot + 1)
      BY <3>2 DEF ApiInv, ApiTyped, LinkTyped
    <3>4. QED BY <3>1, <3>3, <2>2 DEF LinkTyped
  <2>4. ledger' \subseteq Entry /\ \A e \in ledger' : e.boot <= apiHat'.boot
    <3>1. apiHat.boot \in Int /\ \A e \in ledger : e.boot \in Int
      BY ServosAssumption DEF ApiInv, ApiTyped, HatTyped, Entry
    <3>2. QED BY <3>1, <2>2 DEF ApiInv, ApiTyped, Api!PowerCycle
  <2>5. OpTyped(apiOp', apiHat')
    BY DEF ApiInv, ApiTyped, HatTyped, LinkTyped, OpTyped, Committing, Kinds, Places,
         Api!Operations, Api!PowerCycle, Api!Runs, Api!GoOn, Api!Over, Api!Idle, Api!Counted
  <2>6. StoreTyped(profile', apiOp')
    BY DEF OpTyped, ProfileTyped, ApiInv, ApiTyped, StoreTyped, Api!PowerCycle, Api!Runs,
         Api!GoOn, Api!Over, Api!Idle, Api!Counted
  <2>7. SeenTyped(seen', apiHat')
    <3>1. seen' = [since |-> seen.since, refused |-> seen.refused, over |-> apiHat.made,
                   late |-> seen.late, torn |-> Api!Runs("capture", "label")]
      BY DEF ApiInv, ApiTyped, SeenTyped, Api!PowerCycle
    <3>2. apiHat'.made = apiHat.made
      BY DEF ApiInv, ApiTyped, HatTyped, Api!PowerCycle
    <3>3. apiHat.made \in 0..apiHat.made
      BY ServosAssumption DEF ApiInv, ApiTyped, HatTyped
    <3>4. QED
      BY <3>1, <3>2, <3>3 DEF ApiInv, ApiTyped, SeenTyped, Api!Torn, Api!Runs
  <2>8. QED
    BY <2>1, <2>2, <2>3, <2>4, <2>5, <2>6, <2>7
      DEF ApiInv, ApiTyped, Api!PowerCycle
<1>2. Compared'
  <2>1. \A e \in ledger : e.boot <= apiHat.boot /\ e.boot \in Int
    BY ServosAssumption DEF ApiInv, ApiTyped, Entry
  <2>2. apiHat.boot \in Int /\ apiHat'.boot = apiHat.boot + 1
    BY ServosAssumption DEF ApiInv, ApiTyped, HatTyped, Api!PowerCycle
  <2>3. Filed(ledger', apiHat') BY <2>1, <2>2 DEF Filed, Api!PowerCycle
  <2>4. apiOp'.at = "label" => seen'.torn
    BY DEF ApiInv, ApiTyped, OpTyped, SeenTyped, Api!PowerCycle, Api!Runs
  <2>5. QED BY <2>3, <2>4 DEF ApiInv, Compared, Api!PowerCycle
<1>3. Current'
  BY DEF ApiInv, ApiTyped, HatTyped, LinkTyped, OpTyped, SeenTyped, Current, Live, Holds,
         Carrying, Api!None, Api!PowerCycle, Api!Counted, Api!Runs, Api!GoOn, Api!Over, Api!Idle
<1>4. QED BY <1>1, <1>2, <1>3 DEF ApiInv

(* A frame that changed within the boot tears the counts taken, or there are*)
(* none.                                                                    *)
LEMMA TornIsKept ==
  ASSUME ApiInv, NEW frame, ~Api!Torn(frame)
  PROVE  /\ ~seen.torn
         /\ frame = apiHat.frame \/ (apiOp.at # "label" /\ \A e \in ledger :
              e.boot = apiHat.boot => e.multi = Api!NoCount)
BY DEF ApiInv, ApiTyped, OpTyped, Api!Torn, Api!Counts, Api!Runs

LEMMA ReframedIsFiled ==
  ASSUME ApiInv, NEW frame, ~Api!Torn(frame),
         apiHat'.boot = apiHat.boot, apiHat'.frame = frame
  PROVE  /\ Filed(ledger, apiHat')
         /\ apiOp.at = "label" => InFrame(apiOp.rec, apiHat')
<1>1. CASE frame = apiHat.frame
  BY <1>1, TornIsKept DEF ApiInv, Compared, Filed, InFrame, Lacking
<1>2. CASE frame # apiHat.frame
  BY <1>2, TornIsKept DEF Filed, InFrame
<1>3. QED BY <1>1, <1>2

LEMMA ApiServoPowerLossKeeps ==
  ASSUME ApiInv, UNCHANGED apiFaults, Api!ServoPowerLoss
  PROVE  ApiInv'
<1>1. PICK v \in BOOLEAN :
        apiHat' = [apiHat EXCEPT !.frame = pos \div ApiTurn, !.valid = v]
  BY DEF ApiInv, ApiTyped, HatTyped, Api!ServoPowerLoss
<1>2. /\ apiHat' = [boot |-> apiHat.boot, native |-> apiHat.native, frame |-> pos \div ApiTurn,
                    valid |-> v, stopped |-> apiHat.stopped, prop |-> apiHat.prop,
                    made |-> apiHat.made]
  BY <1>1 DEF ApiInv, ApiTyped, HatTyped
<1>3. seen' = [since |-> seen.since, refused |-> seen.refused, over |-> seen.over,
               late |-> seen.late, torn |-> Api!Torn(pos \div ApiTurn)]
  BY DEF ApiInv, ApiTyped, SeenTyped, Api!ServoPowerLoss
<1>4. UNCHANGED <<pos, apiLink, http, ledger, apiOp, stop, profile>>
  BY DEF Api!ServoPowerLoss
<1>5. ApiTyped'
  <2>1. HatTyped(apiHat') BY <1>2, WholeTurns DEF ApiInv, ApiTyped, HatTyped
  <2>2. LinkTyped(apiLink', apiHat') BY <1>2, <1>4 DEF ApiInv, ApiTyped, LinkTyped
  <2>3. OpTyped(apiOp', apiHat') BY <1>2, <1>4 DEF ApiInv, ApiTyped, OpTyped, Committing
  <2>4. StoreTyped(profile', apiOp') BY <1>4 DEF ApiInv, ApiTyped, StoreTyped
  <2>5. Api!Torn(pos \div ApiTurn) \in BOOLEAN
    BY DEF ApiInv, ApiTyped, SeenTyped, Api!Torn
  <2>6. SeenTyped(seen', apiHat') BY <1>2, <1>3, <2>5 DEF ApiInv, ApiTyped, SeenTyped
  <2>7. QED BY <1>2, <1>4, <2>1, <2>2, <2>3, <2>4, <2>6 DEF ApiInv, ApiTyped
<1>6. Compared'
  <2>1. ASSUME ~seen'.torn
        PROVE  Filed(ledger', apiHat') /\ (apiOp'.at = "label" => InFrame(apiOp'.rec, apiHat'))
    <3>1. ~Api!Torn(pos \div ApiTurn) BY <1>3, <2>1
    <3>2. QED BY <1>2, <1>4, <3>1, ReframedIsFiled
  <2>2. QED BY <1>4, <2>1 DEF ApiInv, Compared
<1>7. Current'
  BY <1>2, <1>3, <1>4 DEF ApiInv, Current, Live, Holds, Carrying
<1>8. QED BY <1>5, <1>6, <1>7 DEF ApiInv

LEMMA ApiServiceReconnectsKeeps ==
  ASSUME ApiInv, UNCHANGED apiFaults, Api!ServiceReconnects
  PROVE  ApiInv'
<1>1. ApiTyped'
  <2>1. pos' \in 0..Positions
    BY DEF ApiInv, ApiTyped, Api!ServiceReconnects
  <2>2. HatTyped(apiHat')
    BY DEF ApiInv, ApiTyped, HatTyped, Api!ServiceReconnects, Api!None
  <2>3. LinkTyped(apiLink', apiHat')
    <3>1. apiHat.boot \in 1..apiHat.boot
      BY ServosAssumption DEF ApiInv, ApiTyped, HatTyped
    <3>2. apiLink' = [up |-> TRUE, boot |-> apiHat.boot, prop |-> apiLink.prop]
      BY DEF ApiInv, ApiTyped, LinkTyped, Api!ServiceReconnects
    <3>3. QED BY <3>1, <3>2 DEF LinkTyped, Api!ServiceReconnects
  <2>4. ledger' \subseteq Entry /\ \A e \in ledger' : e.boot <= apiHat'.boot
    BY DEF ApiInv, ApiTyped, HatTyped, Api!ServiceReconnects
  <2>5. OpTyped(apiOp', apiHat')
    BY DEF ApiInv, ApiTyped, HatTyped, LinkTyped, OpTyped, Committing, Kinds, Places,
         Api!Operations, Api!ServiceReconnects, Api!Runs, Api!GoOn, Api!Over, Api!Idle,
         Api!Counted
  <2>6. StoreTyped(profile', apiOp')
    BY DEF OpTyped, ProfileTyped, ApiInv, ApiTyped, StoreTyped, Api!ServiceReconnects, Api!Runs,
         Api!GoOn, Api!Over, Api!Idle, Api!Counted
  <2>7. SeenTyped(seen', apiHat')
    BY DEF ApiInv, ApiTyped, HatTyped, SeenTyped, Api!ServiceReconnects, Api!Counted, Api!Sent
  <2>8. QED
    BY <2>1, <2>2, <2>3, <2>4, <2>5, <2>6, <2>7
      DEF ApiInv, ApiTyped, Api!ServiceReconnects
<1>2. Compared'
  BY DEF ApiInv, ApiTyped, HatTyped, OpTyped, Compared, Filed, InFrame, Lacking,
       Reached, Committing, Api!ServiceReconnects, Api!Runs, Api!GoOn, Api!Over, Api!Idle,
       Api!Counted
<1>3. Current'
  BY DEF ApiInv, ApiTyped, HatTyped, LinkTyped, OpTyped, SeenTyped, Current, Live, Holds,
         Carrying, Api!None, Api!ServiceReconnects, Api!Counted, Api!Runs, Api!GoOn, Api!Over,
         Api!Idle
<1>4. QED BY <1>1, <1>2, <1>3 DEF ApiInv

LEMMA ApiRestartKeeps ==
  ASSUME ApiInv, UNCHANGED apiFaults, Api!Restart
  PROVE  ApiInv'
<1>1. ApiTyped'
  <2>1. pos' \in 0..Positions
    BY DEF ApiInv, ApiTyped, Api!Restart
  <2>2. HatTyped(apiHat')
    BY DEF ApiInv, ApiTyped, HatTyped, Api!Restart, Api!None
  <2>3. LinkTyped(apiLink', apiHat')
    BY DEF ApiInv, ApiTyped, HatTyped, LinkTyped, Api!Restart
  <2>4. ledger' \subseteq Entry /\ \A e \in ledger' : e.boot <= apiHat'.boot
    BY DEF ApiInv, ApiTyped, HatTyped, Api!Restart
  <2>5. OpTyped(apiOp', apiHat')
    BY DEF ApiInv, ApiTyped, HatTyped, LinkTyped, OpTyped, Committing, Kinds, Places,
         Api!Operations, Api!Restart, Api!Runs, Api!GoOn, Api!Over, Api!Idle, Api!Counted
  <2>6. StoreTyped(profile', apiOp')
    BY DEF OpTyped, ProfileTyped, ApiInv, ApiTyped, StoreTyped, Api!Restart, Api!Runs, Api!GoOn,
         Api!Over, Api!Idle, Api!Counted
  <2>7. SeenTyped(seen', apiHat')
    <3>1. seen' = [since |-> seen.since, refused |-> seen.refused, over |-> apiHat.made,
                   late |-> seen.late, torn |-> FALSE]
      BY DEF ApiInv, ApiTyped, SeenTyped, Api!Restart
    <3>2. apiHat'.made = apiHat.made
      BY DEF ApiInv, ApiTyped, HatTyped, Api!Restart
    <3>3. apiHat.made \in 0..apiHat.made
      BY ServosAssumption DEF ApiInv, ApiTyped, HatTyped
    <3>4. QED
      BY <3>1, <3>2, <3>3 DEF ApiInv, ApiTyped, SeenTyped, Api!Torn, Api!Runs
  <2>8. QED
    BY <2>1, <2>2, <2>3, <2>4, <2>5, <2>6, <2>7
      DEF ApiInv, ApiTyped, Api!Restart
<1>2. Compared'
  BY DEF ApiInv, ApiTyped, HatTyped, OpTyped, Compared, Filed, InFrame, Lacking,
       Reached, Committing, Api!Restart, Api!Runs, Api!GoOn, Api!Over, Api!Idle, Api!Counted
<1>3. Current'
  BY DEF ApiInv, ApiTyped, HatTyped, LinkTyped, OpTyped, SeenTyped, Current, Live, Holds,
         Carrying, Api!None, Api!Restart, Api!Counted, Api!Runs, Api!GoOn, Api!Over, Api!Idle
<1>4. QED BY <1>1, <1>2, <1>3 DEF ApiInv

LEMMA ApiArrivesKeeps ==
  ASSUME ApiInv, UNCHANGED apiFaults, Api!Arrives
  PROVE  ApiInv'
<1>1. ApiTyped'
  <2>1. pos' \in 0..Positions
    BY DEF ApiInv, ApiTyped, Api!Arrives
  <2>2. HatTyped(apiHat')
    BY DEF ApiInv, ApiTyped, HatTyped, Api!Arrives, Api!None
  <2>3. LinkTyped(apiLink', apiHat')
    BY DEF ApiInv, ApiTyped, HatTyped, LinkTyped, Api!Arrives
  <2>4. ledger' \subseteq Entry /\ \A e \in ledger' : e.boot <= apiHat'.boot
    BY DEF ApiInv, ApiTyped, HatTyped, Api!Arrives
  <2>5. OpTyped(apiOp', apiHat')
    BY DEF ApiInv, ApiTyped, HatTyped, LinkTyped, OpTyped, Committing, Kinds, Places,
         Api!Operations, Api!Arrives, Api!Runs, Api!GoOn, Api!Over, Api!Idle, Api!Counted
  <2>6. StoreTyped(profile', apiOp')
    BY DEF OpTyped, ProfileTyped, ApiInv, ApiTyped, StoreTyped, Api!Arrives, Api!Runs, Api!GoOn,
         Api!Over, Api!Idle, Api!Counted
  <2>7. SeenTyped(seen', apiHat')
    BY DEF ApiInv, ApiTyped, HatTyped, SeenTyped, Api!Arrives, Api!Counted, Api!Sent
  <2>8. QED
    BY <2>1, <2>2, <2>3, <2>4, <2>5, <2>6, <2>7
      DEF ApiInv, ApiTyped, Api!Arrives
<1>2. Compared'
  BY DEF ApiInv, ApiTyped, HatTyped, OpTyped, Compared, Filed, InFrame, Lacking,
       Reached, Committing, Api!Arrives, Api!Runs, Api!GoOn, Api!Over, Api!Idle, Api!Counted
<1>3. Current'
  BY DEF ApiInv, ApiTyped, HatTyped, LinkTyped, OpTyped, SeenTyped, Current, Live, Holds,
         Carrying, Api!None, Api!Arrives, Api!Counted, Api!Runs, Api!GoOn, Api!Over, Api!Idle
<1>4. QED BY <1>1, <1>2, <1>3 DEF ApiInv

LEMMA ApiBeginsKeeps ==
  ASSUME ApiInv, UNCHANGED apiFaults, Api!Begins
  PROVE  ApiInv'
<1>0. /\ UNCHANGED <<pos, apiHat, apiLink, ledger, stop, profile>>
      /\ apiOp'.at \notin {"label", "keep"} /\ ~(apiOp'.kind = "execute" /\ apiOp'.at = "ask")
      /\ ~Committing(apiOp')
      /\ \E over \in {seen.over, apiHat.made} :
           /\ seen' = [since |-> 0, refused |-> seen.refused, over |-> over,
                       late |-> seen.late, torn |-> seen.torn]
           /\ over = seen.over \/ http' = Api!None
      /\ http' \in {http, Api!None}
  <2>1. /\ UNCHANGED <<pos, apiHat, apiLink, ledger, stop, profile>>
        /\ http' \in {http, Api!None}
    BY DEF Api!Begins
  <2>2. /\ apiOp'.at \notin {"label", "keep"} /\ ~(apiOp'.kind = "execute" /\ apiOp'.at = "ask")
        /\ ~Committing(apiOp')
    BY DEF ApiInv, ApiTyped, OpTyped, Committing, Kinds, Api!Operations, Api!Begins, Api!GoOn,
         Api!Over, Api!Idle
  <2>3. \/ seen' = [seen EXCEPT !.since = 0]
        \/ seen' = [seen EXCEPT !.since = 0, !.over = apiHat.made] /\ http' = Api!None
    BY DEF Api!Begins
  <2>4. \E over \in {seen.over, apiHat.made} :
           /\ seen' = [since |-> 0, refused |-> seen.refused, over |-> over,
                       late |-> seen.late, torn |-> seen.torn]
           /\ over = seen.over \/ http' = Api!None
    BY <2>3 DEF ApiInv, ApiTyped, SeenTyped
  <2>5. QED BY <2>1, <2>2, <2>4
<1>1. ApiTyped'
  <2>1. pos' \in 0..Positions
    BY DEF ApiInv, ApiTyped, Api!Begins
  <2>2. HatTyped(apiHat')
    BY DEF ApiInv, ApiTyped, HatTyped, Api!Begins, Api!None
  <2>3. LinkTyped(apiLink', apiHat')
    BY DEF ApiInv, ApiTyped, HatTyped, LinkTyped, Api!Begins
  <2>4. ledger' \subseteq Entry /\ \A e \in ledger' : e.boot <= apiHat'.boot
    BY DEF ApiInv, ApiTyped, HatTyped, Api!Begins
  <2>5. OpTyped(apiOp', apiHat')
    BY DEF ApiInv, ApiTyped, HatTyped, LinkTyped, OpTyped, Committing, Kinds, Places,
         Api!Operations, Api!Begins, Api!Runs, Api!GoOn, Api!Over, Api!Idle, Api!Counted
  <2>6. StoreTyped(profile', apiOp')
    BY DEF OpTyped, ProfileTyped, ApiInv, ApiTyped, StoreTyped, Api!Begins, Api!Runs, Api!GoOn,
         Api!Over, Api!Idle, Api!Counted
  <2>7. SeenTyped(seen', apiHat')
    <3>1. apiHat.made \in 0..apiHat.made
      BY ServosAssumption DEF ApiInv, ApiTyped, HatTyped
    <3>2. QED BY <1>0, <3>1 DEF ApiInv, ApiTyped, SeenTyped
  <2>8. QED
    BY <2>1, <2>2, <2>3, <2>4, <2>5, <2>6, <2>7
      DEF ApiInv, ApiTyped, Api!Begins
<1>2. Compared'
  BY <1>0 DEF ApiInv, Compared
<1>3. Current'
  BY <1>0 DEF ApiInv, Current, Live, Holds, Carrying
<1>4. QED BY <1>1, <1>2, <1>3 DEF ApiInv

LEMMA ApiUnansweredKeeps ==
  ASSUME ApiInv, UNCHANGED apiFaults, Api!Unanswered
  PROVE  ApiInv'
<1>1. ApiTyped'
  <2>1. pos' \in 0..Positions
    BY DEF ApiInv, ApiTyped, Api!Unanswered, Api!Answered
  <2>2. HatTyped(apiHat')
    BY DEF ApiInv, ApiTyped, HatTyped, Api!Unanswered, Api!Answered, Api!None
  <2>3. LinkTyped(apiLink', apiHat')
    BY DEF ApiInv, ApiTyped, HatTyped, LinkTyped, Api!Unanswered, Api!Answered
  <2>4. ledger' \subseteq Entry /\ \A e \in ledger' : e.boot <= apiHat'.boot
    BY DEF ApiInv, ApiTyped, HatTyped, Api!Unanswered, Api!Answered
  <2>5. OpTyped(apiOp', apiHat')
    BY DEF ApiInv, ApiTyped, HatTyped, LinkTyped, OpTyped, Committing, Kinds, Places,
         Api!Operations, Api!Unanswered, Api!Answered, Api!Runs, Api!GoOn, Api!Over, Api!Idle,
         Api!Counted
  <2>6. StoreTyped(profile', apiOp')
    BY DEF OpTyped, ProfileTyped, ApiInv, ApiTyped, StoreTyped, Api!Unanswered, Api!Answered,
         Api!Runs, Api!GoOn, Api!Over, Api!Idle, Api!Counted
  <2>7. SeenTyped(seen', apiHat')
    BY DEF ApiInv, ApiTyped, HatTyped, SeenTyped, Api!Unanswered, Api!Answered, Api!Counted,
           Api!Sent
  <2>8. QED
    BY <2>1, <2>2, <2>3, <2>4, <2>5, <2>6, <2>7
      DEF ApiInv, ApiTyped, Api!Unanswered, Api!Answered
<1>2. Compared'
  BY DEF ApiInv, ApiTyped, HatTyped, OpTyped, Compared, Filed, InFrame, Lacking,
       Reached, Committing, Api!Unanswered, Api!Answered, Api!Runs, Api!GoOn, Api!Over, Api!Idle,
       Api!Counted
<1>3. Current'
  BY DEF ApiInv, ApiTyped, HatTyped, LinkTyped, OpTyped, SeenTyped, Current, Live, Holds,
         Carrying, Api!None, Api!Unanswered, Api!Answered, Api!Counted, Api!Runs, Api!GoOn,
         Api!Over, Api!Idle
<1>4. QED BY <1>1, <1>2, <1>3 DEF ApiInv

LEMMA ApiReconnectKeeps ==
  ASSUME ApiInv, UNCHANGED apiFaults, Api!Reconnect
  PROVE  ApiInv'
<1>1. ApiTyped'
  <2>1. pos' \in 0..Positions
    BY DEF ApiInv, ApiTyped, Api!Reconnect
  <2>2. HatTyped(apiHat')
    BY DEF ApiInv, ApiTyped, HatTyped, Api!Reconnect, Api!None
  <2>3. LinkTyped(apiLink', apiHat')
    <3>1. apiHat.boot \in 1..apiHat.boot
      BY ServosAssumption DEF ApiInv, ApiTyped, HatTyped
    <3>2. apiLink' = [up |-> TRUE, boot |-> apiHat.boot, prop |-> apiLink.prop]
      BY DEF ApiInv, ApiTyped, LinkTyped, Api!Reconnect
    <3>3. QED BY <3>1, <3>2 DEF LinkTyped, Api!Reconnect
  <2>4. ledger' \subseteq Entry /\ \A e \in ledger' : e.boot <= apiHat'.boot
    BY DEF ApiInv, ApiTyped, HatTyped, Api!Reconnect
  <2>5. OpTyped(apiOp', apiHat')
    BY DEF ApiInv, ApiTyped, HatTyped, LinkTyped, OpTyped, Committing, Kinds, Places,
         Api!Operations, Api!Reconnect, Api!Runs, Api!GoOn, Api!Over, Api!Idle, Api!Counted
  <2>6. StoreTyped(profile', apiOp')
    BY DEF OpTyped, ProfileTyped, ApiInv, ApiTyped, StoreTyped, Api!Reconnect, Api!Runs,
         Api!GoOn, Api!Over, Api!Idle, Api!Counted
  <2>7. SeenTyped(seen', apiHat')
    BY DEF ApiInv, ApiTyped, HatTyped, SeenTyped, Api!Reconnect, Api!Counted, Api!Sent
  <2>8. QED
    BY <2>1, <2>2, <2>3, <2>4, <2>5, <2>6, <2>7
      DEF ApiInv, ApiTyped, Api!Reconnect
<1>2. Compared'
  BY DEF ApiInv, ApiTyped, HatTyped, OpTyped, Compared, Filed, InFrame, Lacking,
       Reached, Committing, Api!Reconnect, Api!Runs, Api!GoOn, Api!Over, Api!Idle, Api!Counted
<1>3. Current'
  BY DEF ApiInv, ApiTyped, HatTyped, LinkTyped, OpTyped, SeenTyped, Current, Live, Holds,
         Carrying, Api!None, Api!Reconnect, Api!Counted, Api!Runs, Api!GoOn, Api!Over, Api!Idle
<1>4. QED BY <1>1, <1>2, <1>3 DEF ApiInv

LEMMA ApiCensusKeeps ==
  ASSUME ApiInv, UNCHANGED apiFaults, Api!Census
  PROVE  ApiInv'
<1>1. ApiTyped'
  <2>1. pos' \in 0..Positions
    BY DEF ApiInv, ApiTyped, Api!Census, Api!Answered
  <2>2. HatTyped(apiHat')
    BY DEF ApiInv, ApiTyped, HatTyped, Api!Census, Api!Answered, Api!None
  <2>3. LinkTyped(apiLink', apiHat')
    BY DEF ApiInv, ApiTyped, HatTyped, LinkTyped, Api!Census, Api!Answered
  <2>4. ledger' \subseteq Entry /\ \A e \in ledger' : e.boot <= apiHat'.boot
    BY DEF ApiInv, ApiTyped, HatTyped, Api!Census, Api!Answered
  <2>5. OpTyped(apiOp', apiHat')
    BY DEF ApiInv, ApiTyped, HatTyped, LinkTyped, OpTyped, Committing, Kinds, Places,
         Api!Operations, Api!Census, Api!Answered, Api!Runs, Api!GoOn, Api!Over, Api!Idle,
         Api!Counted
  <2>6. StoreTyped(profile', apiOp')
    BY DEF OpTyped, ProfileTyped, ApiInv, ApiTyped, StoreTyped, Api!Census, Api!Answered,
         Api!Runs, Api!GoOn, Api!Over, Api!Idle, Api!Counted
  <2>7. SeenTyped(seen', apiHat')
    BY DEF ApiInv, ApiTyped, HatTyped, SeenTyped, Api!Census, Api!Answered, Api!Counted,
           Api!Sent
  <2>8. QED
    BY <2>1, <2>2, <2>3, <2>4, <2>5, <2>6, <2>7
      DEF ApiInv, ApiTyped, Api!Census, Api!Answered
<1>2. Compared'
  BY DEF ApiInv, ApiTyped, HatTyped, OpTyped, Compared, Filed, InFrame, Lacking,
       Reached, Committing, Api!Census, Api!Answered, Api!Runs, Api!GoOn, Api!Over, Api!Idle,
       Api!Counted
<1>3. Current'
  BY DEF ApiInv, ApiTyped, HatTyped, LinkTyped, OpTyped, SeenTyped, Current, Live, Holds,
         Carrying, Api!None, Api!Census, Api!Answered, Api!Counted, Api!Runs, Api!GoOn,
         Api!Over, Api!Idle
<1>4. QED BY <1>1, <1>2, <1>3 DEF ApiInv

LEMMA ApiResetKeeps ==
  ASSUME ApiInv, UNCHANGED apiFaults, Api!Reset
  PROVE  ApiInv'
<1>1. ApiTyped'
  <2>1. pos' \in 0..Positions
    BY DEF ApiInv, ApiTyped, Api!Reset, Api!Answered
  <2>2. HatTyped(apiHat')
    BY DEF ApiInv, ApiTyped, HatTyped, Api!Reset, Api!Answered, Api!None
  <2>3. LinkTyped(apiLink', apiHat')
    BY DEF ApiInv, ApiTyped, HatTyped, LinkTyped, Api!Reset, Api!Answered
  <2>4. ledger' \subseteq Entry /\ \A e \in ledger' : e.boot <= apiHat'.boot
    BY DEF ApiInv, ApiTyped, HatTyped, Api!Reset, Api!Answered
  <2>5. OpTyped(apiOp', apiHat')
    BY DEF ApiInv, ApiTyped, HatTyped, LinkTyped, OpTyped, Committing, Kinds, Places,
         Api!Operations, Api!Reset, Api!Answered, Api!Runs, Api!GoOn, Api!Over, Api!Idle,
         Api!Counted
  <2>6. StoreTyped(profile', apiOp')
    BY DEF OpTyped, ProfileTyped, ApiInv, ApiTyped, StoreTyped, Api!Reset, Api!Answered,
         Api!Runs, Api!GoOn, Api!Over, Api!Idle, Api!Counted
  <2>7. SeenTyped(seen', apiHat')
    BY DEF ApiInv, ApiTyped, HatTyped, SeenTyped, Api!Reset, Api!Answered, Api!Counted, Api!Sent
  <2>8. QED
    BY <2>1, <2>2, <2>3, <2>4, <2>5, <2>6, <2>7
      DEF ApiInv, ApiTyped, Api!Reset, Api!Answered
<1>2. Compared'
  BY DEF ApiInv, ApiTyped, HatTyped, OpTyped, Compared, Filed, InFrame, Lacking,
       Reached, Committing, Api!Reset, Api!Answered, Api!Runs, Api!GoOn, Api!Over, Api!Idle,
       Api!Counted
<1>3. Current'
  BY DEF ApiInv, ApiTyped, HatTyped, LinkTyped, OpTyped, SeenTyped, Current, Live, Holds,
         Carrying, Api!None, Api!Reset, Api!Answered, Api!Counted, Api!Runs, Api!GoOn, Api!Over,
         Api!Idle
<1>4. QED BY <1>1, <1>2, <1>3 DEF ApiInv

LEMMA ApiCaptureKeeps ==
  ASSUME ApiInv, UNCHANGED apiFaults, Api!Capture
  PROVE  ApiInv'
<1>1. ApiTyped'
  <2>1. pos' \in 0..Positions
    BY DEF ApiInv, ApiTyped, Api!Capture, Api!Answered
  <2>2. HatTyped(apiHat')
    BY DEF ApiInv, ApiTyped, HatTyped, Api!Capture, Api!Answered, Api!None
  <2>3. LinkTyped(apiLink', apiHat')
    BY DEF ApiInv, ApiTyped, HatTyped, LinkTyped, Api!Capture, Api!Answered
  <2>4. ledger' \subseteq Entry /\ \A e \in ledger' : e.boot <= apiHat'.boot
    BY DEF ApiInv, ApiTyped, HatTyped, Api!Capture, Api!Answered
  <2>5. OpTyped(apiOp', apiHat')
    <3>1. apiOp' = [kind |-> "capture", at |-> "label", rec |-> Api!Reading]
      BY DEF ApiInv, ApiTyped, OpTyped, Api!Capture, Api!Runs
    <3>2. QED
      BY <3>1, ReadingIsTrue
        DEF ApiInv, ApiTyped, OpTyped, Committing, Kinds, Places, Api!Operations
  <2>6. StoreTyped(profile', apiOp')
    BY DEF OpTyped, ProfileTyped, ApiInv, ApiTyped, StoreTyped, Api!Capture, Api!Answered,
         Api!Runs, Api!GoOn, Api!Over, Api!Idle, Api!Counted
  <2>7. SeenTyped(seen', apiHat')
    BY DEF ApiInv, ApiTyped, HatTyped, SeenTyped, Api!Capture, Api!Answered, Api!Counted,
           Api!Sent
  <2>8. QED
    BY <2>1, <2>2, <2>3, <2>4, <2>5, <2>6, <2>7
      DEF ApiInv, ApiTyped, Api!Capture, Api!Answered
<1>2. Compared'
  <2>1. SUFFICES ASSUME Compared PROVE Compared' BY DEF ApiInv
  <2>2. apiOp' = [kind |-> "capture", at |-> "label", rec |-> Api!Reading]
    BY DEF ApiInv, ApiTyped, OpTyped, Api!Capture, Api!Runs
  <2>3. apiHat'.boot = apiHat.boot /\ Lacking(apiHat') = Lacking(apiHat)
    BY DEF ApiInv, ApiTyped, HatTyped, Api!Capture, Lacking
  <2>4. InFrame(apiOp'.rec, apiHat') BY <2>2, <2>3, ReadingIsTrue DEF ApiInv, InFrame
  <2>5. Filed(ledger, apiHat) => Filed(ledger', apiHat')
    BY <2>3 DEF Filed, InFrame, Api!Capture
  <2>6. ~Committing(apiOp') BY <2>2 DEF Committing
  <2>7. seen'.torn = seen.torn BY DEF ApiInv, ApiTyped, SeenTyped, Api!Capture, Api!Counted
  <2>8. QED BY <2>1, <2>4, <2>5, <2>6, <2>7 DEF Compared, Api!Capture
<1>3. Current'
  BY DEF ApiInv, ApiTyped, HatTyped, LinkTyped, OpTyped, SeenTyped, Current, Live, Holds,
         Carrying, Api!None, Api!Capture, Api!Answered, Api!Counted, Api!Runs, Api!GoOn,
         Api!Over, Api!Idle
<1>4. QED BY <1>1, <1>2, <1>3 DEF ApiInv

LEMMA ApiCaptureLabelledKeeps ==
  ASSUME ApiInv, UNCHANGED apiFaults, Api!CaptureLabelled
  PROVE  ApiInv'
<1>1. ApiTyped'
  <2>1. pos' \in 0..Positions
    BY DEF ApiInv, ApiTyped, Api!CaptureLabelled
  <2>2. HatTyped(apiHat')
    BY DEF ApiInv, ApiTyped, HatTyped, Api!CaptureLabelled, Api!None
  <2>3. LinkTyped(apiLink', apiHat')
    BY DEF ApiInv, ApiTyped, HatTyped, LinkTyped, Api!CaptureLabelled
  <2>4. ledger' \subseteq Entry /\ \A e \in ledger' : e.boot <= apiHat'.boot
    <3>1. Fits(apiLink.boot, apiOp.rec)
      BY DEF ApiInv, ApiTyped, LinkTyped, OpTyped, Fits, Api!CaptureLabelled, Api!Runs
    <3>2. QED BY <3>1, FilingIsTyped DEF ApiInv, ApiTyped, Api!CaptureLabelled
  <2>5. OpTyped(apiOp', apiHat')
    BY DEF ApiInv, ApiTyped, HatTyped, LinkTyped, OpTyped, Committing, Kinds, Places,
         Api!Operations, Api!CaptureLabelled, Api!Runs, Api!GoOn, Api!Over, Api!Idle, Api!Counted
  <2>6. StoreTyped(profile', apiOp')
    BY DEF OpTyped, ProfileTyped, ApiInv, ApiTyped, StoreTyped, Api!CaptureLabelled, Api!Runs,
         Api!GoOn, Api!Over, Api!Idle, Api!Counted
  <2>7. SeenTyped(seen', apiHat')
    BY DEF ApiInv, ApiTyped, HatTyped, SeenTyped, Api!CaptureLabelled, Api!Counted, Api!Sent
  <2>8. QED
    BY <2>1, <2>2, <2>3, <2>4, <2>5, <2>6, <2>7
      DEF ApiInv, ApiTyped, Api!CaptureLabelled
<1>2. Compared'
  <2>1. SUFFICES ASSUME Compared PROVE Compared' BY DEF ApiInv
  <2>2. ASSUME ~seen.torn PROVE Filed(ledger', apiHat)
    <3>1. CASE ~apiLink.up BY <3>1, <2>1, <2>2 DEF Compared, Api!CaptureLabelled
    <3>2. CASE apiLink.up
      <4>1. InFrame(apiOp.rec, apiHat) BY <2>1, <2>2 DEF Compared, Api!CaptureLabelled, Api!Runs
      <4>2. QED
        BY <3>2, <4>1, <2>1, <2>2, FilingIsTrue DEF Compared, Api!CaptureLabelled
    <3>3. QED BY <3>1, <3>2 DEF ApiInv, ApiTyped, LinkTyped
  <2>3. QED BY <2>1, <2>2 DEF Compared, Committing, Api!CaptureLabelled, Api!Over, Api!Idle
<1>3. Current'
  BY DEF ApiInv, ApiTyped, HatTyped, LinkTyped, OpTyped, SeenTyped, Current, Live, Holds,
         Carrying, Api!None, Api!CaptureLabelled, Api!Counted, Api!Runs, Api!GoOn, Api!Over,
         Api!Idle
<1>4. QED BY <1>1, <1>2, <1>3 DEF ApiInv

LEMMA ApiOdometerZeroKeeps ==
  ASSUME ApiInv, UNCHANGED apiFaults, Api!OdometerZero
  PROVE  ApiInv'
<1>1. ApiTyped'
  <2>1. pos' \in 0..Positions
    BY DEF ApiInv, ApiTyped, Api!OdometerZero, Api!Answered
  <2>2. HatTyped(apiHat')
    BY ServosAssumption, WholeTurns
      DEF ApiInv, ApiTyped, HatTyped, Api!OdometerZero, Api!Answered, Api!None
  <2>3. LinkTyped(apiLink', apiHat')
    BY DEF ApiInv, ApiTyped, HatTyped, LinkTyped, Api!OdometerZero, Api!Answered
  <2>4. ledger' \subseteq Entry /\ \A e \in ledger' : e.boot <= apiHat'.boot
    BY DEF ApiInv, ApiTyped, HatTyped, Api!OdometerZero, Api!Answered
  <2>5. OpTyped(apiOp', apiHat')
    BY DEF ApiInv, ApiTyped, HatTyped, LinkTyped, OpTyped, Committing, Kinds, Places,
         Api!Operations, Api!OdometerZero, Api!Answered, Api!Runs, Api!GoOn, Api!Over, Api!Idle,
         Api!Counted
  <2>6. StoreTyped(profile', apiOp')
    BY DEF OpTyped, ProfileTyped, ApiInv, ApiTyped, StoreTyped, Api!OdometerZero, Api!Answered,
         Api!Runs, Api!GoOn, Api!Over, Api!Idle, Api!Counted
  <2>7. SeenTyped(seen', apiHat')
    <3>1. PICK frame :
            seen' = [since |-> Api!Sent, refused |-> seen.refused, over |-> seen.over,
                     late |-> seen.late, torn |-> Api!Torn(frame)]
      BY DEF ApiInv, ApiTyped, SeenTyped, Api!OdometerZero
    <3>2. apiHat'.made = apiHat.made
      BY DEF ApiInv, ApiTyped, HatTyped, Api!OdometerZero
    <3>3. Api!Torn(frame) \in BOOLEAN BY DEF ApiInv, ApiTyped, SeenTyped, Api!Torn
    <3>4. QED BY <3>1, <3>2, <3>3 DEF ApiInv, ApiTyped, SeenTyped
  <2>8. QED
    BY <2>1, <2>2, <2>3, <2>4, <2>5, <2>6, <2>7
      DEF ApiInv, ApiTyped, Api!OdometerZero, Api!Answered
<1>2. Compared'
  <2> DEFINE frame == IF apiHat.native THEN apiHat.frame ELSE pos \div ApiTurn
  <2>1. apiHat'.boot = apiHat.boot /\ apiHat'.frame = frame
    BY DEF ApiInv, ApiTyped, HatTyped, Api!OdometerZero
  <2>2. seen'.torn = Api!Torn(frame) BY DEF ApiInv, ApiTyped, SeenTyped, Api!OdometerZero
  <2> HIDE DEF frame
  <2>3. ~seen'.torn => Filed(ledger, apiHat') BY <2>1, <2>2, ReframedIsFiled
  <2>4. QED
    BY <2>3 DEF ApiInv, Compared, Committing, Api!OdometerZero, Api!Over, Api!Idle
<1>3. Current'
  BY DEF ApiInv, ApiTyped, HatTyped, LinkTyped, OpTyped, SeenTyped, Current, Live, Holds,
         Carrying, Api!None, Api!OdometerZero, Api!Answered, Api!Counted, Api!Runs, Api!GoOn,
         Api!Over, Api!Idle
<1>4. QED BY <1>1, <1>2, <1>3 DEF ApiInv

LEMMA ApiPrepareChecksKeeps ==
  ASSUME ApiInv, UNCHANGED apiFaults, Api!PrepareChecks
  PROVE  ApiInv'
<1>0. apiOp' = Api!Idle \/ (apiOp'.kind = "prepare" /\ apiOp'.at = "ask"
                            /\ apiOp' = [kind |-> "prepare", at |-> "ask", rec |-> apiOp'.rec])
  BY DEF ApiInv, ApiTyped, OpTyped, Api!PrepareChecks, Api!Runs, Api!Over
<1>00. UNCHANGED <<pos, apiHat, apiLink, http, ledger, stop, profile, seen>>
       /\ apiOp.kind = "prepare" /\ apiOp.at = "check"
  BY DEF Api!PrepareChecks, Api!Runs
<1>1. ApiTyped'
  <2>1. pos' \in 0..Positions
    BY DEF ApiInv, ApiTyped, Api!PrepareChecks, Api!Captures
  <2>2. HatTyped(apiHat')
    BY DEF ApiInv, ApiTyped, HatTyped, Api!PrepareChecks, Api!Captures, Api!None
  <2>3. LinkTyped(apiLink', apiHat')
    BY DEF ApiInv, ApiTyped, HatTyped, LinkTyped, Api!PrepareChecks, Api!Captures
  <2>4. ledger' \subseteq Entry /\ \A e \in ledger' : e.boot <= apiHat'.boot
    BY DEF ApiInv, ApiTyped, HatTyped, Api!PrepareChecks, Api!Captures
  <2>5. OpTyped(apiOp', apiHat')
    BY <1>0, <1>00
      DEF ApiInv, ApiTyped, OpTyped, Committing, Kinds, Places, Api!Operations, Api!Idle
  <2>6. StoreTyped(profile', apiOp')
    BY <1>0, <1>00 DEF ApiInv, ApiTyped, StoreTyped, Api!Idle
  <2>7. SeenTyped(seen', apiHat')
    BY DEF ApiInv, ApiTyped, HatTyped, SeenTyped, Api!PrepareChecks, Api!Captures, Api!Counted,
           Api!Sent
  <2>8. QED
    BY <2>1, <2>2, <2>3, <2>4, <2>5, <2>6, <2>7
      DEF ApiInv, ApiTyped, Api!PrepareChecks, Api!Captures
<1>2. Compared'
  BY <1>0, <1>00 DEF ApiInv, Compared, Committing, Api!Idle
<1>3. Current'
  BY <1>0, <1>00 DEF ApiInv, Current, Live, Holds, Carrying, Api!Idle
<1>4. QED BY <1>1, <1>2, <1>3 DEF ApiInv

LEMMA ApiPrepareKeeps ==
  ASSUME ApiInv, UNCHANGED apiFaults, Api!Prepare
  PROVE  ApiInv'
<1> DEFINE token == apiHat.made + 1
           Offer == [id |-> token, from |-> pos % ApiTurn]
<1>1. /\ UNCHANGED <<pos, http, ledger, stop, profile>> /\ apiLink.up
      /\ apiOp.kind = "prepare" /\ apiOp.at = "ask"
  BY DEF Api!Prepare, Api!Runs, Api!Answered
<1>2. seen' = [since |-> Api!Sent, refused |-> seen.refused, over |-> apiHat.made,
               late |-> seen.late, torn |-> seen.torn]
  BY DEF ApiInv, ApiTyped, SeenTyped, Api!Prepare
<1>3. \E prop, made :
        /\ apiHat' = [boot |-> apiHat.boot, native |-> apiHat.native, frame |-> apiHat.frame,
                      valid |-> apiHat.valid, stopped |-> apiHat.stopped, prop |-> prop,
                      made |-> made]
        /\ \/ made = apiHat.made /\ prop \in {apiHat.prop, Api!None} /\ apiLink'.prop = Api!None
           \/ made = token /\ prop \in {Api!None, Offer}
  <2>1. apiHat = [boot |-> apiHat.boot, native |-> apiHat.native, frame |-> apiHat.frame,
                  valid |-> apiHat.valid, stopped |-> apiHat.stopped, prop |-> apiHat.prop,
                  made |-> apiHat.made]
    BY DEF ApiInv, ApiTyped, HatTyped
  <2>2. apiLink = [up |-> apiLink.up, boot |-> apiLink.boot, prop |-> apiLink.prop]
    BY DEF ApiInv, ApiTyped, LinkTyped
  <2>3. \/ apiHat' = apiHat /\ apiLink'.prop = Api!None
        \/ apiHat' = [apiHat EXCEPT !.prop = Api!None] /\ apiLink'.prop = Api!None
        \/ apiHat' = [apiHat EXCEPT !.made = token, !.prop = Api!None]
        \/ apiHat' = [apiHat EXCEPT !.made = token, !.prop = Offer]
    BY <2>2 DEF Api!Prepare
  <2> HIDE DEF token, Offer
  <2>4. CASE apiHat' = apiHat /\ apiLink'.prop = Api!None BY <2>1, <2>4
  <2>5. CASE apiHat' = [apiHat EXCEPT !.prop = Api!None] /\ apiLink'.prop = Api!None
    <3>1. apiHat' = [boot |-> apiHat.boot, native |-> apiHat.native, frame |-> apiHat.frame,
                     valid |-> apiHat.valid, stopped |-> apiHat.stopped, prop |-> Api!None,
                     made |-> apiHat.made]
      BY <2>1, <2>5
    <3>2. QED BY <2>5, <3>1
  <2>6. CASE apiHat' = [apiHat EXCEPT !.made = token, !.prop = Api!None]
    <3>1. apiHat' = [boot |-> apiHat.boot, native |-> apiHat.native, frame |-> apiHat.frame,
                     valid |-> apiHat.valid, stopped |-> apiHat.stopped, prop |-> Api!None,
                     made |-> token]
      BY <2>1, <2>6
    <3>2. QED BY <3>1
  <2>7. CASE apiHat' = [apiHat EXCEPT !.made = token, !.prop = Offer]
    <3>1. apiHat' = [boot |-> apiHat.boot, native |-> apiHat.native, frame |-> apiHat.frame,
                     valid |-> apiHat.valid, stopped |-> apiHat.stopped, prop |-> Offer,
                     made |-> token]
      BY <2>1, <2>7
    <3>2. QED BY <3>1
  <2>8. QED BY <2>3, <2>4, <2>5, <2>6, <2>7
<1>4. PICK prop, made :
        /\ apiHat' = [boot |-> apiHat.boot, native |-> apiHat.native, frame |-> apiHat.frame,
                      valid |-> apiHat.valid, stopped |-> apiHat.stopped, prop |-> prop,
                      made |-> made]
        /\ \/ made = apiHat.made /\ prop \in {apiHat.prop, Api!None} /\ apiLink'.prop = Api!None
           \/ made = token /\ prop \in {Api!None, Offer}
  BY <1>3
<1>5. /\ apiLink' = [up |-> apiLink'.up, boot |-> apiLink.boot, prop |-> apiLink'.prop]
      /\ apiLink'.up \in BOOLEAN
  BY DEF ApiInv, ApiTyped, LinkTyped, Api!Prepare, Api!Heard
<1>6. apiOp' = Api!Idle \/ (apiOp'.at = "keep" /\ apiOp'.kind = "prepare"
                            /\ apiOp' = [kind |-> "prepare", at |-> "keep", rec |-> apiOp'.rec])
  BY DEF ApiInv, ApiTyped, OpTyped, Api!Prepare, Api!Runs, Api!Over
<1>7. apiHat.made \in 0..Tokens /\ made \in 0..Tokens /\ apiHat.made <= made
  <2>1. apiHat.made \in 0..Tokens /\ apiHat.made < Tokens
    BY <1>1 DEF ApiInv, ApiTyped, HatTyped, OpTyped
  <2>2. QED BY <1>4, <2>1, ServosAssumption
<1>8. ApiTyped'
  <2>1. prop # Api!None => prop.from \in Nat /\ prop.id \in 1..made
    <3>1. CASE prop = apiHat.prop
      BY <3>1, <1>4, <1>7, ServosAssumption DEF ApiInv, ApiTyped, HatTyped
    <3>2. CASE prop = Offer /\ made = token
      <4>1. pos % ApiTurn \in Nat BY ServosAssumption DEF ApiInv, ApiTyped
      <4>2. token \in 1..token BY <1>7, ServosAssumption
      <4>3. prop.from = pos % ApiTurn /\ prop.id = token BY <3>2
      <4>4. QED BY <3>2, <4>1, <4>2, <4>3
    <3>3. QED BY <1>4, <3>1, <3>2
  <2>2. HatTyped(apiHat') BY <1>4, <1>7, <2>1 DEF ApiInv, ApiTyped, HatTyped
  <2>3. LinkTyped(apiLink', apiHat') BY <1>1, <1>4, <1>5 DEF ApiInv, ApiTyped, LinkTyped
  <2>4. OpTyped(apiOp', apiHat')
    BY <1>6 DEF OpTyped, Committing, Kinds, Places, Api!Operations, Api!Idle
  <2>5. StoreTyped(profile', apiOp') BY <1>1, <1>6 DEF ApiInv, ApiTyped, StoreTyped, Api!Idle
  <2>6. SeenTyped(seen', apiHat')
    <3>1. apiHat.made \in 0..made BY <1>7, ServosAssumption
    <3>2. QED BY <1>2, <1>4, <3>1 DEF ApiInv, ApiTyped, SeenTyped
  <2>7. QED BY <1>1, <1>4, <2>2, <2>3, <2>4, <2>5, <2>6 DEF ApiInv, ApiTyped
<1>9. Compared'
  <2>1. apiHat'.boot = apiHat.boot /\ apiHat'.frame = apiHat.frame /\ seen'.torn = seen.torn
    BY <1>2, <1>4
  <2>2. apiOp'.at # "label" /\ ~Committing(apiOp') BY <1>6 DEF Committing, Api!Idle
  <2>3. Filed(ledger, apiHat) => Filed(ledger', apiHat')
    BY <1>1, <2>1 DEF Filed, InFrame, Lacking
  <2>4. QED BY <1>1, <2>1, <2>2, <2>3 DEF ApiInv, Compared
<1>10. Current'
  <2>1. ~seen'.late BY <1>2 DEF ApiInv, Current
  <2>2. ASSUME NEW t \in 1..Tokens, Live(t)' PROVE seen'.over < t
    <3>1. prop # Api!None /\ prop.id = t /\ apiLink'.prop # Api!None
      BY <1>4, <2>2 DEF Live, Api!None
    <3>2. made = token /\ prop = Offer BY <1>4, <3>1
    <3>3. t = apiHat.made + 1 BY <3>1, <3>2
    <3>4. QED BY <1>2, <1>7, <3>3, ServosAssumption
  <2>3. QED BY <2>1, <2>2 DEF Current
<1>11. QED BY <1>8, <1>9, <1>10 DEF ApiInv

LEMMA ApiProposalKeptKeeps ==
  ASSUME ApiInv, UNCHANGED apiFaults, Api!ProposalKept
  PROVE  ApiInv'
<1>1. ApiTyped'
  <2>1. pos' \in 0..Positions
    BY DEF ApiInv, ApiTyped, Api!ProposalKept
  <2>2. HatTyped(apiHat')
    BY DEF ApiInv, ApiTyped, HatTyped, Api!ProposalKept, Api!None
  <2>3. LinkTyped(apiLink', apiHat')
    BY DEF ApiInv, ApiTyped, HatTyped, LinkTyped, Api!ProposalKept
  <2>4. ledger' \subseteq Entry /\ \A e \in ledger' : e.boot <= apiHat'.boot
    BY DEF ApiInv, ApiTyped, HatTyped, Api!ProposalKept
  <2>5. OpTyped(apiOp', apiHat')
    BY DEF ApiInv, ApiTyped, HatTyped, LinkTyped, OpTyped, Committing, Kinds, Places,
         Api!Operations, Api!ProposalKept, Api!Runs, Api!GoOn, Api!Over, Api!Idle, Api!Counted
  <2>6. StoreTyped(profile', apiOp')
    BY DEF OpTyped, ProfileTyped, ApiInv, ApiTyped, StoreTyped, Api!ProposalKept, Api!Runs,
         Api!GoOn, Api!Over, Api!Idle, Api!Counted
  <2>7. SeenTyped(seen', apiHat')
    BY DEF ApiInv, ApiTyped, HatTyped, SeenTyped, Api!ProposalKept, Api!Counted, Api!Sent
  <2>8. QED
    BY <2>1, <2>2, <2>3, <2>4, <2>5, <2>6, <2>7
      DEF ApiInv, ApiTyped, Api!ProposalKept
<1>2. Compared'
  BY DEF ApiInv, ApiTyped, HatTyped, OpTyped, Compared, Filed, InFrame, Lacking,
       Reached, Committing, Api!ProposalKept, Api!Runs, Api!GoOn, Api!Over, Api!Idle, Api!Counted
<1>3. Current'
  BY DEF ApiInv, ApiTyped, HatTyped, LinkTyped, OpTyped, SeenTyped, Current, Live, Holds,
         Carrying, Api!None, Api!ProposalKept, Api!Counted, Api!Runs, Api!GoOn, Api!Over,
         Api!Idle
<1>4. QED BY <1>1, <1>2, <1>3 DEF ApiInv

LEMMA ApiExecuteTakesKeeps ==
  ASSUME ApiInv, UNCHANGED apiFaults, Api!ExecuteTakes
  PROVE  ApiInv'
<1>0. \/ apiOp' = Api!Idle
      \/ /\ apiLink.up /\ http.boot = apiLink.boot
         /\ apiOp' = [kind |-> "execute", at |-> "ask", rec |-> http]
  BY DEF ApiInv, ApiTyped, OpTyped, Api!ExecuteTakes, Api!Runs, Api!Over
<1>1. ApiTyped'
  <2>1. pos' \in 0..Positions
    BY DEF ApiInv, ApiTyped, Api!ExecuteTakes
  <2>2. HatTyped(apiHat')
    BY DEF ApiInv, ApiTyped, HatTyped, Api!ExecuteTakes, Api!None
  <2>3. LinkTyped(apiLink', apiHat')
    BY DEF ApiInv, ApiTyped, HatTyped, LinkTyped, Api!ExecuteTakes
  <2>4. ledger' \subseteq Entry /\ \A e \in ledger' : e.boot <= apiHat'.boot
    BY DEF ApiInv, ApiTyped, HatTyped, Api!ExecuteTakes
  <2>5. OpTyped(apiOp', apiHat')
    BY <1>0 DEF ApiInv, ApiTyped, LinkTyped, OpTyped, Committing, Kinds, Places, Api!Operations,
       Api!Idle, Api!ExecuteTakes
  <2>6. StoreTyped(profile', apiOp')
    BY <1>0 DEF ApiInv, ApiTyped, StoreTyped, Api!ExecuteTakes, Api!Idle
  <2>7. SeenTyped(seen', apiHat')
    BY DEF ApiInv, ApiTyped, HatTyped, SeenTyped, Api!ExecuteTakes, Api!Counted, Api!Sent
  <2>8. QED
    BY <2>1, <2>2, <2>3, <2>4, <2>5, <2>6, <2>7
      DEF ApiInv, ApiTyped, Api!ExecuteTakes
<1>2. Compared'
  BY <1>0 DEF ApiInv, Compared, Committing, Api!ExecuteTakes, Api!Idle
<1>3. Current'
  <2>1. UNCHANGED <<apiHat, apiLink, seen>> /\ http' = Api!None BY DEF Api!ExecuteTakes
  <2>2. ASSUME NEW t, Holds(t)' PROVE Holds(t)
    <3>1. apiOp' = [kind |-> "execute", at |-> "ask", rec |-> http] /\ apiOp'.rec.id = t
      BY <1>0, <2>1, <2>2 DEF Holds, Carrying, Api!Idle
    <3>2. http # Api!None
      BY <3>1 DEF Api!ExecuteTakes, Api!Over, Api!Idle
    <3>3. QED BY <3>1, <3>2 DEF Holds
  <2>3. QED BY <2>1, <2>2 DEF ApiInv, Current, Live
<1>4. QED BY <1>1, <1>2, <1>3 DEF ApiInv

LEMMA ApiExecuteRefusedKeeps ==
  ASSUME ApiInv, UNCHANGED apiFaults, Api!ExecuteRefused
  PROVE  ApiInv'
<1>1. UNCHANGED <<pos, apiHat, apiLink, http, ledger, stop, profile, seen>>
      /\ apiOp' = Api!Idle
  BY DEF Api!ExecuteRefused, Api!Over
<1>2. OpTyped(apiOp', apiHat') BY <1>1 DEF OpTyped, Committing, Kinds, Places, Api!Idle
<1>3. StoreTyped(profile', apiOp') BY <1>1 DEF ApiInv, ApiTyped, StoreTyped, Api!Idle
<1>4. ApiTyped' BY <1>1, <1>2, <1>3 DEF ApiInv, ApiTyped
<1>5. Compared' BY <1>1 DEF ApiInv, Compared, Committing, Api!Idle
<1>6. Current' BY <1>1 DEF ApiInv, Current, Live, Holds, Carrying, Api!Idle
<1>7. QED BY <1>4, <1>5, <1>6 DEF ApiInv

(* A nudge ends where the joint can be. *)
LEMMA TargetIsPosition ==
  ASSUME ApiTyped, apiHat.prop # Api!None, Api!Reachable
  PROVE  Api!Target \in 0..Positions
<1> DEFINE q == pos \div ApiTurn
<1>1. q \in Nat /\ ApiTurn \in Nat
  BY WholeTurns, ServosAssumption DEF ApiTyped
<1>2. Api!Target = ApiTurn * q + apiHat.prop.from + 1 BY DEF Api!Target
<1> HIDE DEF q
<1>3. ApiTurn * q \in Nat BY <1>1
<1>4. apiHat.prop.from \in Nat BY DEF ApiTyped, HatTyped
<1>5. QED BY <1>2, <1>3, <1>4, ServosAssumption DEF Api!Reachable

LEMMA ApiExecuteKeeps ==
  ASSUME ApiInv, UNCHANGED apiFaults, Api!Execute
  PROVE  ApiInv'
<1> DEFINE token == apiOp.rec.id
<1>1. /\ apiOp.kind = "execute" /\ apiOp.at = "ask" /\ apiOp' = Api!Idle /\ profile' = profile
      /\ stop' = stop /\ http' = http /\ apiLink.up /\ apiLink.prop = [id |-> token]
  BY DEF Api!Execute, Api!Runs, Api!Over, Api!Answered, Api!Known
<1>2. /\ apiHat' = [boot |-> apiHat.boot, native |-> apiHat.native, frame |-> apiHat.frame,
                    valid |-> apiHat.valid, stopped |-> apiHat.stopped, prop |-> apiHat'.prop,
                    made |-> apiHat.made]
      /\ apiHat'.prop \in {apiHat.prop, Api!None}
  BY DEF ApiInv, ApiTyped, HatTyped, Api!Execute
<1>3. /\ apiLink' = [up |-> apiLink'.up, boot |-> apiLink.boot, prop |-> Api!None]
      /\ apiLink'.up \in BOOLEAN
  BY DEF ApiInv, ApiTyped, LinkTyped, Api!Execute, Api!Heard
<1>4. ASSUME Api!Taken(token) /\ Api!InPlace
      PROVE  /\ pos' \in 0..Positions
             /\ ledger' \in {ledger, Api!Recorded(apiOp.rec.boot, Api!Nudge)}
             /\ Fits(apiOp.rec.boot, Api!Nudge) /\ Api!Nudge.multi = Api!NoCount
             /\ seen' = [since |-> Api!Sent, refused |-> seen.refused, over |-> apiHat.made,
                         late |-> FALSE, torn |-> seen.torn]
  <2>1. PICK heard \in BOOLEAN : Api!NudgeRuns(heard)
    BY <1>4 DEF Api!Execute, Api!Heard
  <2>2. apiHat.prop # Api!None /\ apiHat.prop.id = token BY <1>4 DEF Api!Taken
  <2>3. pos' \in 0..Positions
    <3>1. Api!Reachable => Api!Target \in 0..Positions
      BY <2>2, TargetIsPosition DEF ApiInv
    <3>2. QED BY <2>1, <3>1 DEF Api!NudgeRuns
  <2>4. ledger' \in {ledger, Api!Recorded(apiOp.rec.boot, Api!Nudge)}
    BY <2>1 DEF Api!NudgeRuns
  <2>5. Fits(apiOp.rec.boot, Api!Nudge) /\ Api!Nudge.multi = Api!NoCount
    <3>1. apiHat.prop.from \in Int /\ pos \in 0..Positions /\ apiOp.rec.boot \in 1..apiHat.boot
      BY <1>1, <2>2 DEF ApiInv, ApiTyped, HatTyped, OpTyped
    <3>2. QED BY <3>1 DEF Fits, Api!Nudge, Api!NoCount
  <2>6. seen.over < token /\ ~seen.late
    <3>1. token \in 1..Tokens
      BY <2>2, ServosAssumption DEF ApiInv, ApiTyped, HatTyped
    <3>2. Live(token) /\ Holds(token) BY <1>1, <2>2 DEF Live, Holds, Carrying
    <3>3. QED BY <3>1, <3>2 DEF ApiInv, Current
  <2>7. token \in Int /\ seen.over \in Int
    BY <2>2, ServosAssumption DEF ApiInv, ApiTyped, HatTyped, SeenTyped
  <2>8. ~(token <= seen.over) BY <2>6, <2>7
  <2>9. seen' = [since |-> Api!Sent, refused |-> seen.refused, over |-> apiHat.made,
                 late |-> seen.late \/ token <= seen.over, torn |-> seen.torn]
    BY <2>1 DEF ApiInv, ApiTyped, SeenTyped, Api!NudgeRuns
  <2>10. (seen.late \/ token <= seen.over) = FALSE BY <2>6, <2>8
  <2> HIDE DEF token
  <2>11. QED BY <2>3, <2>4, <2>5, <2>9, <2>10
<1>5. ASSUME ~(Api!Taken(token) /\ Api!InPlace)
      PROVE  /\ pos' = pos /\ ledger' = ledger
             /\ seen' = [since |-> Api!Sent, refused |-> seen.refused, over |-> seen.over,
                         late |-> seen.late, torn |-> seen.torn]
  BY <1>5 DEF ApiInv, ApiTyped, SeenTyped, Api!Execute, Api!Counted
<1>6. seen'.torn = seen.torn /\ ~seen'.late /\ SeenTyped(seen', apiHat')
  <2>1. seen.over \in 0..apiHat.made /\ apiHat.made \in 0..apiHat.made /\ ~seen.late
        /\ seen.torn \in BOOLEAN /\ apiHat'.made = apiHat.made
    BY <1>2, ServosAssumption DEF ApiInv, ApiTyped, HatTyped, SeenTyped, Current
  <2>2. seen.late = FALSE
    <3>1. seen.late \in BOOLEAN BY DEF ApiInv, ApiTyped, SeenTyped
    <3>2. QED BY <2>1, <3>1
  <2>3. PICK over \in 0..apiHat.made :
          seen' = [since |-> Api!Sent, refused |-> seen.refused, over |-> over,
                   late |-> FALSE, torn |-> seen.torn]
    <3>1. CASE Api!Taken(token) /\ Api!InPlace
      <4>1. seen' = [since |-> Api!Sent, refused |-> seen.refused, over |-> apiHat.made,
                     late |-> FALSE, torn |-> seen.torn]
        BY <1>4, <3>1
      <4>2. QED BY <2>1, <4>1
    <3>2. CASE ~(Api!Taken(token) /\ Api!InPlace)
      <4>1. seen' = [since |-> Api!Sent, refused |-> seen.refused, over |-> seen.over,
                     late |-> seen.late, torn |-> seen.torn]
        BY <1>5, <3>2
      <4>2. QED BY <2>1, <2>2, <4>1
    <3>3. QED BY <3>1, <3>2
  <2>4. seen'.torn = seen.torn /\ ~seen'.late /\ seen'.over = over /\ seen'.late \in BOOLEAN
    BY <2>3
  <2>5. seen' = [since |-> seen'.since, refused |-> seen'.refused, over |-> seen'.over,
                 late |-> seen'.late, torn |-> seen'.torn]
    BY <2>3
  <2>6. QED BY <2>1, <2>4, <2>5 DEF SeenTyped
<1>7. ApiTyped'
  <2>1. pos' \in 0..Positions BY <1>4, <1>5 DEF ApiInv, ApiTyped
  <2>2. HatTyped(apiHat') BY <1>2 DEF ApiInv, ApiTyped, HatTyped
  <2>3. LinkTyped(apiLink', apiHat') BY <1>1, <1>2, <1>3 DEF ApiInv, ApiTyped, LinkTyped
  <2>4. ledger' \subseteq Entry /\ \A e \in ledger' : e.boot <= apiHat'.boot
    BY <1>2, <1>4, <1>5, FilingIsTyped DEF ApiInv, ApiTyped
  <2>5. OpTyped(apiOp', apiHat')
    BY <1>1 DEF OpTyped, Committing, Kinds, Places, Api!Idle
  <2>6. StoreTyped(profile', apiOp') BY <1>1 DEF ApiInv, ApiTyped, StoreTyped, Api!Idle
  <2>7. QED
    BY <1>1, <1>6, <2>1, <2>2, <2>3, <2>4, <2>5, <2>6 DEF ApiInv, ApiTyped
<1>8. Compared'
  <2>1. ASSUME ~seen.torn PROVE Filed(ledger', apiHat)
    <3>1. Filed(ledger, apiHat) BY <2>1 DEF ApiInv, Compared
    <3>2. CASE Api!Taken(token) /\ Api!InPlace
      <4>1. InFrame(Api!Nudge, apiHat) BY <1>4, <3>2 DEF InFrame
      <4>2. QED BY <1>4, <3>1, <3>2, <4>1, FilingIsTrue
    <3>3. CASE ~(Api!Taken(token) /\ Api!InPlace) BY <1>5, <3>1, <3>3
    <3>4. QED BY <3>2, <3>3
  <2>2. apiHat'.boot = apiHat.boot /\ Lacking(apiHat') = Lacking(apiHat) BY <1>2 DEF Lacking
  <2>3. ~seen'.torn => Filed(ledger', apiHat') BY <1>6, <2>1, <2>2 DEF Filed, InFrame
  <2>4. QED BY <1>1, <2>3 DEF ApiInv, Compared, Committing, Api!Idle
<1>9. Current' BY <1>3, <1>6 DEF Current, Live, Api!None
<1>10. QED BY <1>7, <1>8, <1>9 DEF ApiInv

LEMMA ApiCommitChecksKeeps ==
  ASSUME ApiInv, UNCHANGED apiFaults, Api!CommitChecks
  PROVE  ApiInv'
<1>0. ASSUME apiOp' # Api!Idle
      PROVE  /\ apiOp'.kind = "commit" /\ apiOp'.at = "scan" /\ apiLink.up
             /\ apiOp' = [kind |-> "commit", at |-> "scan", rec |-> apiOp'.rec]
             /\ \E z, n, p, k \in ledger :
                  /\ Api!Verified(apiLink.boot, z, n, p, k)
                  /\ apiOp'.rec = [boot |-> apiLink.boot, zero |-> z.at, low |-> n.at,
                                   high |-> p.at, torn |-> seen.torn]
  <2> DEFINE r(z, n, p) == [boot |-> apiLink.boot, zero |-> z.at, low |-> n.at,
                            high |-> p.at, torn |-> seen.torn]
  <2>1. PICK z \in ledger, n \in ledger, p \in ledger, k \in ledger :
          /\ Api!Verified(apiLink.boot, z, n, p, k) /\ Api!Answered
          /\ apiOp' = [apiOp EXCEPT !.at = "scan", !.rec = r(z, n, p)]
    BY <1>0 DEF Api!CommitChecks, Api!Over
  <2>2. apiOp = [kind |-> "commit", at |-> "check", rec |-> apiOp.rec]
    BY DEF ApiInv, ApiTyped, OpTyped, Api!CommitChecks, Api!Runs
  <2>3. \E x : x = r(z, n, p) /\ apiOp' = [apiOp EXCEPT !.at = "scan", !.rec = x]
    BY <2>1
  <2> HIDE DEF r
  <2>4. PICK x : x = r(z, n, p) /\ apiOp' = [apiOp EXCEPT !.at = "scan", !.rec = x]
    BY <2>3
  <2>5. apiOp' = [apiOp EXCEPT !.at = "scan", !.rec = x]
    BY <2>4
  <2>6. apiOp' = [kind |-> "commit", at |-> "scan", rec |-> x]
    <3>1. apiOp' = [kind |-> apiOp'.kind, at |-> apiOp'.at, rec |-> apiOp'.rec]
      BY <2>2, <2>5
    <3>2. apiOp'.kind = "commit" /\ apiOp'.at = "scan" /\ apiOp'.rec = x
      BY <2>2, <2>5
    <3>3. QED BY <3>1, <3>2
  <2>7. apiOp'.kind = "commit" /\ apiOp'.at = "scan" /\ apiOp'.rec = r(z, n, p)
        /\ apiOp' = [kind |-> "commit", at |-> "scan", rec |-> apiOp'.rec]
    <3>1. x = r(z, n, p) BY <2>4, Zenon
    <3>2. apiOp'.kind = "commit" /\ apiOp'.at = "scan" /\ apiOp'.rec = x
      BY <2>6
    <3>3. QED BY <2>6, <3>1, <3>2, Zenon
  <2>8. QED BY <2>1, <2>7 DEF r, Api!Answered
<1>1. ApiTyped'
  <2>1. pos' \in 0..Positions
    BY DEF ApiInv, ApiTyped, Api!CommitChecks, Api!Answered
  <2>2. HatTyped(apiHat')
    BY DEF ApiInv, ApiTyped, HatTyped, Api!CommitChecks, Api!Answered, Api!None
  <2>3. LinkTyped(apiLink', apiHat')
    BY DEF ApiInv, ApiTyped, HatTyped, LinkTyped, Api!CommitChecks, Api!Answered
  <2>4. ledger' \subseteq Entry /\ \A e \in ledger' : e.boot <= apiHat'.boot
    BY DEF ApiInv, ApiTyped, HatTyped, Api!CommitChecks, Api!Answered
  <2>5. OpTyped(apiOp', apiHat')
    <3>1. CASE apiOp' = Api!Idle
      BY <3>1 DEF OpTyped, Committing, Kinds, Places, Api!Idle
    <3>2. CASE apiOp' # Api!Idle
      <4>1. \A e \in ledger : e.at \in Int
        BY ServosAssumption DEF ApiInv, ApiTyped, Entry
      <4>2. apiOp'.rec.boot = apiLink.boot /\ apiOp'.rec.zero \in Int /\ apiOp'.rec.low \in Int
            /\ apiOp'.rec.high \in Int
        BY <1>0, <3>2, <4>1
      <4>3. apiHat' = apiHat /\ apiLink.boot \in 1..apiHat.boot
        BY DEF ApiInv, ApiTyped, LinkTyped, Api!CommitChecks
      <4>4. QED
        BY <1>0, <3>2, <4>2, <4>3 DEF OpTyped, Committing, Kinds, Places, Api!Operations
    <3>3. QED BY <3>1, <3>2
  <2>6. StoreTyped(profile', apiOp')
    <3>1. apiOp'.at # "adopt" BY <1>0 DEF Api!Idle
    <3>2. QED BY <3>1 DEF ApiInv, ApiTyped, StoreTyped, Api!CommitChecks
  <2>7. SeenTyped(seen', apiHat')
    BY DEF ApiInv, ApiTyped, HatTyped, SeenTyped, Api!CommitChecks, Api!Answered, Api!Counted,
           Api!Sent
  <2>8. QED
    BY <2>1, <2>2, <2>3, <2>4, <2>5, <2>6, <2>7
      DEF ApiInv, ApiTyped, Api!CommitChecks, Api!Answered
<1>2. Compared'
  <2>1. SUFFICES ASSUME Compared PROVE Compared' BY DEF ApiInv
  <2>2. ASSUME NEW z \in ledger, NEW n \in ledger, NEW p \in ledger, NEW k \in ledger,
               Api!Verified(apiHat.boot, z, n, p, k), ~seen.torn
        PROVE  n.at - z.at <= -1 /\ p.at - z.at >= 1
    <3>1. /\ n.multi - z.multi <= -1 /\ p.multi - z.multi >= 1
          /\ z.multi # Api!NoCount /\ n.multi # Api!NoCount /\ p.multi # Api!NoCount
          /\ z.boot = apiHat.boot /\ n.boot = apiHat.boot /\ p.boot = apiHat.boot
      BY <2>2 DEF Api!Verified, Api!Captures
    <3>2. /\ z.at - z.multi = Lacking(apiHat) /\ n.at - n.multi = Lacking(apiHat)
          /\ p.at - p.multi = Lacking(apiHat)
      BY <2>1, <2>2, <3>1 DEF Compared, Filed, InFrame
    <3>3. \A e \in ledger : e.at \in Int /\ e.multi \in Int
      BY ServosAssumption DEF ApiInv, ApiTyped, Entry
    <3>4. Lacking(apiHat) \in Int BY LackingIsInt DEF ApiInv, ApiTyped, HatTyped
    <3>5. QED BY <3>1, <3>2, <3>3, <3>4
  <2>3. Committing(apiOp') => apiOp'.rec.torn \/ Reached(apiOp'.rec)
    <3>1. SUFFICES ASSUME apiOp' # Api!Idle, ~seen.torn PROVE Reached(apiOp'.rec)
      <4>1. apiOp' # Api!Idle => apiOp'.rec.torn = seen.torn BY <1>0
      <4>2. apiOp' # Api!Idle /\ seen.torn => apiOp'.rec.torn
        BY <4>1 DEF ApiInv, ApiTyped, SeenTyped
      <4>3. QED BY <4>2 DEF Committing, Api!Idle
    <3>2. apiLink.boot = apiHat.boot BY <1>0, <3>1 DEF ApiInv, ApiTyped, LinkTyped
    <3>3. QED BY <1>0, <3>1, <3>2, <2>2 DEF Reached
  <2>4. apiOp'.at # "label" BY <1>0 DEF Api!Idle
  <2>5. seen'.torn = seen.torn /\ UNCHANGED <<ledger, apiHat, profile>>
    BY DEF ApiInv, ApiTyped, SeenTyped, Api!CommitChecks, Api!Counted
  <2>6. QED BY <2>1, <2>3, <2>4, <2>5 DEF Compared
<1>3. Current'
  <2>1. UNCHANGED <<apiHat, http>> /\ apiLink'.prop = apiLink.prop
    BY DEF ApiInv, ApiTyped, LinkTyped, Api!CommitChecks
  <2>2. seen'.late = seen.late /\ seen'.over = seen.over
    BY DEF ApiInv, ApiTyped, SeenTyped, Api!CommitChecks, Api!Counted
  <2>3. ~Carrying(apiOp') BY <1>0 DEF Carrying, Api!Idle
  <2>4. QED BY <2>1, <2>2, <2>3 DEF ApiInv, Current, Live, Holds
<1>4. QED BY <1>1, <1>2, <1>3 DEF ApiInv

LEMMA ApiCommitScansKeeps ==
  ASSUME ApiInv, UNCHANGED apiFaults, Api!CommitScans
  PROVE  ApiInv'
<1>1. ApiTyped'
  <2>1. pos' \in 0..Positions
    BY DEF ApiInv, ApiTyped, Api!CommitScans, Api!Answered
  <2>2. HatTyped(apiHat')
    BY DEF ApiInv, ApiTyped, HatTyped, Api!CommitScans, Api!Answered, Api!None
  <2>3. LinkTyped(apiLink', apiHat')
    BY DEF ApiInv, ApiTyped, HatTyped, LinkTyped, Api!CommitScans, Api!Answered
  <2>4. ledger' \subseteq Entry /\ \A e \in ledger' : e.boot <= apiHat'.boot
    BY DEF ApiInv, ApiTyped, HatTyped, Api!CommitScans, Api!Answered
  <2>5. OpTyped(apiOp', apiHat')
    BY DEF ApiInv, ApiTyped, HatTyped, LinkTyped, OpTyped, Committing, Kinds, Places,
         Api!Operations, Api!CommitScans, Api!Answered, Api!Runs, Api!GoOn, Api!Over, Api!Idle,
         Api!Counted
  <2>6. StoreTyped(profile', apiOp')
    BY DEF OpTyped, ProfileTyped, ApiInv, ApiTyped, StoreTyped, Api!CommitScans, Api!Answered,
         Api!Runs, Api!GoOn, Api!Over, Api!Idle, Api!Counted
  <2>7. SeenTyped(seen', apiHat')
    BY DEF ApiInv, ApiTyped, HatTyped, SeenTyped, Api!CommitScans, Api!Answered, Api!Counted,
           Api!Sent
  <2>8. QED
    BY <2>1, <2>2, <2>3, <2>4, <2>5, <2>6, <2>7
      DEF ApiInv, ApiTyped, Api!CommitScans, Api!Answered
<1>2. Compared'
  BY DEF ApiInv, ApiTyped, HatTyped, OpTyped, Compared, Filed, InFrame, Lacking,
       Reached, Committing, Api!CommitScans, Api!Answered, Api!Runs, Api!GoOn, Api!Over,
       Api!Idle, Api!Counted
<1>3. Current'
  BY DEF ApiInv, ApiTyped, HatTyped, LinkTyped, OpTyped, SeenTyped, Current, Live, Holds,
         Carrying, Api!None, Api!CommitScans, Api!Answered, Api!Counted, Api!Runs, Api!GoOn,
         Api!Over, Api!Idle
<1>4. QED BY <1>1, <1>2, <1>3 DEF ApiInv

LEMMA ApiCommitCapturesKeeps ==
  ASSUME ApiInv, UNCHANGED apiFaults, Api!CommitCaptures
  PROVE  ApiInv'
<1>1. ApiTyped'
  <2>1. pos' \in 0..Positions
    BY DEF ApiInv, ApiTyped, Api!CommitCaptures, Api!Answered
  <2>2. HatTyped(apiHat')
    BY DEF ApiInv, ApiTyped, HatTyped, Api!CommitCaptures, Api!Answered, Api!None
  <2>3. LinkTyped(apiLink', apiHat')
    BY DEF ApiInv, ApiTyped, HatTyped, LinkTyped, Api!CommitCaptures, Api!Answered
  <2>4. ledger' \subseteq Entry /\ \A e \in ledger' : e.boot <= apiHat'.boot
    <3>1. Fits(apiOp.rec.boot, Api!Reading)
      BY ReadingIsTrue
      DEF ApiInv, ApiTyped, OpTyped, Committing, Fits, Api!CommitCaptures, Api!Runs
    <3>2. QED BY <3>1, FilingIsTyped DEF ApiInv, ApiTyped, Api!CommitCaptures
  <2>5. OpTyped(apiOp', apiHat')
    BY DEF ApiInv, ApiTyped, HatTyped, LinkTyped, OpTyped, Committing, Kinds, Places,
         Api!Operations, Api!CommitCaptures, Api!Answered, Api!Runs, Api!GoOn, Api!Over,
         Api!Idle, Api!Counted
  <2>6. StoreTyped(profile', apiOp')
    BY DEF OpTyped, ProfileTyped, ApiInv, ApiTyped, StoreTyped, Api!CommitCaptures, Api!Answered,
         Api!Runs, Api!GoOn, Api!Over, Api!Idle, Api!Counted
  <2>7. SeenTyped(seen', apiHat')
    BY DEF ApiInv, ApiTyped, HatTyped, SeenTyped, Api!CommitCaptures, Api!Answered, Api!Counted,
           Api!Sent
  <2>8. QED
    BY <2>1, <2>2, <2>3, <2>4, <2>5, <2>6, <2>7
      DEF ApiInv, ApiTyped, Api!CommitCaptures, Api!Answered
<1>2. Compared'
  <2>1. SUFFICES ASSUME Compared PROVE Compared' BY DEF ApiInv
  <2>2. seen'.torn = seen.torn
    BY DEF ApiInv, ApiTyped, SeenTyped, Api!CommitCaptures, Api!Counted
  <2>3. ~seen.torn => Filed(ledger', apiHat)
    BY <2>1, ReadingIsTrue, FilingIsTrue DEF ApiInv, Compared, Api!CommitCaptures
  <2>4. apiOp' = [kind |-> "commit", at |-> "after", rec |-> apiOp.rec]
    BY DEF ApiInv, ApiTyped, OpTyped, Api!CommitCaptures, Api!Runs, Api!GoOn
  <2>5. QED
    BY <2>1, <2>2, <2>3, <2>4 DEF Compared, Committing, Api!CommitCaptures, Api!Runs
<1>3. Current'
  BY DEF ApiInv, ApiTyped, HatTyped, LinkTyped, OpTyped, SeenTyped, Current, Live, Holds,
         Carrying, Api!None, Api!CommitCaptures, Api!Answered, Api!Counted, Api!Runs, Api!GoOn,
         Api!Over, Api!Idle
<1>4. QED BY <1>1, <1>2, <1>3 DEF ApiInv

LEMMA ApiCommitConfirmsKeeps ==
  ASSUME ApiInv, UNCHANGED apiFaults, Api!CommitConfirms
  PROVE  ApiInv'
<1>1. ApiTyped'
  <2>1. pos' \in 0..Positions
    BY DEF ApiInv, ApiTyped, Api!CommitConfirms, Api!Answered
  <2>2. HatTyped(apiHat')
    BY DEF ApiInv, ApiTyped, HatTyped, Api!CommitConfirms, Api!Answered, Api!None
  <2>3. LinkTyped(apiLink', apiHat')
    BY DEF ApiInv, ApiTyped, HatTyped, LinkTyped, Api!CommitConfirms, Api!Answered
  <2>4. ledger' \subseteq Entry /\ \A e \in ledger' : e.boot <= apiHat'.boot
    BY DEF ApiInv, ApiTyped, HatTyped, Api!CommitConfirms, Api!Answered
  <2>5. OpTyped(apiOp', apiHat')
    BY DEF ApiInv, ApiTyped, HatTyped, LinkTyped, OpTyped, Committing, Kinds, Places,
         Api!Operations, Api!CommitConfirms, Api!Answered, Api!Runs, Api!GoOn, Api!Over,
         Api!Idle, Api!Counted
  <2>6. StoreTyped(profile', apiOp')
    BY DEF OpTyped, ProfileTyped, ApiInv, ApiTyped, StoreTyped, Api!CommitConfirms, Api!Answered,
         Api!Runs, Api!GoOn, Api!Over, Api!Idle, Api!Counted
  <2>7. SeenTyped(seen', apiHat')
    BY DEF ApiInv, ApiTyped, HatTyped, SeenTyped, Api!CommitConfirms, Api!Answered, Api!Counted,
           Api!Sent
  <2>8. QED
    BY <2>1, <2>2, <2>3, <2>4, <2>5, <2>6, <2>7
      DEF ApiInv, ApiTyped, Api!CommitConfirms, Api!Answered
<1>2. Compared'
  BY DEF ApiInv, ApiTyped, HatTyped, OpTyped, Compared, Filed, InFrame, Lacking,
       Reached, Committing, Api!CommitConfirms, Api!Answered, Api!Runs, Api!GoOn, Api!Over,
       Api!Idle, Api!Counted
<1>3. Current'
  BY DEF ApiInv, ApiTyped, HatTyped, LinkTyped, OpTyped, SeenTyped, Current, Live, Holds,
         Carrying, Api!None, Api!CommitConfirms, Api!Answered, Api!Counted, Api!Runs, Api!GoOn,
         Api!Over, Api!Idle
<1>4. QED BY <1>1, <1>2, <1>3 DEF ApiInv

(* What a commit saves. *)
LEMMA ProfileIsTyped ==
  ASSUME ApiTyped, Committing(apiOp), Api!Rev(profile.mem) < Saved
  PROVE  ProfileTyped(Api!Profile) /\ (Api!Profile.torn = apiOp.rec.torn)
      /\ (Reached(apiOp.rec) => Reached(Api!Profile))
<1>1. Api!Rev(profile.mem) \in 0..Saved
  BY ServosAssumption DEF ApiTyped, StoreTyped, ProfileTyped, Api!Rev
<1>2. Api!Rev(profile.mem) + 1 \in 1..Saved BY <1>1, ServosAssumption
<1>3. QED BY <1>2 DEF ApiTyped, OpTyped, Committing, ProfileTyped, Reached, Api!Profile

LEMMA ApiProfileSavedKeeps ==
  ASSUME ApiInv, UNCHANGED apiFaults, Api!ProfileSaved
  PROVE  ApiInv'
<1>0. /\ profile' = [mem |-> profile.mem, disk |-> Api!Profile]
      /\ apiOp' \in {Api!Idle, [kind |-> "commit", at |-> "adopt", rec |-> apiOp.rec]}
      /\ ProfileTyped(Api!Profile) /\ (Api!Profile.torn = apiOp.rec.torn)
      /\ (Reached(apiOp.rec) => Reached(Api!Profile))
  <2>1. /\ profile' = [mem |-> profile.mem, disk |-> Api!Profile]
        /\ apiOp' \in {Api!Idle, [kind |-> "commit", at |-> "adopt", rec |-> apiOp.rec]}
    BY DEF ApiInv, ApiTyped, OpTyped, StoreTyped, Api!ProfileSaved, Api!Runs, Api!Over, Api!GoOn
  <2>2. QED BY <2>1, ProfileIsTyped DEF ApiInv, Committing, Api!ProfileSaved, Api!Runs
<1>1. ApiTyped'
  <2>1. pos' \in 0..Positions
    BY DEF ApiInv, ApiTyped, Api!ProfileSaved
  <2>2. HatTyped(apiHat')
    BY DEF ApiInv, ApiTyped, HatTyped, Api!ProfileSaved, Api!None
  <2>3. LinkTyped(apiLink', apiHat')
    BY DEF ApiInv, ApiTyped, HatTyped, LinkTyped, Api!ProfileSaved
  <2>4. ledger' \subseteq Entry /\ \A e \in ledger' : e.boot <= apiHat'.boot
    BY DEF ApiInv, ApiTyped, HatTyped, Api!ProfileSaved
  <2>5. OpTyped(apiOp', apiHat')
    BY DEF ApiInv, ApiTyped, HatTyped, LinkTyped, OpTyped, Committing, Kinds, Places,
         Api!Operations, Api!ProfileSaved, Api!Runs, Api!GoOn, Api!Over, Api!Idle, Api!Counted
  <2>6. StoreTyped(profile', apiOp')
    BY <1>0 DEF ApiInv, ApiTyped, StoreTyped, Api!ProfileSaved, Api!Idle
  <2>7. SeenTyped(seen', apiHat')
    BY DEF ApiInv, ApiTyped, HatTyped, SeenTyped, Api!ProfileSaved, Api!Counted, Api!Sent
  <2>8. QED
    BY <2>1, <2>2, <2>3, <2>4, <2>5, <2>6, <2>7
      DEF ApiInv, ApiTyped, Api!ProfileSaved
<1>2. Compared'
  <2>1. Committing(apiOp) /\ UNCHANGED <<ledger, apiHat>> /\ seen'.torn = seen.torn
    BY DEF ApiInv, ApiTyped, SeenTyped, Committing, Api!ProfileSaved, Api!Runs
  <2>2. apiOp'.at # "label" /\ (Committing(apiOp') => apiOp'.rec = apiOp.rec)
    BY <1>0 DEF Committing, Api!Idle
  <2>3. apiOp.rec.torn \/ Reached(apiOp.rec) BY <2>1 DEF ApiInv, Compared
  <2>4. Api!Profile.torn \/ Reached(Api!Profile) BY <1>0, <2>3
  <2>5. QED BY <1>0, <2>1, <2>2, <2>3, <2>4 DEF ApiInv, Compared
<1>3. Current'
  BY DEF ApiInv, ApiTyped, HatTyped, LinkTyped, OpTyped, SeenTyped, Current, Live, Holds,
         Carrying, Api!None, Api!ProfileSaved, Api!Counted, Api!Runs, Api!GoOn, Api!Over,
         Api!Idle
<1>4. QED BY <1>1, <1>2, <1>3 DEF ApiInv

LEMMA ApiProfileAdoptedKeeps ==
  ASSUME ApiInv, UNCHANGED apiFaults, Api!ProfileAdopted
  PROVE  ApiInv'
<1>0. /\ profile' = [mem |-> Api!Profile, disk |-> profile.disk] /\ apiOp' = Api!Idle
      /\ ProfileTyped(Api!Profile) /\ (Api!Profile.torn = apiOp.rec.torn)
      /\ (Reached(apiOp.rec) => Reached(Api!Profile))
  <2>1. profile' = [mem |-> Api!Profile, disk |-> profile.disk] /\ apiOp' = Api!Idle
    BY DEF ApiInv, ApiTyped, StoreTyped, Api!ProfileAdopted, Api!Over
  <2>2. Api!Rev(profile.mem) < Saved
    BY DEF ApiInv, ApiTyped, StoreTyped, Api!ProfileAdopted, Api!Runs
  <2>3. QED BY <2>1, <2>2, ProfileIsTyped DEF ApiInv, Committing, Api!ProfileAdopted, Api!Runs
<1>1. ApiTyped'
  <2>1. pos' \in 0..Positions
    BY DEF ApiInv, ApiTyped, Api!ProfileAdopted
  <2>2. HatTyped(apiHat')
    BY DEF ApiInv, ApiTyped, HatTyped, Api!ProfileAdopted, Api!None
  <2>3. LinkTyped(apiLink', apiHat')
    BY DEF ApiInv, ApiTyped, HatTyped, LinkTyped, Api!ProfileAdopted
  <2>4. ledger' \subseteq Entry /\ \A e \in ledger' : e.boot <= apiHat'.boot
    BY DEF ApiInv, ApiTyped, HatTyped, Api!ProfileAdopted
  <2>5. OpTyped(apiOp', apiHat')
    BY DEF ApiInv, ApiTyped, HatTyped, LinkTyped, OpTyped, Committing, Kinds, Places,
         Api!Operations, Api!ProfileAdopted, Api!Runs, Api!GoOn, Api!Over, Api!Idle, Api!Counted
  <2>6. StoreTyped(profile', apiOp')
    BY <1>0 DEF ApiInv, ApiTyped, StoreTyped, Api!ProfileAdopted, Api!Idle
  <2>7. SeenTyped(seen', apiHat')
    BY DEF ApiInv, ApiTyped, HatTyped, SeenTyped, Api!ProfileAdopted, Api!Counted, Api!Sent
  <2>8. QED
    BY <2>1, <2>2, <2>3, <2>4, <2>5, <2>6, <2>7
      DEF ApiInv, ApiTyped, Api!ProfileAdopted
<1>2. Compared'
  BY <1>0 DEF ApiInv, Compared, Committing, Api!ProfileAdopted, Api!Runs, Api!Idle
<1>3. Current'
  BY DEF ApiInv, ApiTyped, HatTyped, LinkTyped, OpTyped, SeenTyped, Current, Live, Holds,
         Carrying, Api!None, Api!ProfileAdopted, Api!Counted, Api!Runs, Api!GoOn, Api!Over,
         Api!Idle
<1>4. QED BY <1>1, <1>2, <1>3 DEF ApiInv

LEMMA ApiSaveFailsKeeps ==
  ASSUME ApiInv, UNCHANGED apiFaults, Api!SaveFails
  PROVE  ApiInv'
<1>1. ApiTyped'
  <2>1. pos' \in 0..Positions
    BY DEF ApiInv, ApiTyped, Api!SaveFails
  <2>2. HatTyped(apiHat')
    BY DEF ApiInv, ApiTyped, HatTyped, Api!SaveFails, Api!None
  <2>3. LinkTyped(apiLink', apiHat')
    BY DEF ApiInv, ApiTyped, HatTyped, LinkTyped, Api!SaveFails
  <2>4. ledger' \subseteq Entry /\ \A e \in ledger' : e.boot <= apiHat'.boot
    BY DEF ApiInv, ApiTyped, HatTyped, Api!SaveFails
  <2>5. OpTyped(apiOp', apiHat')
    BY DEF ApiInv, ApiTyped, HatTyped, LinkTyped, OpTyped, Committing, Kinds, Places,
         Api!Operations, Api!SaveFails, Api!Runs, Api!GoOn, Api!Over, Api!Idle, Api!Counted
  <2>6. StoreTyped(profile', apiOp')
    BY DEF OpTyped, ProfileTyped, ApiInv, ApiTyped, StoreTyped, Api!SaveFails, Api!Runs,
         Api!GoOn, Api!Over, Api!Idle, Api!Counted
  <2>7. SeenTyped(seen', apiHat')
    BY DEF ApiInv, ApiTyped, HatTyped, SeenTyped, Api!SaveFails, Api!Counted, Api!Sent
  <2>8. QED
    BY <2>1, <2>2, <2>3, <2>4, <2>5, <2>6, <2>7
      DEF ApiInv, ApiTyped, Api!SaveFails
<1>2. Compared'
  BY DEF ApiInv, ApiTyped, HatTyped, OpTyped, Compared, Filed, InFrame, Lacking,
       Reached, Committing, Api!SaveFails, Api!Runs, Api!GoOn, Api!Over, Api!Idle, Api!Counted
<1>3. Current'
  BY DEF ApiInv, ApiTyped, HatTyped, LinkTyped, OpTyped, SeenTyped, Current, Live, Holds,
         Carrying, Api!None, Api!SaveFails, Api!Counted, Api!Runs, Api!GoOn, Api!Over, Api!Idle
<1>4. QED BY <1>1, <1>2, <1>3 DEF ApiInv

LEMMA ApiStopAskedKeeps ==
  ASSUME ApiInv, UNCHANGED apiFaults, Api!StopAsked
  PROVE  ApiInv'
<1>1. ApiTyped'
  <2>1. pos' \in 0..Positions
    BY DEF ApiInv, ApiTyped, Api!StopAsked
  <2>2. HatTyped(apiHat')
    BY DEF ApiInv, ApiTyped, HatTyped, Api!StopAsked, Api!None
  <2>3. LinkTyped(apiLink', apiHat')
    BY DEF ApiInv, ApiTyped, HatTyped, LinkTyped, Api!StopAsked
  <2>4. ledger' \subseteq Entry /\ \A e \in ledger' : e.boot <= apiHat'.boot
    BY DEF ApiInv, ApiTyped, HatTyped, Api!StopAsked
  <2>5. OpTyped(apiOp', apiHat')
    BY DEF ApiInv, ApiTyped, HatTyped, LinkTyped, OpTyped, Committing, Kinds, Places,
         Api!Operations, Api!StopAsked, Api!Runs, Api!GoOn, Api!Over, Api!Idle, Api!Counted
  <2>6. StoreTyped(profile', apiOp')
    BY DEF OpTyped, ProfileTyped, ApiInv, ApiTyped, StoreTyped, Api!StopAsked, Api!Runs,
         Api!GoOn, Api!Over, Api!Idle, Api!Counted
  <2>7. SeenTyped(seen', apiHat')
    BY DEF ApiInv, ApiTyped, HatTyped, SeenTyped, Api!StopAsked, Api!Counted, Api!Sent
  <2>8. QED
    BY <2>1, <2>2, <2>3, <2>4, <2>5, <2>6, <2>7
      DEF ApiInv, ApiTyped, Api!StopAsked
<1>2. Compared'
  BY DEF ApiInv, ApiTyped, HatTyped, OpTyped, Compared, Filed, InFrame, Lacking,
       Reached, Committing, Api!StopAsked, Api!Runs, Api!GoOn, Api!Over, Api!Idle, Api!Counted
<1>3. Current'
  BY DEF ApiInv, ApiTyped, HatTyped, LinkTyped, OpTyped, SeenTyped, Current, Live, Holds,
         Carrying, Api!None, Api!StopAsked, Api!Counted, Api!Runs, Api!GoOn, Api!Over, Api!Idle
<1>4. QED BY <1>1, <1>2, <1>3 DEF ApiInv

LEMMA ApiStopAcceptedKeeps ==
  ASSUME ApiInv, UNCHANGED apiFaults, Api!StopAccepted
  PROVE  ApiInv'
<1>1. ApiTyped'
  <2>1. pos' \in 0..Positions
    BY DEF ApiInv, ApiTyped, Api!StopAccepted
  <2>2. HatTyped(apiHat')
    BY DEF ApiInv, ApiTyped, HatTyped, Api!StopAccepted, Api!None
  <2>3. LinkTyped(apiLink', apiHat')
    BY DEF ApiInv, ApiTyped, HatTyped, LinkTyped, Api!StopAccepted
  <2>4. ledger' \subseteq Entry /\ \A e \in ledger' : e.boot <= apiHat'.boot
    BY DEF ApiInv, ApiTyped, HatTyped, Api!StopAccepted
  <2>5. OpTyped(apiOp', apiHat')
    BY DEF ApiInv, ApiTyped, HatTyped, LinkTyped, OpTyped, Committing, Kinds, Places,
         Api!Operations, Api!StopAccepted, Api!Runs, Api!GoOn, Api!Over, Api!Idle, Api!Counted
  <2>6. StoreTyped(profile', apiOp')
    BY DEF OpTyped, ProfileTyped, ApiInv, ApiTyped, StoreTyped, Api!StopAccepted, Api!Runs,
         Api!GoOn, Api!Over, Api!Idle, Api!Counted
  <2>7. SeenTyped(seen', apiHat')
    BY DEF ApiInv, ApiTyped, HatTyped, SeenTyped, Api!StopAccepted, Api!Counted, Api!Sent
  <2>8. QED
    BY <2>1, <2>2, <2>3, <2>4, <2>5, <2>6, <2>7
      DEF ApiInv, ApiTyped, Api!StopAccepted
<1>2. Compared'
  BY DEF ApiInv, ApiTyped, HatTyped, OpTyped, Compared, Filed, InFrame, Lacking,
       Reached, Committing, Api!StopAccepted, Api!Runs, Api!GoOn, Api!Over, Api!Idle, Api!Counted
<1>3. Current'
  <2>1. seen'.late = seen.late /\ apiOp' = apiOp /\ http' = Api!None
    BY DEF ApiInv, ApiTyped, SeenTyped, Api!StopAccepted
  <2>2. ~Carrying(apiOp) BY DEF Carrying, Api!StopAccepted, Api!LoopFree
  <2>3. QED BY <2>1, <2>2 DEF ApiInv, Current, Holds
<1>4. QED BY <1>1, <1>2, <1>3 DEF ApiInv

LEMMA ApiStopDeliveredKeeps ==
  ASSUME ApiInv, UNCHANGED apiFaults, Api!StopDelivered
  PROVE  ApiInv'
<1>1. ApiTyped'
  <2>1. pos' \in 0..Positions
    BY DEF ApiInv, ApiTyped, Api!StopDelivered, Api!Answered
  <2>2. HatTyped(apiHat')
    BY DEF ApiInv, ApiTyped, HatTyped, Api!StopDelivered, Api!Answered, Api!None
  <2>3. LinkTyped(apiLink', apiHat')
    BY DEF ApiInv, ApiTyped, HatTyped, LinkTyped, Api!StopDelivered, Api!Answered
  <2>4. ledger' \subseteq Entry /\ \A e \in ledger' : e.boot <= apiHat'.boot
    BY DEF ApiInv, ApiTyped, HatTyped, Api!StopDelivered, Api!Answered
  <2>5. OpTyped(apiOp', apiHat')
    BY DEF ApiInv, ApiTyped, HatTyped, LinkTyped, OpTyped, Committing, Kinds, Places,
         Api!Operations, Api!StopDelivered, Api!Answered, Api!Runs, Api!GoOn, Api!Over, Api!Idle,
         Api!Counted
  <2>6. StoreTyped(profile', apiOp')
    BY DEF OpTyped, ProfileTyped, ApiInv, ApiTyped, StoreTyped, Api!StopDelivered, Api!Answered,
         Api!Runs, Api!GoOn, Api!Over, Api!Idle, Api!Counted
  <2>7. SeenTyped(seen', apiHat')
    <3>1. seen' = [since |-> seen.since, refused |-> seen.refused, over |-> apiHat.made,
                   late |-> seen.late, torn |-> seen.torn]
      BY DEF ApiInv, ApiTyped, SeenTyped, Api!StopDelivered
    <3>2. apiHat'.made = apiHat.made
      BY DEF ApiInv, ApiTyped, HatTyped, Api!StopDelivered
    <3>3. apiHat.made \in 0..apiHat.made
      BY ServosAssumption DEF ApiInv, ApiTyped, HatTyped
    <3>4. QED
      BY <3>1, <3>2, <3>3 DEF ApiInv, ApiTyped, SeenTyped, Api!Torn, Api!Runs
  <2>8. QED
    BY <2>1, <2>2, <2>3, <2>4, <2>5, <2>6, <2>7
      DEF ApiInv, ApiTyped, Api!StopDelivered, Api!Answered
<1>2. Compared'
  <2>1. UNCHANGED <<ledger, apiOp, profile>> /\ seen'.torn = seen.torn
    BY DEF ApiInv, ApiTyped, SeenTyped, Api!StopDelivered
  <2>2. apiHat'.boot = apiHat.boot /\ apiHat'.frame = apiHat.frame
    BY DEF ApiInv, ApiTyped, HatTyped, Api!StopDelivered
  <2>3. QED BY <2>1, <2>2 DEF ApiInv, Compared, Filed, InFrame, Lacking
<1>3. Current'
  BY DEF ApiInv, ApiTyped, HatTyped, LinkTyped, OpTyped, SeenTyped, Current, Live, Holds,
         Carrying, Api!None, Api!StopDelivered, Api!Answered, Api!Counted, Api!Runs, Api!GoOn,
         Api!Over, Api!Idle
<1>4. QED BY <1>1, <1>2, <1>3 DEF ApiInv

LEMMA ApiBegins == Api!Init => ApiInv
<1> SUFFICES ASSUME Api!Init PROVE ApiInv OBVIOUS
<1> USE DEF Api!Init
<1>1. 1 \in 1..ApiBoots /\ 0 \in 0..Positions /\ 0 \in 0..Tokens /\ 1 \in 1..1
  BY ServosAssumption
<1>2. HatTyped(apiHat) BY <1>1 DEF HatTyped
<1>3. LinkTyped(apiLink, apiHat) BY <1>1 DEF LinkTyped
<1>4. OpTyped(apiOp, apiHat) BY DEF OpTyped, Committing, Kinds, Places, Api!Idle
<1>5. StoreTyped(profile, apiOp) BY DEF StoreTyped, ProfileTyped, Api!Idle
<1>6. SeenTyped(seen, apiHat) BY <1>1 DEF SeenTyped
<1>7. ApiTyped
  BY <1>1, <1>2, <1>3, <1>4, <1>5, <1>6 DEF ApiTyped
<1>8. Compared BY DEF Compared, Filed, Committing, Api!Idle
<1>9. Current BY DEF Current, Live
<1>10. QED BY <1>7, <1>8, <1>9 DEF ApiInv

LEMMA ApiStays == ApiInv /\ [Api!Next]_commissioning => ApiInv'
<1> SUFFICES ASSUME ApiInv, [Api!Next]_commissioning PROVE ApiInv' OBVIOUS
<1>1. CASE UNCHANGED commissioning
  <2>1. ApiTyped'
    BY <1>1 DEF commissioning, ApiInv, ApiTyped, HatTyped, LinkTyped, OpTyped, StoreTyped,
                Committing, ProfileTyped, SeenTyped
  <2>2. Compared => Compared'
    BY <1>1 DEF commissioning, Compared, Filed, InFrame, Lacking, Committing, Reached
  <2>3. Current => Current'
    BY <1>1 DEF commissioning, Current, Live, Holds, Carrying
  <2>4. QED BY <2>1, <2>2, <2>3 DEF ApiInv
<1>2. ASSUME UNCHANGED apiFaults, Api!World PROVE ApiInv'
  BY <1>2, ApiHandTurnKeeps, ApiPowerCycleKeeps, ApiServoPowerLossKeeps,
     ApiServiceReconnectsKeeps, ApiRestartKeeps
     DEF Api!World
<1>3. ASSUME UNCHANGED apiFaults, Api!Requests PROVE ApiInv'
  BY <1>3, ApiArrivesKeeps, ApiBeginsKeeps, ApiUnansweredKeeps, ApiReconnectKeeps,
     ApiCensusKeeps, ApiResetKeeps DEF Api!Requests
<1>4. ASSUME UNCHANGED apiFaults, Api!Evidence PROVE ApiInv'
  BY <1>4, ApiCaptureKeeps, ApiCaptureLabelledKeeps, ApiOdometerZeroKeeps DEF Api!Evidence
<1>5. ASSUME UNCHANGED apiFaults, Api!Nudges PROVE ApiInv'
  BY <1>5, ApiPrepareChecksKeeps, ApiPrepareKeeps, ApiProposalKeptKeeps, ApiExecuteTakesKeeps,
     ApiExecuteRefusedKeeps, ApiExecuteKeeps DEF Api!Nudges
<1>6. ASSUME UNCHANGED apiFaults, Api!Commits PROVE ApiInv'
  BY <1>6, ApiCommitChecksKeeps, ApiCommitScansKeeps, ApiCommitCapturesKeeps,
     ApiCommitConfirmsKeeps, ApiProfileSavedKeeps, ApiProfileAdoptedKeeps, ApiSaveFailsKeeps
     DEF Api!Commits
<1>7. ASSUME UNCHANGED apiFaults, Api!Stops PROVE ApiInv'
  BY <1>7, ApiStopAskedKeeps, ApiStopAcceptedKeeps, ApiStopDeliveredKeeps DEF Api!Stops
<1>8. QED
  BY <1>1, <1>2, <1>3, <1>4, <1>5, <1>6, <1>7 DEF Api!Next

LEMMA ApiImplies ==
  ASSUME ApiInv
  PROVE  Api!TypeOK /\ Api!NudgeIsCurrent /\ Api!LimitsWereReached
<1>1. Api!TypeOK
  BY ServosAssumption
     DEF ApiInv, ApiTyped, HatTyped, LinkTyped, StoreTyped, ProfileTyped, SeenTyped, Entry,
         Api!TypeOK
<1>2. Api!LimitsWereReached
  BY DEF ApiInv, Compared, Reached, Api!LimitsWereReached
<1>3. Api!NudgeIsCurrent BY DEF ApiInv, Current, Api!NudgeIsCurrent
<1>4. QED BY <1>1, <1>2, <1>3

(* Commissioning, for every set of faults and whatever is asked: a nudge    *)
(* runs at most once and not after what ended its preview; a committed      *)
(* profile's limits were reached, unless the frame of its counts changed    *)
(* while the HAT stayed in one boot.                                        *)
THEOREM CommissioningIsTrue ==
  Api!Spec => [](Api!TypeOK /\ Api!NudgeIsCurrent /\ Api!LimitsWereReached)
<1>1. [Api!Next]_Api!vars => [Api!Next]_commissioning
  BY DEF Api!vars, Api!system, commissioning
<1>2. ApiInv /\ [Api!Next]_Api!vars => ApiInv'
  BY <1>1, ApiStays
<1>3. ApiInv => Api!TypeOK /\ Api!NudgeIsCurrent /\ Api!LimitsWereReached
  BY ApiImplies
<1>4. QED BY <1>2, <1>3, ApiBegins, PTL DEF Api!Spec

-----------------------------------------------------------------------------
(* The IDs on the bus. *)
(* The ids of the joints.  A rename may begin only where no joint names the *)
(* new id, and nothing else writes until it ends.                           *)
Spoken == \A j \in Joints : family[ids[j]] = j

IdInv ==
  /\ Names!TypeOK /\ idOp = [at |-> idOp.at, old |-> idOp.old, new |-> idOp.new]
  /\ Names!Apart(ids) /\ Names!Apart(idsOnDisk)
  /\ idOp.at \in {"rename", "follow"} =>
       idOp.new \in Ids /\ \A j \in Joints : ids[j] # idOp.new
  /\ idOp.at \in {"idle", "rename", "follow"} /\ ~dirty => Spoken

(* Every joint's id is declared in its dialect once no two share one.       *)
LEMMA DeclaredIsTyped ==
  ASSUME Names!TypeOK
  PROVE  \A table \in [Joints -> Ids], done \in SUBSET Joints :
           Names!Declared(table, done) \in [Ids -> Joints \cup {Names!Free}]
<1> SUFFICES ASSUME NEW table \in [Joints -> Ids], NEW done \in SUBSET Joints, NEW i \in Ids
             PROVE  Names!Declared(table, done)[i] \in Joints \cup {Names!Free}
  BY DEF Names!Declared
<1> DEFINE named == Names!Named(table, i) \cap done
<1>1. CASE named = {}
  BY <1>1 DEF Names!TypeOK, Names!Declared
<1>2. CASE named # {}
  <2>1. (CHOOSE j \in named : TRUE) \in named BY <1>2
  <2>2. QED BY <2>1, <1>2 DEF Names!Declared, Names!Named
<1>3. QED BY <1>1, <1>2

LEMMA DeclaredIsSpoken ==
  \A table \in [Joints -> Ids] :
    Names!Apart(table) => \A j \in Joints : Names!Declared(table, Joints)[table[j]] = j
<1> SUFFICES ASSUME NEW table \in [Joints -> Ids], Names!Apart(table), NEW j \in Joints
             PROVE  Names!Declared(table, Joints)[table[j]] = j
  OBVIOUS
<1>1. Names!Named(table, table[j]) \cap Joints = {j} BY DEF Names!Named, Names!Apart
<1>2. table[j] \in Ids OBVIOUS
<1>3. (CHOOSE k \in {j} : TRUE) = j OBVIOUS
<1>4. QED BY <1>1, <1>2, <1>3 DEF Names!Declared

LEMMA DeclaresWell ==
  ASSUME Names!TypeOK
  PROVE  \A table \in [Joints -> Ids] :
           Names!Apart(table) /\ Names!Declares(table) =>
             /\ family' \in [Ids -> Joints \cup {Names!Free}] /\ dirty' \in BOOLEAN
             /\ ~dirty' => \A j \in Joints : family'[table[j]] = j
<1> SUFFICES ASSUME NEW s \in [Joints -> Ids], Names!Apart(s), Names!Declares(s)
             PROVE  /\ family' \in [Ids -> Joints \cup {Names!Free}] /\ dirty' \in BOOLEAN
                    /\ ~dirty' => \A j \in Joints : family'[s[j]] = j
  OBVIOUS
<1>1. PICK done \in SUBSET Joints :
        family' = Names!Declared(s, done) /\ dirty' \in BOOLEAN /\ (~dirty' => done = Joints)
  BY DEF Names!Declares
<1>2. family' \in [Ids -> Joints \cup {Names!Free}] BY <1>1, DeclaredIsTyped
<1>3. \A j \in Joints : Names!Declared(s, Joints)[s[j]] = j BY DeclaredIsSpoken
<1>4. QED BY <1>1, <1>2, <1>3

LEMMA IdsBegin == Names!Init => IdInv
<1> SUFFICES ASSUME Names!Init PROVE IdInv OBVIOUS
<1> USE DEF Names!Init
<1>1. \A j \in Joints : (CHOOSE k \in Joints : bus[k] = bus[j]) = j
  BY DEF Names!Apart
<1>2. \A i \in Ids : (\E j \in Joints : bus[j] = i) => (CHOOSE j \in Joints : bus[j] = i) \in Joints
  OBVIOUS
<1>3. family \in [Ids -> Joints \cup {Names!Free}] BY <1>2
<1>4. Spoken BY <1>1 DEF Spoken
<1>5. QED BY <1>3, <1>4 DEF IdInv, Names!TypeOK, Names!Idle

LEMMA IdsStay == IdInv /\ [Names!Next]_jointIds => IdInv'
<1> SUFFICES ASSUME IdInv, [Names!Next]_jointIds PROVE IdInv' OBVIOUS
<1> USE DEF IdInv, Names!TypeOK, Names!Idle
<1>1. CASE UNCHANGED jointIds
  BY <1>1 DEF jointIds, Spoken, Names!Apart
<1>2. CASE Names!AssignBegins
  BY <1>2 DEF Names!AssignBegins, Names!Conflict, Names!Named, Names!Apart, Spoken
<1>3. CASE Names!AssignRenames
  <2>1. bus' \in [Joints -> Ids]
    BY <1>3 DEF Names!AssignRenames, Names!Renamed
  <2>2. QED BY <1>3, <2>1 DEF Names!AssignRenames, Names!Apart, Spoken
<1>4. CASE Names!AssignFollows
  <2>1. ids' \in [Joints -> Ids] BY <1>4 DEF Names!AssignFollows
  <2>2. Names!Apart(ids)' BY <1>4 DEF Names!AssignFollows, Names!Apart
  <2>3. QED BY <1>4, <2>1, <2>2 DEF Names!AssignFollows, Names!Apart
<1>5. CASE Names!Saves
  BY <1>5 DEF Names!Saves, Names!Apart
<1>6. CASE Names!DeclaresAfter
  BY <1>6, DeclaresWell DEF Names!DeclaresAfter, Names!Apart, Spoken
<1>7. CASE Names!CalibrateServoId
  <2>1. PICK j \in Joints, id \in Ids :
          /\ Names!Named(ids, id) \ {j} = {} /\ ids' = [ids EXCEPT ![j] = id]
          /\ Names!Declares(ids') /\ idsOnDisk' \in {ids', idsOnDisk}
    BY <1>7 DEF Names!CalibrateServoId
  <2>2. ids' \in [Joints -> Ids] BY <2>1
  <2>3. \A i, k \in Joints : ids'[i] = ids'[k] => i = k
    BY <2>1 DEF Names!Named, Names!Apart
  <2>4. Names!Apart(ids') BY <2>3 DEF Names!Apart
  <2>5. /\ family' \in [Ids -> Joints \cup {Names!Free}] /\ dirty' \in BOOLEAN
        /\ ~dirty' => \A i \in Joints : family'[ids'[i]] = i
    BY <2>1, <2>2, <2>4, DeclaresWell
  <2>6. QED BY <1>7, <2>1, <2>2, <2>3, <2>5 DEF Names!CalibrateServoId, Names!Apart, Spoken
<1>8. CASE Names!CommissioningAssigns
  BY <1>8 DEF Names!CommissioningAssigns, Names!Renamed, Names!Apart, Spoken
<1>9. CASE Names!RequireReady
  BY <1>9, DeclaresWell DEF Names!RequireReady, Names!Apart, Spoken
<1>10. CASE Names!Restart
  BY <1>10, DeclaresWell DEF Names!Restart, Names!Apart, Spoken
<1>11. QED
  BY <1>1, <1>2, <1>3, <1>4, <1>5, <1>6, <1>7, <1>8, <1>9, <1>10 DEF Names!Next

LEMMA IdsImply == IdInv => Names!TypeOK /\ Names!OneJointPerId /\ Names!DialectFollowsJoint
BY DEF IdInv, Names!OneJointPerId, Names!DialectFollowsJoint, Names!Apart, Names!Idle, Spoken

(* No two joints name one ID, in memory or in the file, and an ID is spoken *)
(* to in its joint's dialect, for every set of joints, IDs and faults.      *)
THEOREM IdsAreTrue ==
  Names!Spec => [](Names!TypeOK /\ Names!OneJointPerId /\ Names!DialectFollowsJoint)
<1>1. IdInv /\ [Names!Next]_Names!vars => IdInv'
  BY IdsStay DEF Names!vars, jointIds
<1>2. QED BY <1>1, IdsBegin, IdsImply, PTL DEF Names!Spec

-----------------------------------------------------------------------------
(* MCServos: a behaviour of one of the five modules is one of each, since   *)
(* the variables of the others rest in an initial state.                    *)
ServosInv == FrameInv /\ ApiInv /\ IdInv /\ CountInv /\ RetryInv

LEMMA BenchesBegin == MCInit => ServosInv
BY FrameBegins, ApiBegins, IdsBegin, CountBegins, RetryBegins DEF MCInit, ServosInv

LEMMA BenchesStep ==
  [MCNext]_allVars
    => /\ [Next]_vars /\ [Api!Next]_commissioning /\ [Names!Next]_jointIds
       /\ [Odo!Next]_Odo!vars /\ [Retries!Next]_Retries!vars
BY DEF MCNext, BaseNext, ApiNext, NamesNext, TurnsNext, RetryNext,
       allVars, counting, retrying, Odo!vars, Retries!vars

LEMMA BenchesStay == ServosInv /\ [MCNext]_allVars => ServosInv'
BY BenchesStep, FrameStays, ApiStays, IdsStay, CountStays, OrderStays DEF ServosInv

(* The five invariants hold together, in every reachable state.             *)
THEOREM ServosInductive == MCSpec => []ServosInv
BY BenchesBegin, BenchesStay, PTL DEF MCSpec

(* What the gateway has on record of its servos holds: the limits of a      *)
(* profile whose counts are of one frame, the proposals of nudges, and the  *)
(* IDs, for all of MCServos's constants and settings.                       *)
THEOREM RecordsAreTrue == MCSpec => []ServoRecordsAreTrue
<1>1. ServosInv => ServoRecordsAreTrue
  BY ApiImplies, IdsImply DEF ServosInv, FrameInv, ServoRecordsAreTrue, TypesOK
<1>2. QED BY <1>1, ServosInductive, PTL

(* A valid count is the zeroed coordinate plus every tick the joint turned, *)
(* for every set of places, unless a sample came too late to tell.          *)
THEOREM CountStaysTrue == MCSpec => []CountIsTrue
<1>1. ServosInv => CountIsTrue
  BY DEF ServosInv, CountInv, Counted, CountIsTrue, Odo!CountIsTrue
<1>2. QED BY <1>1, ServosInductive, PTL

(* Whatever is settled and whatever arrives, the obligations that stay owed *)
(* keep their order, and the list its form.                                 *)
THEOREM OrderIsKept == MCSpec => ArrivalOrderKept
<1>1. ServosInv /\ [MCNext]_allVars
        => [/\ Retries!TypeOK'
            /\ \A a, b \in Retries!Pending \cap Retries!Pending' :
                 Retries!Before(off, a, b) => Retries!Before(off, a, b)']_Retries!vars
  BY BenchesStep, OrderStays DEF ServosInv
<1>2. QED BY <1>1, ServosInductive, PTL DEF MCSpec, ArrivalOrderKept, Retries!ArrivalOrderKept
===============================================================================
