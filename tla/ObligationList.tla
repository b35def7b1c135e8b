---------------------------- MODULE ObligationList ----------------------------
(***************************************************************************)
(* The bounded list of torque-off obligations inside SafetyStateMachine    *)
(* (ArmHatProtocol.cpp): torqueOffIds_ in order of arrival, the retry      *)
(* cursor, and the time of the last attempt.  Every operator takes a list  *)
(* and returns the list the C++ method leaves.  Indices are the code's,    *)
(* from 0; its capacity (254) covers every servo address there is.         *)
(***************************************************************************)
EXTENDS Naturals, Sequences

NoObligations == [ids |-> <<>>, cursor |-> 0, seen |-> FALSE, last |-> 0]

Owed(o) == {o.ids[i] : i \in DOMAIN o.ids}

Index(o, id) == (CHOOSE i \in DOMAIN o.ids : o.ids[i] = id) - 1

(* queueTorqueOffObligation: once per servo; the first restarts the timer. *)
Queued(o, id) ==
  IF id \in Owed(o) THEN o
  ELSE IF o.ids = <<>> THEN [NoObligations EXCEPT !.ids = <<id>>]
  ELSE [o EXCEPT !.ids = Append(@, id)]

(* noteTorqueOffAttempt: the cursor moves past the servo that was tried. *)
Noted(o, id, time) ==
  IF o.ids = <<>> THEN o
  ELSE [o EXCEPT !.seen = TRUE, !.last = time,
                 !.cursor = IF id \in Owed(o)
                            THEN (Index(o, id) + 1) % Len(o.ids) ELSE @]

(* Mutant of Settled: the last entry takes the freed place.                 *)
SettledBySwap(o, id) ==
  IF id \notin Owed(o) THEN o
  ELSE LET n == Len(o.ids)
           moved == [o.ids EXCEPT ![Index(o, id) + 1] = o.ids[n]]
       IN IF n = 1 THEN [o EXCEPT !.ids = <<>>, !.cursor = 0, !.seen = FALSE]
          ELSE [o EXCEPT !.ids = SubSeq(moved, 1, n - 1), !.cursor = @ % (n - 1)]

(* markTorqueOffConfirmed: later entries move up, the cursor stays in range. *)
Settled(o, id) ==
  IF id \notin Owed(o) THEN o
  ELSE LET n == Len(o.ids) - 1
           rest == [k \in 1..n |-> o.ids[IF k <= Index(o, id) THEN k ELSE k + 1]]
       IN IF n = 0 THEN [o EXCEPT !.ids = <<>>, !.cursor = 0, !.seen = FALSE]
          ELSE [o EXCEPT !.ids = rest, !.cursor = @ % n]

(* torqueOffServoId: the servo under the cursor. *)
UnderCursor(o) == o.ids[(o.cursor % Len(o.ids)) + 1]

(* Mutant of FirstOutside: the newest obligation is retried.                *)
LastOutside(o, S) ==
  LET open == {i \in DOMAIN o.ids : o.ids[i] \notin S}
  IN o.ids[CHOOSE i \in open : \A j \in open : j <= i]

(* nextUnauthorizedTorqueOff: the oldest obligation outside S. *)
FirstOutside(o, S) ==
  LET open == {i \in DOMAIN o.ids : o.ids[i] \notin S}
  IN o.ids[CHOOSE i \in open : \A j \in open : i <= j]

(* torqueOffAndConfirm on the list; heard: the read-back answered 0. *)
Attempt(o, id, heard, time) ==
  LET n == Noted(Queued(o, id), id, time)
  IN IF heard THEN Settled(n, id) ELSE n

(* resolvePendingTorqueOff on the list: as many attempts as there were      *)
(* obligations, each on the servo under the cursor.                         *)
Resolved(o, answering, time) ==
  IF o.ids = <<>> THEN o
  ELSE Attempt(o, UnderCursor(o), UnderCursor(o) \in answering, time)

ResolvePass(o, answering, time) ==
  LET pass[n \in 0..Len(o.ids)] ==
        IF n = 0 THEN o ELSE Resolved(pass[n - 1], answering, time)
  IN pass[Len(o.ids)]

=============================================================================
