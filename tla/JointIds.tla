-------------------------------- MODULE JointIds --------------------------------
(***************************************************************************)
(* Which servo a joint drives: the ID the joint store of the Pi names      *)
(* (JointStore, in memory and in arm-joints.json), the ID the servo        *)
(* answers to on the bus, and the dialect the controller speaks to that ID *)
(* (declare_family).  assign_id of the arm API renames a servo and then    *)
(* the joints; calibrate points a joint at another ID; the commissioning   *)
(* API renames on the bus alone.                                           *)
(***************************************************************************)
EXTENDS Integers, FiniteSets

CONSTANTS Joints,       \* each has one servo, in its own dialect
          Ids,          \* the IDs of the bus
          Faults        \* of "reply", "save", "crash", "declare", "commission"

VARIABLES
  bus,      \* the ID the servo of each joint answers to
  mem,      \* the ID each joint names, in memory
  disk,     \* the same, in the file
  family,   \* the joint whose dialect is declared for an ID, or Free
  dirty,    \* families are known to be undeclared
  op        \* the operation in progress: [at, old, new]

vars == <<bus, mem, disk, family, dirty, op>>

Free == "free"
Idle == [at |-> "idle", old |-> 0, new |-> 0]
Named(store, id) == {j \in Joints : store[j] = id}
Apart(store) == \A i, j \in Joints : store[i] = store[j] => i = j

Init ==
  /\ bus \in [Joints -> Ids] /\ Apart(bus)
  /\ mem = bus /\ disk = bus
  /\ family = [i \in Ids |-> IF \E j \in Joints : bus[j] = i
                             THEN CHOOSE j \in Joints : bus[j] = i ELSE Free]
  /\ dirty = FALSE
  /\ op = Idle

\* Every joint's dialect for the ID it names; the loop gives up at the first
\* declaration the controller refuses, and stays dirty.
Declared(store, done) ==
  [i \in Ids |-> LET named == Named(store, i) \cap done
                 IN IF named = {} THEN family[i] ELSE CHOOSE j \in named : TRUE]
Declares(store) ==
  \/ family' = Declared(store, Joints) /\ dirty' = FALSE
  \/ /\ "declare" \in Faults
     /\ \E done \in SUBSET Joints : family' = Declared(store, done)
     /\ dirty' = TRUE

-----------------------------------------------------------------------------
(* assign_id of the arm API, under the operation and motion locks *)

\* Refused when another joint than that of the old ID names the new one.
Conflict(store, old, new) == Named(store, new) \ Named(store, old) # {}

AssignBegins ==
  /\ op = Idle
  /\ \E old, new \in Ids :
       /\ old # new /\ ~Conflict(mem, old, new)
       /\ op' = [at |-> "rename", old |-> old, new |-> new]
  /\ UNCHANGED <<bus, mem, disk, family, dirty>>

\* The controller renames one servo, alone at its ID, to an ID nothing answers
\* to, and reads it back.
CanRename(old, new) ==
  /\ Cardinality(Named(bus, old)) = 1
  /\ Named(bus, new) = {}
Renamed(old, new) == [j \in Joints |-> IF bus[j] = old THEN new ELSE bus[j]]

AssignRenames ==
  /\ op.at = "rename"
  /\ IF CanRename(op.old, op.new)
       THEN /\ bus' = Renamed(op.old, op.new)
            /\ \/ op' = [op EXCEPT !.at = "follow"]
               \/ "reply" \in Faults /\ op' = Idle      \* the answer is lost
       ELSE op' = Idle /\ UNCHANGED bus
  /\ UNCHANGED <<mem, disk, family, dirty>>

\* Every joint that named the old ID follows.
AssignFollows ==
  /\ op.at = "follow"
  /\ mem' = [j \in Joints |-> IF mem[j] = op.old THEN op.new ELSE mem[j]]
  /\ op' = [op EXCEPT !.at = "save"]
  /\ UNCHANGED <<bus, disk, family, dirty>>

\* A failed save is not reported: save() answers FALSE, which nobody reads.
Saves ==
  /\ op.at = "save"
  /\ disk' = mem \/ ("save" \in Faults /\ UNCHANGED disk)
  /\ op' = [op EXCEPT !.at = "declare"]
  /\ UNCHANGED <<bus, mem, family, dirty>>

DeclaresAfter ==
  /\ op.at = "declare"
  /\ Declares(mem)
  /\ op' = Idle
  /\ UNCHANGED <<bus, mem, disk>>

-----------------------------------------------------------------------------
(* The other writers *)

\* calibrate with a servo ID: refused when another joint names it; declared,
\* then saved.
CalibrateServoId ==
  /\ op = Idle
  /\ \E j \in Joints, id \in Ids :
       /\ Named(mem, id) \ {j} = {}
       /\ mem' = [mem EXCEPT ![j] = id]
       /\ Declares(mem')
       /\ disk' = mem' \/ ("save" \in Faults /\ UNCHANGED disk)
  /\ UNCHANGED <<bus, op>>

\* The commissioning API renames on the bus only.
CommissioningAssigns ==
  /\ "commission" \in Faults /\ op = Idle
  /\ \E old, new \in Ids : old # new /\ CanRename(old, new) /\ bus' = Renamed(old, new)
  /\ UNCHANGED <<mem, disk, family, dirty, op>>

\* Before an operation on an SCS joint, and from the service thread, the
\* declarations that are known to be missing are repeated.
RequireReady ==
  /\ op = Idle /\ dirty
  /\ Declares(mem)
  /\ UNCHANGED <<bus, mem, disk, op>>

Restart ==
  /\ "crash" \in Faults
  /\ mem' = disk /\ op' = Idle
  /\ Declares(disk)
  /\ UNCHANGED <<bus, disk>>

Next == AssignBegins \/ AssignRenames \/ AssignFollows \/ Saves \/ DeclaresAfter
          \/ CalibrateServoId \/ CommissioningAssigns \/ RequireReady \/ Restart
Spec == Init /\ [][Next]_vars

-----------------------------------------------------------------------------
(* Properties *)

\* The shape of every variable.
TypeOK ==
  /\ {bus, mem, disk} \subseteq [Joints -> Ids]
  /\ family \in [Ids -> Joints \cup {Free}]
  /\ dirty \in BOOLEAN
  /\ op.at \in {"idle", "rename", "follow", "save", "declare"}
  /\ {op.old, op.new} \subseteq Ids \cup {0}

\* Two joints never name one ID, in memory or in the file, whatever a rename, a
\* save or a declaration left undone.
OneJointPerId ==
  \A i, j \in Joints : i # j => mem[i] # mem[j] /\ disk[i] # disk[j]

\* Between operations, and unless the gateway knows that it has to declare
\* again, the ID a joint names is spoken to in that joint's dialect.
DialectFollowsJoint ==
  op = Idle /\ ~dirty => \A j \in Joints : family[mem[j]] = j

\* simple_arm_api.py:7129, "Leaving the joints behind would silently unbind
\* them": between operations a renamed servo's joint has followed it.  Here the
\* answer of the rename is lost.
JointsFollow ==
  [][op.at = "rename" /\ op' = Idle /\ bus' # bus => mem' # mem]_vars
=============================================================================
