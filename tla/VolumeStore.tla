------------------------------ MODULE VolumeStore ------------------------------
(***************************************************************************)
(* nova/volume/storage.py: one nova-volume process with its logical        *)
(* volumes, its AoE exports and its keeper files.  A request is a message  *)
(* that is acknowledged when its handler returns, and is delivered again   *)
(* when the process dies before that.                                      *)
(* Nobody looks at the exit codes of lvcreate, vblade-persist and lvremove *)
(* (utils.runthis): each of them may fail and the handler goes on.         *)
(* A device e<shelf>.<blade> is the number shelf * Blades + blade.         *)
(* A definition that no other one uses is a mutated form of the one below  *)
(* it, with a plausible bug.                                               *)
(***************************************************************************)
EXTENDS Integers, Sequences, FiniteSets, FiniteSetsExt

CONSTANTS
  Ids,        \* the volume ids that generate_uid may give
  Places,     \* an instance and a mount point
  None, Torn,
  Shelves,    \* shelves with a number of one digit: 10 in the code
  Blades,     \* blades of a shelf: 9 in the code
  MaxQueue,   \* bound on the messages in the queue
  MaxCrashes, \* bound on the deaths of the process
  MaxFailures \* bound on the commands that fail, attach-disk not counted

Top == Shelves * Blades
Devices == 0..Top
Volumes == [device : Devices, status : {"available", "attached"}, place : Places \cup {None}]
CreateMessage == [op |-> "create", id |-> None, place |-> None]
Messages ==
  {CreateMessage}
    \cup [op : {"delete", "attach", "detach"}, id : Ids, place : Places \cup {None}]

ASSUME VolumeNames ==
  /\ None \notin Ids \cup Places \cup Volumes \cup Messages
  /\ Torn \notin Volumes \cup {None}
ASSUME VolumeParameters ==
  /\ Shelves \in Nat /\ Shelves >= 2 /\ Blades \in Nat \ {0}
  /\ MaxQueue \in Nat /\ MaxCrashes \in Nat /\ MaxFailures \in Nat

VARIABLES
  lvs,      \* ids with a logical volume
  exports,  \* vblade-persist: device -> the id it exports, or None
  keeper,   \* id -> its keeper file: None, Torn or a volume
  queue,    \* messages to this host
  message,  \* the message that is being handled, or None
  at,       \* the next step of its handler
  volume,   \* Volume.volume_id of the handler
  device,   \* Volume.aoe_device of the handler
  used,     \* ids given out
  crashes,
  failures, \* commands that have failed
  cut,      \* history: a delete was cut short
  wrapped,  \* history: a device was numbered past the shelves of one digit
  bare,     \* history: devices given to a volume that vblade-persist did not export
  unremoved \* history: ids whose last lvremove failed

disk == <<lvs, exports, keeper>>
handler == <<message, at, volume, device>>
history == <<crashes, failures, cut, wrapped, bare, unremoved>>
vars == <<disk, queue, handler, used, history>>

Steps == {"idle", "export", "save", "unexport", "lvremove", "forget", "ack"}

TypeOK ==
  /\ lvs \subseteq used /\ used \subseteq Ids
  /\ exports \in [Devices -> used \cup {None}]
  /\ keeper \in [Ids -> Volumes \cup {None, Torn}]
  /\ queue \in Seq(Messages)
  /\ message \in Messages \cup {None} /\ at \in Steps
  /\ volume \in used \cup {None} /\ device \in Devices
  /\ message = None <=> at = "idle"
  /\ volume = None <=> at = "idle"
  /\ crashes \in 0..MaxCrashes /\ cut \in BOOLEAN /\ wrapped \in BOOLEAN
  /\ failures \in 0..MaxFailures /\ bare \subseteq Devices /\ unremoved \subseteq Ids

Init ==
  /\ lvs = {} /\ exports = [d \in Devices |-> None] /\ keeper = [i \in Ids |-> None]
  /\ queue = <<>> /\ message = None /\ at = "idle" /\ volume = None /\ device = 0
  /\ used = {} /\ crashes = 0 /\ cut = FALSE /\ wrapped = FALSE
  /\ failures = 0 /\ bare = {} /\ unremoved = {}

-----------------------------------------------------------------------------
(* A command that may fail: nobody looks at its exit code.                 *)
Fails == failures < MaxFailures /\ failures' = failures + 1

-----------------------------------------------------------------------------
(* get_next_aoe_numbers *)

Exported == {d \in Devices : exports[d] # None}

(* `ls` sorts by text: shelf 10 comes after shelves 0 and 1 and before 2.  *)
LastAoe ==
  IF Exported = {} THEN 0
  ELSE IF Top \in Exported /\ \A d \in Exported \ {Top} : d < 2 * Blades
       THEN Top
       ELSE Max(Exported \ {Top})

NextAoeOfLast == IF LastAoe = Top THEN 1 ELSE LastAoe

(* One digit of the shelf is read: that of shelf 10 is 0.                  *)
NextAoe == IF LastAoe = Top THEN 1 ELSE LastAoe + 1

-----------------------------------------------------------------------------
(* Requests *)

Send(m) ==
  /\ Len(queue) < MaxQueue
  /\ queue' = Append(queue, m)
  /\ UNCHANGED <<disk, handler, used, history>>

(* Bound: every create in the queue has an id left for it.                 *)
Creates == Cardinality({k \in DOMAIN queue : queue[k].op = "create"})

SendCreate ==
  /\ Creates < Cardinality(Ids \ used)
  /\ Send(CreateMessage)

(* The callers name ids that they have heard of, deleted meanwhile or not. *)
SendOther(i) ==
  /\ i \in used
  /\ \/ Send([op |-> "delete", id |-> i, place |-> None])
     \/ Send([op |-> "detach", id |-> i, place |-> None])
     \/ \E x \in Places : Send([op |-> "attach", id |-> i, place |-> x])

Takes(op) ==
  /\ at = "idle" /\ queue # <<>> /\ Head(queue).op = op
  /\ message' = Head(queue)
  /\ queue' = Tail(queue)

Goes(from, to) ==
  /\ at = from
  /\ at' = to
  /\ UNCHANGED <<queue, message, volume, used>>

(* The handler has returned and the message is acknowledged.               *)
Acknowledge ==
  /\ at = "ack"
  /\ at' = "idle" /\ message' = None /\ volume' = None /\ device' = 0
  /\ UNCHANGED <<disk, queue, used, history>>

(* generate_uid: an id that no other volume has, no matter which.          *)
FreshId == CHOOSE i \in Ids : i \notin used

CreateLv(i) ==
  \/ lvs' = lvs \cup {i} /\ UNCHANGED failures
  \/ Fails /\ UNCHANGED lvs

CreateUncounted ==
  /\ Takes("create")
  /\ used # Ids
  /\ CreateLv(FreshId)
  /\ volume' = FreshId /\ at' = "export"
  /\ UNCHANGED <<used, exports, keeper, device, crashes, cut, wrapped, bare, unremoved>>

(* create_volume                                                           *)
Create ==
  /\ Takes("create")
  /\ used # Ids
  /\ used' = used \cup {FreshId}
  /\ CreateLv(FreshId)
  /\ volume' = FreshId /\ at' = "export"
  /\ UNCHANGED <<exports, keeper, device, crashes, cut, wrapped, bare, unremoved>>

(* _setup_export: a number that is exported already stays as it is.        *)
SetupExport ==
  /\ Goes("export", "save")
  /\ device' = NextAoe
  /\ \/ /\ exports[NextAoe] = None
        /\ exports' = [exports EXCEPT ![NextAoe] = volume]
        /\ UNCHANGED <<failures, bare>>
     \/ exports[NextAoe] # None /\ UNCHANGED <<exports, failures, bare>>
     \/ /\ Fails
        /\ bare' = bare \cup {NextAoe}
        /\ UNCHANGED exports
  /\ wrapped' = (wrapped \/ LastAoe = Top \/ NextAoe = Top)
  /\ UNCHANGED <<lvs, keeper, crashes, cut, unremoved>>

Saved ==
  [device |-> device, status |-> IF message.op = "attach" THEN "attached" ELSE "available",
   place |-> IF message.op = "attach" THEN message.place ELSE None]

Save ==
  /\ Goes("save", "ack")
  /\ keeper' = [keeper EXCEPT ![volume] = Saved]
  /\ UNCHANGED <<lvs, exports, device, history>>

LoadForgetting(op, step) ==
  /\ Takes(op)
  /\ LET i == Head(queue).id
     IN /\ keeper[i] \in Volumes
        /\ volume' = i
  /\ at' = step
  /\ UNCHANGED <<device, disk, used, history>>

(* get_volume, and the constructor that attach and detach call: without a  *)
(* record that parses, the handler raises and the message is acknowledged. *)
Load(op, step) ==
  /\ Takes(op)
  /\ LET i == Head(queue).id
     IN /\ keeper[i] \in Volumes
        /\ volume' = i
        /\ device' = keeper[i].device
  /\ at' = step
  /\ UNCHANGED <<disk, used, history>>

Attach == Load("attach", "save")
Detach == Load("detach", "save")
Delete == Load("delete", "unexport")

Refuse ==
  /\ at = "idle" /\ queue # <<>> /\ Head(queue).op # "create"
  /\ keeper[Head(queue).id] \notin Volumes
  /\ queue' = Tail(queue)
  /\ UNCHANGED <<disk, handler, used, history>>

(* delete: the export, the logical volume, the keeper file.  The commands  *)
(* take the second and the fourth character of e<shelf>.<blade>.           *)
RemoveExport ==
  /\ Goes("unexport", "lvremove")
  /\ \/ /\ exports' = IF device = Top THEN exports ELSE [exports EXCEPT ![device] = None]
        /\ UNCHANGED failures
     \/ /\ device # Top /\ Fails
        /\ UNCHANGED exports
  /\ UNCHANGED <<lvs, keeper, device, crashes, cut, wrapped, bare, unremoved>>

DeleteLv ==
  /\ Goes("lvremove", "forget")
  /\ \/ /\ lvs' = lvs \ {volume} /\ unremoved' = unremoved \ {volume}
        /\ UNCHANGED failures
     \/ /\ Fails
        /\ lvs' = lvs /\ unremoved' = unremoved \cup {volume}
  /\ UNCHANGED <<exports, keeper, device, crashes, cut, wrapped, bare>>

Forget ==
  /\ Goes("forget", "ack")
  /\ keeper' = [keeper EXCEPT ![volume] = None]
  /\ UNCHANGED <<lvs, exports, device, history>>

CrashForgetsMessage ==
  /\ message # None /\ crashes < MaxCrashes
  /\ message.op = "create" => Creates < Cardinality(Ids \ used)
  /\ crashes' = crashes + 1
  /\ keeper' \in {keeper} \cup
       (IF at = "save" THEN {[keeper EXCEPT ![volume] = Torn]} ELSE {})
  /\ message' = None /\ at' = "idle" /\ volume' = None /\ device' = 0
  /\ cut' = (cut \/ at \in {"lvremove", "forget"})
  /\ UNCHANGED <<lvs, exports, queue, used, failures, wrapped, bare, unremoved>>

(* The process dies before the acknowledgement and is started again: the   *)
(* broker puts the message back, in its place or at the end.  A keeper     *)
(* file is emptied first and written when it is closed.                    *)
Crash ==
  /\ message # None /\ crashes < MaxCrashes
  /\ message.op = "create" => Creates < Cardinality(Ids \ used)
  /\ crashes' = crashes + 1
  /\ keeper' \in {keeper} \cup
       (IF at = "save" THEN {[keeper EXCEPT ![volume] = Torn]} ELSE {})
  /\ queue' \in {<<message>> \o queue, Append(queue, message)}
  /\ message' = None /\ at' = "idle" /\ volume' = None /\ device' = 0
  /\ cut' = (cut \/ at \in {"lvremove", "forget"})
  /\ UNCHANGED <<lvs, exports, used, failures, wrapped, bare, unremoved>>

-----------------------------------------------------------------------------
Works ==
  \/ Create \/ SetupExport
  \/ Attach \/ Detach \/ Delete \/ Refuse
  \/ RemoveExport \/ DeleteLv \/ Forget
  \/ Acknowledge

Handle == Works \/ Save

Next ==
  \/ SendCreate \/ \E i \in Ids : SendOther(i)
  \/ Handle
  \/ Crash

Spec == Init /\ [][Next]_vars
FairSpec == Spec /\ WF_vars(Handle)

-----------------------------------------------------------------------------
(* Properties *)

Leaving(i) == at \in {"lvremove", "forget"} /\ volume = i

(* The device that a volume's record names exports that volume and no      *)
(* other one, through creations and attachments that the process did not   *)
(* survive and through removals of exports that failed; not after a delete *)
(* cut short, which frees the number before the record is gone, nor when   *)
(* the shelves of one digit are used up, nor for a device whose set-up     *)
(* failed: its record is saved all the same and the next volume is given   *)
(* the same number.                                                        *)
OwnDevice ==
  ~cut /\ ~wrapped =>
    \A i \in Ids :
      keeper[i] \in Volumes /\ ~Leaving(i) /\ keeper[i].device \notin bare =>
        exports[keeper[i].device] = i

(* Attaching and detaching never change where a volume is found.           *)
SameDevice ==
  [][\A i \in Ids : keeper[i] \in Volumes /\ keeper'[i] \in Volumes =>
       keeper'[i].device = keeper[i].device]_vars

(* The record is gone, and the logical volume unless its lvremove failed.  *)
Deleted(i) == keeper[i] = None /\ (i \notin lvs \/ i \in unremoved)

(* A delete that was sent is carried out, however often the process dies   *)
(* in the middle of it; a logical volume stays only when lvremove itself   *)
(* failed, which leaves it without a record that a later delete could name.*)
DeletesHappen ==
  \A i \in Ids :
    (\E k \in DOMAIN queue : queue[k].op = "delete" /\ queue[k].id = i
                               /\ keeper[i] \in Volumes)
      ~> Deleted(i) \/ keeper[i] = Torn
=============================================================================
