-------------------------- MODULE VolumeStore_proofs --------------------------
(***************************************************************************)
(* Proofs about VolumeStore and about its composition with the cloud       *)
(* controller.  The inductive invariant says what a handler knows of the   *)
(* record and of the export of the volume that it works on.                *)
(***************************************************************************)
EXTENDS CloudVolumes, WellFoundedInduction, SequenceTheorems, TLAPS

(* The steps of a handler belong to the message it handles.                *)
StepsOfMessage ==
  /\ at = "export" => message.op = "create"
  /\ at = "save" => message.op \in {"create", "attach", "detach"}
  /\ at \in {"unexport", "lvremove", "forget"} => message.op = "delete"

(* Ids that were not given out have no record, nor has a volume that is    *)
(* being created; otherwise the handler has its device from the record.    *)
RecordKnown ==
  /\ \A i \in Ids \ used : keeper[i] = None
  /\ at \in {"export", "save"} /\ message.op = "create" => keeper[volume] = None
  /\ at \notin {"idle", "ack"} /\ message.op # "create" =>
       keeper[volume] \in Volumes /\ keeper[volume].device = device

ExportKnown ==
  ~cut /\ ~wrapped /\ at = "save" /\ device \notin bare => exports[device] = volume

Known == TypeOK /\ OwnDevice /\ StepsOfMessage /\ RecordKnown /\ ExportKnown

-----------------------------------------------------------------------------
(* Numbers *)

LEMMA TopNat == Top \in Nat /\ Top >= 2 /\ 1 \in Devices
<1>1. Shelves * Blades >= 2
  BY VolumeParameters, Z3
<1> QED
  BY <1>1, VolumeParameters DEF Top, Devices

(* A set of devices that is not empty has a greatest element.              *)
LEMMA MaxOfDevices ==
  ASSUME NEW S, S \subseteq Devices, S # {}
  PROVE  Max(S) \in S /\ \A d \in S : Max(S) >= d
<1> DEFINE Below == {Top - d : d \in S}
<1>1. Below \subseteq Nat /\ Below # {}
  <2>1. \A d \in S : Top - d \in Nat
    BY TopNat DEF Devices
  <2> QED
    BY <2>1
<1>2. PICK m \in Below : \A b \in Below : ~ (<<b, m>> \in OpToRel(<, Nat))
  BY <1>1, NatLessThanWellFounded, WFMin
<1>3. \A b \in Below : ~ (b < m)
  BY <1>1, <1>2 DEF OpToRel
<1>4. PICK g \in S : m = Top - g
  OBVIOUS
<1>5. \A d \in S : g >= d
  <2> TAKE d \in S
  <2>1. ~ (Top - d < Top - g)
    BY <1>3, <1>4
  <2>2. Top \in Int /\ d \in Int /\ g \in Int
    BY <1>4, TopNat DEF Devices
  <2> HIDE DEF Below
  <2> QED
    BY <2>1, <2>2
<1> QED
  BY <1>5 DEF Max

(* The next number is a device; while no shelf has two digits, it is free. *)
LEMMA NextIsFree ==
  ASSUME TypeOK
  PROVE  /\ NextAoe \in Devices
         /\ LastAoe # Top /\ NextAoe # Top => exports[NextAoe] = None
<1> USE TopNat DEF Exported, Devices
<1>1. CASE Exported = {}
  <2>1. LastAoe = 0 /\ NextAoe = 1
    BY <1>1 DEF LastAoe, NextAoe
  <2> QED
    BY <1>1, <2>1
<1>2. CASE Exported # {} /\ LastAoe = Top
  BY <1>2 DEF NextAoe
<1>3. CASE Exported # {} /\ LastAoe # Top
  <2>1. LastAoe = Max(Exported \ {Top}) /\ Exported \ {Top} # {}
    BY <1>3 DEF LastAoe
  <2>2. LastAoe \in Exported \ {Top} /\ \A d \in Exported \ {Top} : LastAoe >= d
    BY <2>1, MaxOfDevices
  <2> HIDE DEF Exported
  <2>3. NextAoe = LastAoe + 1 /\ NextAoe \in Devices /\ NextAoe \notin Exported \ {Top}
    BY <1>3, <2>2 DEF NextAoe, Exported
  <2> QED
    BY <2>3 DEF Exported
<1> QED
  BY <1>1, <1>2, <1>3

LEMMA MessageFields ==
  ASSUME NEW m \in Messages
  PROVE  /\ m.op # "create" => m.id \in Ids /\ m.place \in Places \cup {None}
         /\ m.op \in {"create", "delete", "attach", "detach"}
BY DEF Messages, CreateMessage

LEMMA FailuresCounted == TypeOK /\ (Fails \/ UNCHANGED failures) => failures' \in 0..MaxFailures
BY VolumeParameters DEF TypeOK, Fails

LEMMA FreshIsNew == used # Ids /\ used \subseteq Ids => FreshId \in Ids \ used
BY DEF FreshId

-----------------------------------------------------------------------------
LEMMA KnownInitially == Init => Known
<1> SUFFICES ASSUME Init PROVE Known
  OBVIOUS
<1> USE VolumeNames DEF Init
<1>1. TypeOK
  <2>1. 0 \in Devices /\ 0 \in 0..MaxCrashes /\ 0 \in 0..MaxFailures
    BY TopNat, VolumeParameters DEF Devices
  <2> QED
    BY <2>1 DEF TypeOK, Steps
<1>2. OwnDevice /\ StepsOfMessage /\ RecordKnown /\ ExportKnown
  BY DEF OwnDevice, StepsOfMessage, RecordKnown, ExportKnown
<1> QED
  BY <1>1, <1>2 DEF Known

LEMMA KnownBySend ==
  ASSUME Known, NEW m \in Messages, Send(m)
  PROVE  Known'
<1>1. Append(queue, m) \in Seq(Messages)
  BY DEF Known, TypeOK
<1> QED
  BY <1>1 DEF Known, Send, disk, handler, history, TypeOK, OwnDevice, StepsOfMessage, RecordKnown,
    ExportKnown, Leaving

LEMMA KnownBySending ==
  ASSUME Known, SendCreate \/ \E i \in Ids : SendOther(i)
  PROVE  Known'
BY KnownBySend DEF SendCreate, SendOther, Messages

(* Taking a message leaves a queue of messages.                            *)
LEMMA TakingKeepsQueue ==
  ASSUME TypeOK, queue # <<>>
  PROVE  Head(queue) \in Messages /\ Tail(queue) \in Seq(Messages)
BY HeadTailProperties DEF TypeOK

LEMMA KnownByCreate ==
  ASSUME Known, Create
  PROVE  Known'
<1> USE VolumeNames, VolumeParameters DEF Create, Takes, Known, history
<1>1. FreshId \in Ids \ used /\ Head(queue) \in Messages /\ Tail(queue) \in Seq(Messages)
  BY FreshIsNew, TakingKeepsQueue DEF TypeOK
<1>2. TypeOK'
  <2>1. failures' \in 0..MaxFailures
    BY FailuresCounted DEF CreateLv
  <2>2. lvs' \subseteq used' /\ used' \subseteq Ids
    BY <1>1 DEF TypeOK, CreateLv
  <2> QED
    BY <1>1, <2>1, <2>2 DEF TypeOK, Steps
<1>3. OwnDevice'
  BY <1>1 DEF OwnDevice, Leaving
<1>4. StepsOfMessage'
  BY DEF StepsOfMessage
<1>5. RecordKnown'
  BY <1>1 DEF RecordKnown
<1>6. ExportKnown'
  BY DEF ExportKnown
<1> QED
  BY <1>1, <1>2, <1>3, <1>4, <1>5, <1>6

LEMMA KnownBySetupExport ==
  ASSUME Known, SetupExport
  PROVE  Known'
<1> USE VolumeNames, VolumeParameters DEF SetupExport, Goes, Known
<1>1. NextAoe \in Devices /\ (~wrapped' => exports[NextAoe] = None)
  BY NextIsFree DEF TypeOK
<1>2. TypeOK'
  <2>1. failures' \in 0..MaxFailures
    BY FailuresCounted
  <2>2. exports' \in [Devices -> used \cup {None}] /\ bare' \subseteq Devices
    BY <1>1 DEF TypeOK
  <2> QED
    BY <1>1, <2>1, <2>2 DEF TypeOK, Steps
<1>3. OwnDevice'
  BY <1>1 DEF TypeOK, OwnDevice, Leaving, Volumes
<1>4. StepsOfMessage'
  BY DEF StepsOfMessage
<1>5. RecordKnown'
  BY DEF RecordKnown, StepsOfMessage
<1>6. ExportKnown'
  BY <1>1 DEF TypeOK, ExportKnown
<1> QED
  BY <1>1, <1>2, <1>3, <1>4, <1>5, <1>6

LEMMA KnownBySave ==
  ASSUME Known, Save
  PROVE  Known'
<1> USE VolumeNames, VolumeParameters DEF Save, Goes, Known, history
<1>1. Saved \in Volumes /\ Saved.device = device /\ volume \in used
  <2>1. message \in Messages /\ volume \in used /\ device \in Devices
    BY DEF TypeOK
  <2>2. message.op = "attach" => message.place \in Places \cup {None}
    BY <2>1, MessageFields
  <2> QED
    BY <2>1, <2>2 DEF Saved, Volumes
<1>2. TypeOK'
  BY <1>1 DEF TypeOK, Steps, Devices, Top
<1>3. OwnDevice'
  BY <1>1 DEF TypeOK, OwnDevice, Leaving, ExportKnown
<1>4. StepsOfMessage'
  BY DEF StepsOfMessage
<1>5. RecordKnown'
  BY <1>1 DEF TypeOK, RecordKnown
<1>6. ExportKnown'
  BY DEF ExportKnown
<1> QED
  BY <1>1, <1>2, <1>3, <1>4, <1>5, <1>6

LEMMA KnownByLoad ==
  ASSUME Known, NEW op, NEW step,
         <<op, step>> \in {<<"attach", "save">>, <<"detach", "save">>, <<"delete", "unexport">>},
         Load(op, step)
  PROVE  Known'
<1> USE VolumeNames, VolumeParameters DEF Load, Takes, Known, disk, history
<1>1. Head(queue) \in Messages /\ Tail(queue) \in Seq(Messages)
  BY TakingKeepsQueue
<1>2. volume' \in used /\ device' \in Devices
  <2>1. Head(queue).id \in Ids
    BY <1>1, MessageFields
  <2>2. keeper[Head(queue).id] \in Volumes /\ keeper[Head(queue).id] # None
    OBVIOUS
  <2>3. Head(queue).id \in used
    BY <2>1, <2>2 DEF RecordKnown
  <2>4. keeper[Head(queue).id].device \in Devices
    BY <2>2 DEF Volumes
  <2> QED
    BY <2>3, <2>4
<1>3. TypeOK'
  BY <1>1, <1>2 DEF TypeOK, Steps
<1>4. OwnDevice'
  BY DEF OwnDevice, Leaving
<1>5. StepsOfMessage'
  BY DEF StepsOfMessage
<1>6. RecordKnown'
  BY <1>1, <1>2 DEF RecordKnown
<1>7. ExportKnown'
  BY <1>1, <1>2 DEF TypeOK, ExportKnown, OwnDevice, Leaving
<1> QED
  BY <1>1, <1>2, <1>3, <1>4, <1>5, <1>6, <1>7

LEMMA KnownByRefuse ==
  ASSUME Known, Refuse
  PROVE  Known'
<1> USE VolumeNames, VolumeParameters DEF Refuse, Known, disk, handler, history
<1>1. Tail(queue) \in Seq(Messages)
  BY TakingKeepsQueue
<1>2. TypeOK'
  BY <1>1 DEF TypeOK
<1>3. OwnDevice' /\ StepsOfMessage' /\ RecordKnown' /\ ExportKnown'
  BY DEF OwnDevice, StepsOfMessage, RecordKnown, ExportKnown, Leaving
<1> QED
  BY <1>1, <1>2, <1>3

LEMMA KnownByRemoveExport ==
  ASSUME Known, RemoveExport
  PROVE  Known'
<1> USE VolumeNames, VolumeParameters DEF RemoveExport, Goes, Known, history
<1>1. TypeOK'
  <2>1. failures' \in 0..MaxFailures
    BY FailuresCounted
  <2>2. exports' \in [Devices -> used \cup {None}]
    BY DEF TypeOK
  <2> QED
    BY <2>1, <2>2 DEF TypeOK, Steps
<1>2. OwnDevice'
  <2> SUFFICES ASSUME ~cut, ~wrapped, NEW i \in Ids, keeper[i] \in Volumes, i # volume,
                      keeper[i].device \notin bare
               PROVE  exports'[keeper[i].device] = i
    BY DEF OwnDevice, Leaving
  <2>1. exports[keeper[i].device] = i /\ keeper[i].device \in Devices
    BY DEF OwnDevice, Leaving, Volumes
  <2>2. keeper[volume] \in Volumes /\ keeper[volume].device = device /\ volume \in Ids
    BY DEF RecordKnown, StepsOfMessage, TypeOK
  <2>3. device = keeper[i].device => device \notin bare /\ exports[device] = volume
    BY <2>2 DEF OwnDevice, Leaving
  <2> QED
    BY <2>1, <2>3 DEF TypeOK
<1>3. StepsOfMessage'
  BY DEF StepsOfMessage
<1>4. RecordKnown'
  BY DEF RecordKnown, StepsOfMessage
<1>5. ExportKnown'
  BY DEF ExportKnown
<1> QED
  BY <1>1, <1>2, <1>3, <1>4, <1>5

LEMMA KnownByDeleteLv ==
  ASSUME Known, DeleteLv
  PROVE  Known'
<1> USE VolumeNames, VolumeParameters DEF DeleteLv, Goes, Known, history
<1>1. TypeOK'
  <2>1. failures' \in 0..MaxFailures
    BY FailuresCounted
  <2>2. lvs' \subseteq used /\ unremoved' \subseteq Ids
    BY DEF TypeOK
  <2> QED
    BY <2>1, <2>2 DEF TypeOK, Steps
<1>2. OwnDevice'
  BY DEF OwnDevice, Leaving
<1>3. StepsOfMessage'
  BY DEF StepsOfMessage
<1>4. RecordKnown'
  BY DEF RecordKnown, StepsOfMessage
<1>5. ExportKnown'
  BY DEF ExportKnown
<1> QED
  BY <1>1, <1>2, <1>3, <1>4, <1>5

LEMMA KnownByForget ==
  ASSUME Known, Forget
  PROVE  Known'
<1> USE VolumeNames, VolumeParameters DEF Forget, Goes, Known, history
<1>1. TypeOK'
  BY TopNat DEF TypeOK, Steps, Devices
<1>2. OwnDevice'
  BY DEF TypeOK, OwnDevice, Leaving
<1>3. StepsOfMessage'
  BY DEF StepsOfMessage
<1>4. RecordKnown'
  BY DEF TypeOK, RecordKnown
<1>5. ExportKnown'
  BY DEF ExportKnown
<1> QED
  BY <1>1, <1>2, <1>3, <1>4, <1>5

LEMMA KnownByAcknowledge ==
  ASSUME Known, Acknowledge
  PROVE  Known'
<1> USE VolumeNames, VolumeParameters DEF Acknowledge, Known, disk, history
<1>1. TypeOK'
  BY TopNat DEF TypeOK, Steps, Devices
<1>2. OwnDevice' /\ StepsOfMessage' /\ RecordKnown' /\ ExportKnown'
  BY DEF OwnDevice, StepsOfMessage, RecordKnown, ExportKnown, Leaving
<1> QED
  BY <1>1, <1>2

LEMMA KnownByCrash ==
  ASSUME Known, Crash
  PROVE  Known'
<1> USE VolumeNames, VolumeParameters DEF Crash, Known
<1>1. queue' \in Seq(Messages)
  <2>1. message \in Messages /\ queue \in Seq(Messages)
    BY DEF TypeOK
  <2>2. <<message>> \in Seq(Messages)
    BY <2>1
  <2>3. <<message>> \o queue \in Seq(Messages) /\ Append(queue, message) \in Seq(Messages)
    BY <2>1, <2>2, ConcatProperties
  <2> QED
    BY <2>3
<1>2. TypeOK'
  <2>1. keeper' \in [Ids -> Volumes \cup {None, Torn}]
    BY DEF TypeOK
  <2>2. /\ lvs' \subseteq used' /\ used' \subseteq Ids
        /\ exports' \in [Devices -> used' \cup {None}]
    BY DEF TypeOK
  <2>3. /\ crashes' \in 0..MaxCrashes /\ cut' \in BOOLEAN /\ wrapped' \in BOOLEAN
        /\ failures' \in 0..MaxFailures /\ bare' \subseteq Devices /\ unremoved' \subseteq Ids
    BY DEF TypeOK
  <2>4. device' \in Devices
    BY TopNat DEF Devices
  <2> QED
    BY ONLY <1>1, <2>1, <2>2, <2>3, <2>4, Crash DEF TypeOK, Crash, Steps
<1>3. OwnDevice'
  BY DEF TypeOK, OwnDevice, Leaving, StepsOfMessage
<1>4. StepsOfMessage'
  BY DEF StepsOfMessage
<1>5. RecordKnown'
  BY DEF TypeOK, RecordKnown
<1>6. ExportKnown'
  BY DEF ExportKnown
<1> QED
  BY <1>1, <1>2, <1>3, <1>4, <1>5, <1>6

LEMMA KnownByNext == Known /\ [Next]_vars => Known'
<1> SUFFICES ASSUME Known, [Next]_vars PROVE Known'
  OBVIOUS
<1>1. CASE SendCreate \/ \E i \in Ids : SendOther(i)
  BY <1>1, KnownBySending
<1>2. CASE Handle
  <2>1. CASE Attach \/ Detach \/ Delete
    BY <2>1, KnownByLoad DEF Attach, Detach, Delete
  <2>2. CASE Create \/ SetupExport \/ Save \/ Refuse
    BY <2>2, KnownByCreate, KnownBySetupExport, KnownBySave, KnownByRefuse
  <2>3. CASE RemoveExport \/ DeleteLv \/ Forget \/ Acknowledge
    BY <2>3, KnownByRemoveExport, KnownByDeleteLv, KnownByForget, KnownByAcknowledge
  <2> QED
    BY <1>2, <2>1, <2>2, <2>3 DEF Handle, Works
<1>3. CASE Crash
  BY <1>3, KnownByCrash
<1>4. CASE UNCHANGED vars
  BY <1>4 DEF Known, vars, disk, handler, history, TypeOK, OwnDevice, StepsOfMessage,
    RecordKnown, ExportKnown, Leaving
<1> QED
  BY <1>1, <1>2, <1>3, <1>4 DEF Next

LEMMA AlwaysKnown == Spec => []Known
BY KnownInitially, KnownByNext, PTL DEF Spec

(* Files, messages and handlers keep their types.                          *)
THEOREM VolumeTypeCorrect == Spec => []TypeOK
<1>1. Known => TypeOK
  BY DEF Known
<1> QED
  BY <1>1, AlwaysKnown, PTL

(* The number that get_next_aoe_numbers takes from the listing of the      *)
(* exports is always free, whatever was deleted in between and whichever   *)
(* removals of exports failed; only a set-up that itself fails leaves a    *)
(* record whose device is not its own.                                     *)
THEOREM DevicesAreOwn == Spec => []OwnDevice
<1>1. Known => OwnDevice
  BY DEF Known
<1> QED
  BY <1>1, AlwaysKnown, PTL

(* Whatever handlers run or die, a record keeps its device.                *)
THEOREM DevicesStay == Spec => SameDevice
<1> DEFINE Stays ==
      \A i \in Ids : keeper[i] \in Volumes /\ keeper'[i] \in Volumes =>
        keeper'[i].device = keeper[i].device
<1>1. Known /\ [Next]_vars => [Stays]_vars
  <2> SUFFICES ASSUME Known, Next PROVE Stays
    OBVIOUS
  <2> USE VolumeNames DEF Known
  <2>1. CASE Save
    <3>1. Saved.device = device
      BY DEF Saved
    <3> QED
      BY <2>1, <3>1 DEF Save, Goes, TypeOK, RecordKnown, StepsOfMessage
  <2>2. CASE Forget
    BY <2>2 DEF Forget, TypeOK
  <2>3. CASE Crash
    BY <2>3 DEF Crash, TypeOK
  <2>4. CASE UNCHANGED keeper
    BY <2>4
  <2> QED
    BY <2>1, <2>2, <2>3, <2>4 DEF Next, Handle, Works, Acknowledge, SendCreate, SendOther, Send, Create, SetupExport,
      Attach, Detach, Delete, Load, Refuse, RemoveExport, DeleteLv, disk
<1> QED
  BY <1>1, AlwaysKnown, PTL DEF Spec, SameDevice

-----------------------------------------------------------------------------
(* Deletes *)

(* A delete of a volume with a record waits or is being carried out.       *)
Removing == at \in {"unexport", "lvremove", "forget"}
Waits(i) == \E k \in 1..Len(queue) : queue[k].op = "delete" /\ queue[k].id = i
Deleting(i) == keeper[i] \in Volumes /\ (Waits(i) \/ (Removing /\ message.id = i))

Removed == volume \notin lvs \/ volume \in unremoved
RemovalKnown ==
  Known /\ (Removing => message.id = volume /\ (at = "forget" => Removed))

LEMMA RemovalKnownByNext == RemovalKnown /\ [Next]_vars => RemovalKnown'
<1> SUFFICES ASSUME RemovalKnown, [Next]_vars, Removing'
             PROVE  message'.id = volume' /\ (at' = "forget" => Removed')
  BY KnownByNext DEF RemovalKnown
<1> USE DEF RemovalKnown, Removing, Removed
<1>1. CASE Attach \/ Detach \/ Delete
  BY <1>1 DEF Attach, Detach, Delete, Load, Takes
<1>2. CASE RemoveExport \/ DeleteLv
  BY <1>2 DEF RemoveExport, DeleteLv, Goes
<1>3. CASE UNCHANGED <<message, at, volume, lvs, unremoved>>
  BY <1>3
<1>4. CASE Create \/ SetupExport \/ Save \/ Forget \/ Acknowledge \/ Crash
  BY <1>4 DEF Create, SetupExport, Save, Forget, Acknowledge, Crash, Goes
<1> QED
  BY <1>1, <1>2, <1>3, <1>4 DEF Next, Handle, Works, SendCreate, SendOther, Send, Refuse,
    disk, handler, history, vars

(* A message is taken from the queue that a waiting delete is not.         *)
LEMMA OthersWait ==
  ASSUME TypeOK, NEW i, Waits(i), queue # <<>>, queue' = Tail(queue),
         ~(Head(queue).op = "delete" /\ Head(queue).id = i)
  PROVE  Waits(i)'
<1>1. PICK k \in 1..Len(queue) : queue[k].op = "delete" /\ queue[k].id = i
  BY DEF Waits
<1>2. queue \in Seq(Messages) /\ Head(queue) = queue[1]
  BY DEF TypeOK
<1>3. k - 1 \in 1..Len(queue') /\ queue'[k - 1] = queue[k]
  BY <1>1, <1>2
<1> QED
  BY <1>1, <1>3 DEF Waits

(* A message that a dead process had, or one that is sent, goes to the end *)
(* or the head of the queue.                                               *)
LEMMA NoneLeaves ==
  ASSUME TypeOK, NEW m \in Messages, queue' \in {<<m>> \o queue, Append(queue, m)}, NEW i,
         Waits(i) \/ (m.op = "delete" /\ m.id = i)
  PROVE  Waits(i)'
<1>1. queue \in Seq(Messages) /\ Len(queue) \in Nat
  BY DEF TypeOK
<1>2. CASE queue' = <<m>> \o queue
  <2>1. /\ Len(queue') = Len(queue) + 1 /\ queue'[1] = m
        /\ \A k \in 1..Len(queue) : queue'[k + 1] = queue[k]
    BY ONLY <1>1, <1>2, m \in Messages
  <2>2. 1 \in 1..Len(queue') /\ \A k \in 1..Len(queue) : k + 1 \in 1..Len(queue')
    BY <1>1, <2>1
  <2> QED
    BY <2>1, <2>2 DEF Waits
<1>3. CASE queue' = Append(queue, m)
  <2>1. /\ Len(queue') = Len(queue) + 1 /\ queue'[Len(queue) + 1] = m
        /\ \A k \in 1..Len(queue) : queue'[k] = queue[k]
    BY ONLY <1>1, <1>3, m \in Messages
  <2>2. Len(queue) + 1 \in 1..Len(queue') /\ \A k \in 1..Len(queue) : k \in 1..Len(queue')
    BY <1>1, <2>1
  <2> QED
    BY <2>1, <2>2 DEF Waits
<1> QED
  BY <1>2, <1>3

LEMMA DeletingByNext ==
  ASSUME RemovalKnown, [Next]_vars, NEW i \in Ids, Deleting(i)
  PROVE  Deleting(i)' \/ keeper'[i] = Torn \/ Deleted(i)'
<1> USE DEF RemovalKnown, Known
<1>1. CASE Crash
  <2>1. keeper'[i] \in {keeper[i], Torn} /\ message \in Messages
    BY <1>1 DEF Crash, TypeOK
  <2>2. Waits(i) \/ (message.op = "delete" /\ message.id = i)
    BY DEF Deleting, Removing, StepsOfMessage
  <2>3. queue' \in {<<message>> \o queue, Append(queue, message)}
    BY <1>1 DEF Crash
  <2>4. Waits(i)'
    BY <2>1, <2>2, <2>3, NoneLeaves
  <2> QED
    BY <2>1, <2>4 DEF Deleting
<1>2. ASSUME NEW m \in Messages, Send(m)
      PROVE  Deleting(i)'
  <2>1. Waits(i) => Waits(i)'
    BY <1>2, NoneLeaves DEF Send
  <2> QED
    BY <1>2, <2>1 DEF Deleting, Removing, Send, disk, handler
<1>3. CASE Create \/ Refuse \/ Attach \/ Detach \/ Delete
  <2>1. at = "idle" /\ queue # <<>> /\ queue' = Tail(queue) /\ keeper' = keeper
    BY <1>3 DEF Create, Refuse, Attach, Detach, Delete, Load, Takes, disk
  <2>2. keeper[i] \in Volumes /\ Waits(i)
    BY <2>1 DEF Deleting, Removing
  <2>3. CASE Head(queue).op = "delete" /\ Head(queue).id = i
    <3>1. Delete
      BY <1>3, <2>2, <2>3 DEF Create, Refuse, Attach, Detach, Load, Takes
    <3> QED
      BY <2>1, <2>2, <2>3, <3>1 DEF Delete, Load, Takes, Deleting, Removing
  <2>4. CASE ~(Head(queue).op = "delete" /\ Head(queue).id = i)
    BY <2>1, <2>2, <2>4, OthersWait DEF Deleting
  <2> QED
    BY <2>3, <2>4
<1>4. CASE Forget
  <2>1. volume = i => Deleted(i)'
    BY <1>4 DEF Forget, Goes, Deleted, Removed, Removing, TypeOK, history
  <2>2. volume # i => Deleting(i)'
    <3>1. volume # i => keeper'[i] = keeper[i] /\ message.id # i
      BY <1>4 DEF Forget, Goes, Removing, TypeOK
    <3> QED
      BY <1>4, <3>1 DEF Forget, Goes, Deleting, Waits
  <2> QED
    BY <2>1, <2>2
<1>5. CASE Save
  <2>1. keeper'[i] = keeper[i] \/ keeper'[i] = Saved
    BY <1>5 DEF Save, TypeOK
  <2>2. \A m \in Messages : m.place \in Places \cup {None}
    BY DEF Messages, CreateMessage
  <2>3. Saved \in Volumes
    BY <1>5, <2>2 DEF Save, Goes, Saved, Volumes, TypeOK
  <2> QED
    BY <1>5, <2>1, <2>3 DEF Save, Goes, Deleting, Removing, Waits
<1>6. CASE SetupExport \/ RemoveExport \/ DeleteLv \/ Acknowledge \/ UNCHANGED vars
  <2>1. /\ UNCHANGED <<keeper, queue>>
        /\ Removing /\ ~Acknowledge => Removing' /\ message' = message
        /\ Acknowledge => ~Removing
    BY <1>6 DEF SetupExport, RemoveExport, DeleteLv, Acknowledge, Goes, Removing, disk, handler, vars
  <2> QED
    BY <2>1 DEF Deleting, Waits
<1>7. /\ CreateMessage \in Messages
      /\ \A x \in Places \cup {None} :
           /\ [op |-> "delete", id |-> i, place |-> x] \in Messages
           /\ [op |-> "detach", id |-> i, place |-> x] \in Messages
           /\ [op |-> "attach", id |-> i, place |-> x] \in Messages
  BY DEF Messages
<1>8. CASE SendCreate \/ \E j \in Ids : SendOther(j)
  <2>1. PICK m \in Messages : Send(m)
    BY <1>7, <1>8 DEF SendCreate, SendOther, Messages
  <2> QED
    BY <1>2, <2>1
<1> QED
  BY <1>1, <1>3, <1>4, <1>5, <1>6, <1>8 DEF Next, Handle, Works

(* A delete that was sent is neither forgotten nor refused while the volume*)
(* has its record: whatever else is asked for and however often the host   *)
(* dies, the step after which it is no longer under way is the one that    *)
(* removes the record, with the logical volume gone or its lvremove failed,*)
(* or a death that tears the record.                                       *)
THEOREM DeletesAreKept ==
  Spec => [][\A i \in Ids : Deleting(i) => Deleting(i)' \/ keeper'[i] = Torn \/ Deleted(i)']_vars
<1>1. Init => RemovalKnown
  BY KnownInitially DEF RemovalKnown, Removing, Init
<1>2. Spec => []RemovalKnown
  BY <1>1, RemovalKnownByNext, PTL DEF Spec
<1>3. ASSUME RemovalKnown, [Next]_vars
      PROVE  \A i \in Ids : Deleting(i) => Deleting(i)' \/ keeper'[i] = Torn \/ Deleted(i)'
  BY <1>3, DeletingByNext
<1> QED
  BY <1>2, <1>3, PTL DEF Spec

-----------------------------------------------------------------------------
(* The composition *)

(* The controller's messages are ones that VolumeStore expects: it knows   *)
(* of no volume that was not given out.                                    *)
Sees(seen, S) == \A i \in Ids : seen[i] # None => i \in S

CloudKnown ==
  /\ Known /\ CloudTypeOK
  /\ Sees(view, used) /\ \A k \in 1..Len(reports) : Sees(reports[k], used)

LEMMA CloudKnownInitially == CloudInit => CloudKnown
<1> SUFFICES ASSUME CloudInit PROVE CloudKnown
  OBVIOUS
<1>1. Known
  BY KnownInitially DEF CloudInit
<1>2. view \in Views /\ Sees(view, used)
  BY DEF CloudInit, Views, Sees
<1>3. strays \in 0..MaxStrays
  BY CloudVolumesParameters DEF CloudInit
<1> QED
  BY <1>1, <1>2, <1>3 DEF CloudInit, CloudKnown, CloudTypeOK, Known

(* Every step of the composition is one of the volume host, or none.       *)
LEMMA HostSteps ==
  ASSUME CloudKnown, [CloudNext]_cloudVars
  PROVE  [Next]_vars
<1>1. CASE UNCHANGED cloudVars
  BY <1>1 DEF cloudVars
<1>2. CASE CreateVolume
  BY <1>2 DEF CreateVolume, Next
<1>3. ASSUME NEW i \in Ids,
             DetachVolume(i) \/ DeleteVolume(i) \/ \E p \in Places : AttachVolume(i, p)
      PROVE  [Next]_vars
  <2>1. i \in used
    BY <1>3 DEF CloudKnown, Sees, DetachVolume, DeleteVolume, AttachVolume
  <2> QED
    BY <1>3, <2>1 DEF DetachVolume, DeleteVolume, AttachVolume, SendOther, Next
<1>4. ASSUME NEW x \in Instances, AttachDisk(x) \/ DetachDisk(x) \/ Terminate(x)
      PROVE  [Next]_vars
  BY <1>4 DEF AttachDisk, DetachDisk, Terminate, Runs
<1>5. CASE ReportState \/ UpdateState \/ CloudRestarts
  BY <1>5 DEF ReportState, UpdateState, CloudRestarts
<1>6. CASE HandleAndReport \/ CrashOfHost
  BY <1>6 DEF HandleAndReport, SaveAndReport, CrashOfHost, Handle, Next
<1> QED
  BY <1>1, <1>2, <1>3, <1>4, <1>5, <1>6 DEF CloudNext

LEMMA ReportsKnown ==
  ASSUME CloudKnown, Known', used \subseteq used', NEW seen \in Views, Sees(seen, used'),
         Reports(seen)
  PROVE  reports' \in Seq(Views) /\ \A k \in 1..Len(reports') : Sees(reports'[k], used')
<1>1. reports \in Seq(Views) /\ reports' = Append(reports, seen)
  BY DEF CloudKnown, CloudTypeOK, Reports
<1>2. ASSUME NEW k \in 1..Len(reports') PROVE Sees(reports'[k], used')
  <2>1. CASE k = Len(reports) + 1
    <3>1. reports'[k] = seen
      BY <1>1, <2>1
    <3> QED
      BY <3>1 DEF Sees
  <2>2. CASE k \in 1..Len(reports)
    <3>1. reports'[k] = reports[k]
      BY <1>1, <2>2
    <3> QED
      BY <2>2, <3>1 DEF Sees, CloudKnown
  <2> QED
    BY <1>1, <1>2, <2>1, <2>2
<1> QED
  BY <1>1, <1>2

LEMMA DescribedKnown == Known => Described \in Views /\ Sees(Described, used)
BY VolumeNames DEF Known, TypeOK, Described, Views, Sees

(* The host's steps take no id back.                                       *)
LEMMA UsedGrows == Known /\ [Next]_vars => used \subseteq used'
<1> SUFFICES ASSUME Known, [Next]_vars PROVE used \subseteq used'
  OBVIOUS
<1>1. CASE Create
  BY <1>1 DEF Create
<1>2. CASE UNCHANGED used
  BY <1>2
<1> QED
  BY <1>1, <1>2 DEF Next, Handle, Works, SendCreate, SendOther, Send, Create, SetupExport, Save,
    Attach, Detach, Delete, Load, Takes, Goes, Refuse, RemoveExport, DeleteLv, Forget, Acknowledge,
    Crash, vars, disk, handler, history

LEMMA CommandsTyped ==
  ASSUME CloudTypeOK, NEW x \in Instances, NEW c \in Commands, SendCommand(x, c)
  PROVE  commands' \in [Instances -> Seq(Commands)]
<1>1. Append(commands[x], c) \in Seq(Commands)
  BY DEF CloudTypeOK
<1> QED
  BY <1>1 DEF CloudTypeOK, SendCommand

LEMMA AsksTyped ==
  ASSUME CloudTypeOK, NEW i \in Ids, NEW place \in Places \cup {None, Gone}, NEW patient,
         Asks(i, place, patient)
  PROVE  wanted' \in [Ids -> Places \cup {None, Gone}] /\ strays' \in 0..MaxStrays
BY CloudVolumesParameters DEF CloudTypeOK, Asks

LEMMA CloudKnownByRequest ==
  ASSUME CloudKnown, Known', used \subseteq used', NEW i \in Ids,
         DetachVolume(i) \/ DeleteVolume(i) \/ \E p \in Places : AttachVolume(i, p)
  PROVE  CloudKnown'
<1> USE DEF CloudKnown
<1>1. view[i] \in Volumes
  BY DEF CloudTypeOK, Views, DetachVolume, DeleteVolume, AttachVolume
<1>2. view[i].place \in Places \cup {None} /\ view[i].device \in Devices
  BY <1>1 DEF Volumes
<1>3. \A p \in Places : p.instance \in Instances /\ p.mountpoint \in Mountpoints
  BY CloudVolumesParameters
<1>4. commands' \in [Instances -> Seq(Commands)]
  <2>1. CASE \E p \in Places : AttachVolume(i, p)
    <3>1. PICK p \in Places : AttachVolume(i, p)
      BY <2>1
    <3>2. [do |-> "attach", device |-> view[i].device, mountpoint |-> p.mountpoint] \in Commands
      BY <1>2, <1>3 DEF Commands
    <3> QED
      BY <1>3, <3>1, <3>2, CommandsTyped DEF AttachVolume
  <2>2. CASE DetachVolume(i)
    <3>1. CASE UNCHANGED commands
      BY <3>1 DEF CloudTypeOK
    <3>2. CASE /\ view[i].place # None
               /\ SendCommand(view[i].place.instance,
                    [do |-> "detach", mountpoint |-> view[i].place.mountpoint])
      <4>1. view[i].place \in Places
        BY <1>2, <3>2
      <4>2. [do |-> "detach", mountpoint |-> view[i].place.mountpoint] \in Commands
        BY <1>3, <4>1 DEF Commands
      <4> QED
        BY <1>3, <3>2, <4>1, <4>2, CommandsTyped
    <3> QED
      BY <2>2, <3>1, <3>2 DEF DetachVolume
  <2>3. CASE DeleteVolume(i)
    BY <2>3 DEF DeleteVolume, CloudTypeOK
  <2> QED
    BY <2>1, <2>2, <2>3
<1>5. wanted' \in [Ids -> Places \cup {None, Gone}] /\ strays' \in 0..MaxStrays
  BY AsksTyped DEF DetachVolume, DeleteVolume, AttachVolume
<1>6. UNCHANGED <<view, reports, disks, stuck, running>>
  BY DEF DetachVolume, DeleteVolume, AttachVolume
<1> QED
  BY <1>4, <1>5, <1>6 DEF CloudTypeOK, Known, Sees

LEMMA CloudKnownByNode ==
  ASSUME CloudKnown, Known', used \subseteq used', NEW x \in Instances,
         AttachDisk(x) \/ DetachDisk(x) \/ Terminate(x)
  PROVE  CloudKnown'
<1> USE DEF CloudKnown, CloudTypeOK
<1>1. UNCHANGED <<vars, view, reports, wanted, strays>>
  BY DEF AttachDisk, DetachDisk, Terminate, Runs
<1>2. CASE Terminate(x)
  BY <1>1, <1>2 DEF Terminate, Known, Sees
<1>3. CASE AttachDisk(x) \/ DetachDisk(x)
  <2>1. commands[x] \in Seq(Commands) /\ commands[x] # <<>>
    BY <1>3 DEF AttachDisk, DetachDisk, Runs
  <2>2. Head(commands[x]) \in Commands /\ Tail(commands[x]) \in Seq(Commands)
    BY <2>1, HeadTailProperties
  <2>3. commands' \in [Instances -> Seq(Commands)] /\ running' = running
    BY <1>3, <2>2 DEF AttachDisk, DetachDisk, Runs
  <2>4. disks' \subseteq Disks /\ \A d \in disks' : d.instance \in running
    <3>1. CASE AttachDisk(x)
      <4>1. Head(commands[x]).do = "attach" =>
              Head(commands[x]).device \in Devices /\ Head(commands[x]).mountpoint \in Mountpoints
        BY <2>2 DEF Commands
      <4>2. Head(commands[x]).do = "attach" => NameOf[Head(commands[x]).mountpoint] \in Names
        BY <4>1, CloudVolumesParameters
      <4> QED
        BY <3>1, <4>1, <4>2 DEF AttachDisk, Disks
    <3>2. CASE DetachDisk(x)
      BY <3>2 DEF DetachDisk
    <3> QED
      BY <1>3, <3>1, <3>2
  <2>5. stuck' \subseteq disks'
    <3>1. CASE AttachDisk(x)
      BY <3>1 DEF AttachDisk
    <3>2. CASE DetachDisk(x)
      BY <3>2 DEF DetachDisk
    <3> QED
      BY <1>3, <3>1, <3>2
  <2> QED
    BY <1>1, <2>3, <2>4, <2>5 DEF Known, Sees
<1> QED
  BY <1>2, <1>3

LEMMA CloudKnownByReport ==
  ASSUME CloudKnown, Known', used \subseteq used', ReportState \/ UpdateState \/ CloudRestarts
  PROVE  CloudKnown'
<1> USE DEF CloudKnown
<1>1. CASE ReportState
  <2>1. Described \in Views /\ Sees(Described, used')
    BY <1>1, DescribedKnown DEF ReportState, Sees, Described
  <2>2. reports' \in Seq(Views) /\ \A k \in 1..Len(reports') : Sees(reports'[k], used')
    BY <1>1, <2>1, ReportsKnown DEF ReportState
  <2> QED
    BY <1>1, <2>2 DEF ReportState, CloudTypeOK, Known, Sees
<1>2. CASE UpdateState
  <2>1. reports \in Seq(Views) /\ reports # <<>>
    BY <1>2 DEF UpdateState, CloudTypeOK
  <2>2. Head(reports) = reports[1] /\ 1 \in 1..Len(reports) /\ Head(reports) \in Views
    BY <2>1
  <2>3. /\ Tail(reports) \in Seq(Views)
        /\ \A k \in 1..Len(Tail(reports)) :
             k + 1 \in 1..Len(reports) /\ Tail(reports)[k] = reports[k + 1]
    BY <2>1
  <2>4. \A k \in 1..Len(reports') : Sees(reports'[k], used)
    BY <1>2, <2>3 DEF UpdateState
  <2>5. Sees(view', used)
    BY <1>2, <2>2 DEF UpdateState
  <2> QED
    BY <1>2, <2>2, <2>3, <2>4, <2>5 DEF UpdateState, CloudTypeOK, Known, Sees
<1>3. CASE CloudRestarts
  BY <1>3 DEF CloudRestarts, CloudTypeOK, Known, Sees, Views
<1> QED
  BY <1>1, <1>2, <1>3

LEMMA CloudKnownByHost ==
  ASSUME CloudKnown, Known', used \subseteq used', HandleAndReport \/ CrashOfHost
  PROVE  CloudKnown'
<1> USE DEF CloudKnown
<1>1. CASE Works /\ UNCHANGED cloud
  BY <1>1 DEF cloud, CloudTypeOK, Known, Sees
<1>2. CASE SaveAndReport
  <2>1. Described' \in Views /\ Sees(Described', used')
    <3>1. Known => Described \in Views /\ Sees(Described, used)
      BY DescribedKnown
    <3> QED
      BY VolumeNames DEF Known, TypeOK, Described, Views, Sees
  <2>2. reports' \in Seq(Views) /\ \A k \in 1..Len(reports') : Sees(reports'[k], used')
    <3>1. CASE UNCHANGED reports
      BY <3>1 DEF CloudTypeOK, Sees
    <3>2. CASE Reports(Described')
      <4>1. /\ reports' = Append(reports, Described') /\ reports \in Seq(Views)
        BY <3>2 DEF Reports, CloudTypeOK
      <4>2. \A k \in 1..Len(reports') :
              reports'[k] = Described' \/ (k \in 1..Len(reports) /\ reports'[k] = reports[k])
        BY <2>1, <4>1
      <4>3. \A k \in 1..Len(reports') : Sees(reports'[k], used')
        BY <2>1, <4>2 DEF Sees
      <4> QED
        BY <2>1, <4>1, <4>3
    <3> QED
      BY <1>2, <3>1, <3>2 DEF SaveAndReport
  <2> QED
    BY <1>2, <2>2 DEF SaveAndReport, CloudTypeOK, Known, Sees
<1>3. CASE CrashOfHost
  BY <1>3, CloudVolumesParameters DEF CrashOfHost, CloudTypeOK, Known, Sees
<1> QED
  BY <1>1, <1>2, <1>3 DEF HandleAndReport

LEMMA CloudKnownByNext == CloudKnown /\ [CloudNext]_cloudVars => CloudKnown'
<1> SUFFICES ASSUME CloudKnown, [CloudNext]_cloudVars PROVE CloudKnown'
  OBVIOUS
<1>1. [Next]_vars /\ Known' /\ used \subseteq used'
  BY HostSteps, KnownByNext, UsedGrows DEF CloudKnown
<1>2. CASE UNCHANGED cloudVars
  BY <1>1, <1>2 DEF cloudVars, cloud, CloudKnown, CloudTypeOK, Known, Sees
<1>3. CASE CreateVolume
  BY <1>1, <1>3 DEF CreateVolume, cloud, CloudKnown, CloudTypeOK, Known, Sees
<1> QED
  BY <1>1, <1>2, <1>3, CloudKnownByRequest, CloudKnownByNode, CloudKnownByReport, CloudKnownByHost
    DEF CloudNext

LEMMA AlwaysCloudKnown == CloudSpec => []CloudKnown
BY CloudKnownInitially, CloudKnownByNext, PTL DEF CloudSpec

(* Messages, reports and disks keep their types, and a disk is attached    *)
(* only where an instance runs.                                            *)
THEOREM CloudTypeCorrect == CloudSpec => []CloudTypeOK
<1>1. CloudKnown => CloudTypeOK
  BY DEF CloudKnown
<1> QED
  BY <1>1, AlwaysCloudKnown, PTL

(* Under the cloud controller the volume host does what VolumeStore says:  *)
(* what is proved of it alone holds of the composition.                    *)
THEOREM HostUnderCloud == CloudSpec => Spec
<1>1. CloudInit => Init
  BY DEF CloudInit
<1>2. CloudKnown /\ [CloudNext]_cloudVars => [Next]_vars
  BY HostSteps
<1> QED
  BY <1>1, <1>2, AlwaysCloudKnown, PTL DEF CloudSpec, Spec

(* A record's device exports its own volume, whatever the callers of the   *)
(* controller ask for.                                                     *)
THEOREM DevicesAreOwnUnderCloud == CloudSpec => []OwnDevice /\ SameDevice
BY HostUnderCloud, DevicesAreOwn, DevicesStay, PTL

-----------------------------------------------------------------------------
(* Disks of patient callers.  A volume that a caller has its request under *)
(* way for is, until the host saves it, in no report as it is wanted; then *)
(* every later report shows it so.                                         *)

(* What the controller's view is and what it will become.                  *)
Snapshot(k) == IF k = 0 THEN view ELSE reports[k]
Shows(k, i) == Snapshot(k)[i] # None /\ Snapshot(k)[i].place = wanted[i]

(* The requests for a volume: the one that the host works on is at 0.      *)
About(m, i) == m.op # "create" /\ m.id = i
Aim(m) == IF m.op = "attach" THEN m.place ELSE None
Request(k) == IF k = 0 THEN message ELSE queue[k]
At(k, i) ==
  IF k = 0 THEN at \notin {"idle", "ack"} /\ About(message, i) ELSE About(queue[k], i)
Pending(i) == \E k \in 0..Len(queue) : At(k, i)

Making(i) == at \in {"export", "save"} /\ message.op = "create" /\ volume = i
Heard(i) ==
  \/ wanted[i] # None \/ Pending(i)
  \/ \E k \in 0..Len(reports) : Snapshot(k)[i] # None
Agrees(i, dv) == keeper[i] \in Volumes => keeper[i].device = dv

WorksOnItsVolume == at \notin {"idle", "ack"} /\ message.op # "create" => message.id = volume
HeardOfMade == \A i \in Ids : Heard(i) => i \in used /\ ~Making(i)
HeardHasRecord == \A i \in Ids : Heard(i) /\ wanted[i] # Gone => keeper[i] # None
DevicesShown ==
  \A i \in Ids : \A k \in 0..Len(reports) :
    Snapshot(k)[i] # None => Agrees(i, Snapshot(k)[i].device)
OneRequest ==
  \A i \in Ids : \A k \in 0..Len(queue) : wanted[i] # Gone /\ At(k, i) =>
    /\ Request(k).op # "delete" /\ Aim(Request(k)) = wanted[i]
    /\ \A j \in 0..Len(queue) : At(j, i) => j = k
NotShownYet ==
  \A i \in Ids : wanted[i] # Gone /\ Pending(i) =>
    /\ keeper[i] \in Volumes => keeper[i].place # wanted[i]
    /\ \A k \in 0..Len(reports) : ~Shows(k, i)
DoneAsWanted ==
  \A i \in Ids : wanted[i] # Gone /\ ~Pending(i) /\ keeper[i] \in Volumes =>
    keeper[i].place = wanted[i]
ShownInOrder ==
  \A i \in Ids : wanted[i] # Gone =>
    \A j, k \in 0..Len(reports) : j < k /\ Shows(j, i) /\ Snapshot(k)[i] # None => Shows(k, i)

InStep ==
  /\ WorksOnItsVolume /\ HeardOfMade /\ HeardHasRecord /\ DevicesShown
  /\ OneRequest /\ NotShownYet /\ DoneAsWanted /\ ShownInOrder

(* A disk is one that a volume's caller wants, or a request to detach it   *)
(* is on its way to the node, or a request to detach it has failed; so for *)
(* a request to attach one.                                                *)
Owned(x, m, dv) ==
  \E i \in Ids : /\ wanted[i] \in Places
                 /\ wanted[i].instance = x /\ wanted[i].mountpoint = m /\ Agrees(i, dv)
Undone(x, m, k) ==
  \E j \in 1..Len(commands[x]) :
    j > k /\ commands[x][j].do = "detach" /\ commands[x][j].mountpoint = m
DisksOwned ==
  \A d \in disks \ stuck : Owned(d.instance, d.name, d.device) \/ Undone(d.instance, d.name, 0)
CommandsOwned ==
  \A x \in Instances : \A k \in 1..Len(commands[x]) :
    LET c == commands[x][k]
    IN c.do = "attach" =>
         /\ c.mountpoint \in Names
         /\ x \in running => Owned(x, c.mountpoint, c.device) \/ Undone(x, c.mountpoint, k)

Patient == CloudKnown /\ (strays = 0 => InStep /\ DisksOwned /\ CommandsOwned)

(* Unless a step appends a request, every request was there before it.     *)
RequestsMove(f) ==
  /\ \A k \in 0..Len(queue'), i \in Ids : At(k, i)' =>
       f[k] \in 0..Len(queue) /\ At(f[k], i) /\ Request(k)' = Request(f[k])
  /\ \A j, k \in 0..Len(queue') : f[j] = f[k] => j = k

(* The host changes a record to what is wanted, or loses it; it forgets    *)
(* the record only of a volume that is to go.                              *)
RecordsMove ==
  \A i \in Ids :
    /\ keeper'[i] \in Volumes =>
         \/ keeper'[i] = keeper[i]
         \/ wanted[i] # Gone => keeper'[i].place = wanted[i] /\ ~Pending(i)'
    /\ Pending(i) /\ ~Pending(i)' /\ wanted[i] # Gone /\ keeper'[i] \in Volumes =>
         keeper'[i].place = wanted[i]
    /\ keeper'[i] = None => keeper[i] = None \/ wanted[i] = Gone
    /\ Making(i)' => Making(i) \/ i \notin used
    /\ Heard(i) /\ keeper'[i] \in Volumes =>
         keeper[i] \in Volumes /\ keeper'[i].device = keeper[i].device

(* A report shows the records as they are.                                 *)
ReportsMove ==
  /\ Len(reports) <= Len(reports')
  /\ \A k \in 0..Len(reports) : Snapshot(k)' = Snapshot(k)
  /\ \A k \in 0..Len(reports') : k \notin 0..Len(reports) =>
       /\ k = Len(reports) + 1
       /\ \A i \in Ids : Snapshot(k)'[i] # None =>
            /\ i \in used' /\ ~Making(i)'
            /\ keeper'[i] \in Volumes /\ Snapshot(k)'[i] = keeper'[i]

LEMMA PendingMoves ==
  ASSUME NEW f, RequestsMove(f), NEW i \in Ids, Pending(i)'
  PROVE  Pending(i)
BY DEF RequestsMove, Pending

LEMMA HeardMoves ==
  ASSUME CloudKnown, wanted' = wanted, NEW f, RequestsMove(f), ReportsMove, NEW i \in Ids, Heard(i)'
  PROVE  \/ Heard(i)
         \/ i \in used' /\ ~Making(i)' /\ keeper'[i] \in Volumes
<1>1. CASE wanted'[i] # None \/ Pending(i)'
  BY <1>1, PendingMoves DEF Heard
<1>2. ASSUME NEW k \in 0..Len(reports'), Snapshot(k)'[i] # None
      PROVE  \/ Heard(i)
             \/ i \in used' /\ ~Making(i)' /\ keeper'[i] \in Volumes
  <2>1. CASE k \in 0..Len(reports)
    BY <1>2, <2>1 DEF ReportsMove, Heard
  <2>2. CASE k \notin 0..Len(reports)
    BY <1>2, <2>2 DEF ReportsMove
  <2> QED
    BY <2>1, <2>2
<1> QED
  BY <1>1, <1>2 DEF Heard

LEMMA HostInStep ==
  ASSUME CloudKnown, InStep, wanted' = wanted, used \subseteq used',
         NEW f, RequestsMove(f), RecordsMove, ReportsMove, WorksOnItsVolume'
  PROVE  InStep'
<1> USE DEF InStep
<1>a. Len(reports) \in Nat /\ Len(reports') \in Nat => 0..Len(reports) \subseteq 0..Len(reports')
  BY DEF ReportsMove
<1>b. None \notin Volumes
  BY VolumeNames
<1>1. HeardOfMade'
  <2> SUFFICES ASSUME NEW i \in Ids, Heard(i)' PROVE i \in used' /\ ~Making(i)'
    BY DEF HeardOfMade
  <2>1. CASE Heard(i)
    <3>1. i \in used /\ ~Making(i)
      BY <2>1 DEF HeardOfMade
    <3>2. ~Making(i)'
      BY <3>1 DEF RecordsMove
    <3> QED
      BY <3>1, <3>2
  <2> QED
    BY <2>1, HeardMoves
<1>2. HeardHasRecord'
  <2> SUFFICES ASSUME NEW i \in Ids, Heard(i)', wanted[i] # Gone PROVE keeper'[i] # None
    BY DEF HeardHasRecord
  <2>1. CASE Heard(i)
    BY <2>1 DEF HeardHasRecord, RecordsMove
  <2> QED
    BY <1>b, <2>1, HeardMoves
<1>3. DevicesShown'
  <2> SUFFICES ASSUME NEW i \in Ids, NEW k \in 0..Len(reports'), Snapshot(k)'[i] # None,
                      keeper'[i] \in Volumes
               PROVE  keeper'[i].device = Snapshot(k)'[i].device
    BY DEF DevicesShown, Agrees
  <2>1. CASE k \in 0..Len(reports)
    <3>1. Snapshot(k)[i] # None /\ Snapshot(k)' = Snapshot(k)
      BY <2>1 DEF ReportsMove
    <3>2. keeper[i] \in Volumes /\ keeper'[i].device = keeper[i].device
      BY <2>1, <3>1 DEF RecordsMove, Heard
    <3> QED
      BY <2>1, <3>1, <3>2 DEF DevicesShown, Agrees
  <2>2. CASE k \notin 0..Len(reports)
    BY <2>2 DEF ReportsMove
  <2> QED
    BY <2>1, <2>2
<1>4. OneRequest'
  <2> SUFFICES ASSUME NEW i \in Ids, NEW k \in 0..Len(queue'), wanted[i] # Gone, At(k, i)'
               PROVE  /\ Request(k)'.op # "delete" /\ Aim(Request(k))' = wanted[i]
                      /\ \A j \in 0..Len(queue') : At(j, i)' => j = k
    BY DEF OneRequest
  <2>1. f[k] \in 0..Len(queue) /\ At(f[k], i) /\ Request(k)' = Request(f[k])
    BY DEF RequestsMove
  <2>2. /\ Request(f[k]).op # "delete" /\ Aim(Request(f[k])) = wanted[i]
        /\ \A j \in 0..Len(queue) : At(j, i) => j = f[k]
    BY <2>1 DEF OneRequest
  <2>3. Aim(Request(k))' = Aim(Request(f[k]))
    BY <2>1 DEF Aim
  <2> QED
    BY <2>1, <2>2, <2>3 DEF RequestsMove
<1>5. NotShownYet'
  <2> SUFFICES ASSUME NEW i \in Ids, wanted[i] # Gone, Pending(i)'
               PROVE  /\ keeper'[i] \in Volumes => keeper'[i].place # wanted[i]
                      /\ \A k \in 0..Len(reports') : ~Shows(k, i)'
    BY DEF NotShownYet
  <2>1. /\ keeper[i] \in Volumes => keeper[i].place # wanted[i]
        /\ \A k \in 0..Len(reports) : ~Shows(k, i)
    BY PendingMoves DEF NotShownYet
  <2>2. keeper'[i] \in Volumes => keeper'[i].place # wanted[i]
    BY <2>1 DEF RecordsMove
  <2>3. ASSUME NEW k \in 0..Len(reports') PROVE ~Shows(k, i)'
    <3>1. CASE k \in 0..Len(reports)
      BY <2>1, <3>1 DEF ReportsMove, Shows
    <3>2. CASE k \notin 0..Len(reports)
      BY <2>2, <3>2 DEF ReportsMove, Shows
    <3> QED
      BY <3>1, <3>2
  <2> QED
    BY <2>2, <2>3
<1>6. DoneAsWanted'
  <2> SUFFICES ASSUME NEW i \in Ids, wanted[i] # Gone, ~Pending(i)', keeper'[i] \in Volumes
               PROVE  keeper'[i].place = wanted[i]
    BY DEF DoneAsWanted
  <2>1. CASE Pending(i)
    BY <2>1 DEF RecordsMove
  <2>2. CASE ~Pending(i)
    BY <2>2 DEF RecordsMove, DoneAsWanted
  <2> QED
    BY <2>1, <2>2
<1>7. ShownInOrder'
  <2> SUFFICES ASSUME NEW i \in Ids, wanted[i] # Gone,
                      NEW j \in 0..Len(reports'), NEW k \in 0..Len(reports'),
                      j < k, Shows(j, i)', Snapshot(k)'[i] # None
               PROVE  Shows(k, i)'
    BY DEF ShownInOrder
  <2>1. j \in 0..Len(reports) /\ Shows(j, i)
    <3>1. j \in 0..Len(reports)
      BY DEF ReportsMove, CloudKnown, CloudTypeOK
    <3> QED
      BY <3>1 DEF ReportsMove, Shows
  <2>2. CASE k \in 0..Len(reports)
    BY <2>1, <2>2 DEF ReportsMove, Shows, ShownInOrder
  <2>3. CASE k \notin 0..Len(reports)
    <3>1. keeper'[i] \in Volumes /\ Snapshot(k)'[i] = keeper'[i]
      BY <2>3 DEF ReportsMove
    <3>2. ~Pending(i) /\ ~Pending(i)'
      BY <2>1, PendingMoves DEF NotShownYet
    <3>3. keeper'[i].place = wanted[i]
      BY <1>6, <3>1, <3>2 DEF DoneAsWanted
    <3> QED
      BY <3>1, <3>3 DEF Shows
  <2> QED
    BY <2>2, <2>3
<1> QED
  BY <1>1, <1>2, <1>3, <1>4, <1>5, <1>6, <1>7

-----------------------------------------------------------------------------
(* The host's steps *)

LEMMA NothingReported ==
  ASSUME CloudKnown, UNCHANGED <<view, reports>>
  PROVE  ReportsMove
<1>1. Len(reports) \in Nat
  BY DEF CloudKnown, CloudTypeOK
<1>2. \A k \in 0..Len(reports) : Snapshot(k)' = Snapshot(k)
  BY DEF Snapshot
<1> QED
  BY <1>1, <1>2 DEF ReportsMove

(* Steps that neither take nor give back a message.                        *)
LEMMA RequestsStay ==
  ASSUME queue' = queue, \A i \in Ids : At(0, i)' => At(0, i) /\ message' = message
  PROVE  /\ RequestsMove([k \in 0..Len(queue) |-> k])
         /\ \A i \in Ids : Pending(i) => Pending(i)' \/ At(0, i)
<1>1. ASSUME NEW k \in 0..Len(queue), NEW i \in Ids, At(k, i)'
      PROVE  At(k, i) /\ Request(k)' = Request(k)
  BY <1>1 DEF At, Request
<1>2. ASSUME NEW k \in 0..Len(queue), NEW i \in Ids, At(k, i), k # 0
      PROVE  At(k, i)'
  BY <1>2 DEF At, About
<1> QED
  BY <1>1, <1>2 DEF RequestsMove, Pending

(* A message is taken from the head of the queue.                          *)
LEMMA RequestsAdvance ==
  ASSUME TypeOK, queue # <<>>, queue' = Tail(queue),
         \A i \in Ids : At(0, i)' => message' = Head(queue) /\ About(Head(queue), i)
  PROVE  /\ RequestsMove([k \in 0..Len(queue') |-> k + 1])
         /\ \A i \in Ids, k \in 2..Len(queue) : At(k, i) => Pending(i)'
<1>1. /\ queue \in Seq(Messages) /\ Len(queue) \in Nat /\ Len(queue') = Len(queue) - 1
      /\ Head(queue) = queue[1] /\ 1 \in 1..Len(queue)
      /\ \A k \in 1..Len(queue') : queue'[k] = queue[k + 1]
  BY DEF TypeOK
<1>2. \A k \in 0..Len(queue'), i \in Ids : At(k, i)' =>
        k + 1 \in 0..Len(queue) /\ At(k + 1, i) /\ Request(k)' = Request(k + 1)
  <2> TAKE k \in 0..Len(queue'), i \in Ids
  <2>1. CASE k = 0
    BY <1>1, <2>1 DEF At, Request
  <2>2. CASE k # 0
    BY <1>1, <2>2 DEF At, Request, About
  <2> QED
    BY <2>1, <2>2
<1>3. ASSUME NEW i \in Ids, NEW k \in 2..Len(queue), At(k, i)
      PROVE  Pending(i)'
  <2>1. k - 1 \in 1..Len(queue') /\ queue'[k - 1] = queue[k]
    BY <1>1
  <2>2. At(k - 1, i)'
    BY <1>1, <1>3, <2>1 DEF At, About
  <2> QED
    BY <2>1, <2>2 DEF Pending
<1> QED
  BY <1>1, <1>2, <1>3 DEF RequestsMove

(* The message of a process that died goes back, to the head or the end.   *)
LEMMA RequestsReturn ==
  ASSUME TypeOK, message' = None, at' = "idle", at \notin {"idle", "ack"},
         queue' \in {<<message>> \o queue, Append(queue, message)}
  PROVE  /\ \E f : RequestsMove(f)
         /\ \A i \in Ids : Pending(i) => Pending(i)'
<1>1. PICK n \in Nat : n = Len(queue)
  BY DEF TypeOK
<1>2. \A i \in Ids : ~At(0, i)'
  BY DEF At
<1>3. message \in Messages /\ queue \in Seq(Messages)
  BY DEF TypeOK
<1>4. CASE queue' = <<message>> \o queue
  <2>1. /\ Len(queue') = n + 1 /\ queue'[1] = message
        /\ \A k \in 1..n : queue'[k + 1] = queue[k]
        /\ \A k \in 1..(n + 1) : k # 1 => queue'[k] = queue[k - 1]
    BY ONLY <1>1, <1>3, <1>4
  <2> DEFINE f == [k \in 0..(n + 1) |-> k - 1]
  <2>2. ASSUME NEW k \in 0..(n + 1), NEW i \in Ids, At(k, i)'
        PROVE  f[k] \in 0..n /\ At(f[k], i) /\ Request(k)' = Request(f[k])
    <3>1. k # 0
      BY <1>2, <2>2
    <3>2. CASE k = 1
      BY <2>1, <2>2, <3>2 DEF At, Request, About
    <3>3. CASE k # 1
      BY <2>1, <2>2, <3>1, <3>3 DEF At, Request, About
    <3> QED
      BY <3>2, <3>3
  <2>3. \A j, k \in 0..(n + 1) : f[j] = f[k] => j = k
    OBVIOUS
  <2>4. RequestsMove(f)
    BY ONLY <1>1, <2>1, <2>2, <2>3 DEF RequestsMove
  <2>5. ASSUME NEW i \in Ids, NEW k \in 0..n, At(k, i)
        PROVE  Pending(i)'
    <3>1. PICK j \in 0..(n + 1) : j = k + 1
      OBVIOUS
    <3>2. At(j, i)'
      BY <2>1, <2>5, <3>1 DEF At, About
    <3> QED
      BY <2>1, <3>2 DEF Pending
  <2> QED
    BY <1>1, <2>4, <2>5 DEF Pending
<1>5. CASE queue' = Append(queue, message)
  <2>1. /\ Len(queue') = n + 1 /\ queue'[n + 1] = message
        /\ \A k \in 1..n : queue'[k] = queue[k]
    BY ONLY <1>1, <1>3, <1>5
  <2> DEFINE f == [k \in 0..(n + 1) |-> IF k = 0 THEN -1 ELSE IF k = n + 1 THEN 0 ELSE k]
  <2>2. ASSUME NEW k \in 0..(n + 1), NEW i \in Ids, At(k, i)'
        PROVE  f[k] \in 0..n /\ At(f[k], i) /\ Request(k)' = Request(f[k])
    <3>1. k # 0
      BY <1>2, <2>2
    <3>2. CASE k = n + 1
      BY <2>1, <2>2, <3>1, <3>2 DEF At, Request, About
    <3>3. CASE k \in 1..n
      BY <2>1, <2>2, <3>3 DEF At, Request, About
    <3> QED
      BY <3>1, <3>2, <3>3
  <2>3. \A j, k \in 0..(n + 1) : f[j] = f[k] => j = k
    OBVIOUS
  <2>4. RequestsMove(f)
    BY ONLY <1>1, <2>1, <2>2, <2>3 DEF RequestsMove
  <2>5. ASSUME NEW i \in Ids, NEW k \in 0..n, At(k, i)
        PROVE  Pending(i)'
    <3>1. PICK j \in 1..(n + 1) : j = IF k = 0 THEN n + 1 ELSE k
      OBVIOUS
    <3>2. At(j, i)'
      BY <2>1, <2>5, <3>1 DEF At, About
    <3> QED
      BY <2>1, <3>2 DEF Pending
  <2> QED
    BY <1>1, <2>4, <2>5 DEF Pending
<1> QED
  BY <1>4, <1>5

(* A step that changes no record, and ends the work on a request only when *)
(* there is no record.                                                     *)
LEMMA RecordsStay ==
  ASSUME keeper' = keeper,
         \A i \in Ids : Pending(i) => Pending(i)' \/ keeper[i] \notin Volumes,
         \A i \in Ids : Making(i)' => Making(i) \/ i \notin used
  PROVE  RecordsMove
BY DEF RecordsMove

(* A report of the records as they are, when none is being made.           *)
LEMMA RecordsReported ==
  ASSUME CloudKnown, Known', view' = view, at' \in {"idle", "ack"}, Reports(Described')
  PROVE  ReportsMove
<1>1. PICK n \in Nat : n = Len(reports)
  BY DEF CloudKnown, CloudTypeOK
<1>2. /\ Len(reports') = n + 1 /\ reports'[n + 1] = Described'
      /\ \A k \in 1..n : reports'[k] = reports[k]
  BY ONLY <1>1, CloudKnown, Reports(Described') DEF CloudKnown, CloudTypeOK, Reports
<1>3. \A k \in 0..n : Snapshot(k)' = Snapshot(k)
  BY <1>2 DEF Snapshot
<1>4. Snapshot(n + 1)' = Described'
  <2>1. PICK k \in Nat : k = n + 1
    OBVIOUS
  <2> QED
    BY <1>2, <2>1 DEF Snapshot
<1>5. ASSUME NEW i \in Ids, Described'[i] # None
      PROVE  /\ i \in used' /\ ~Making(i)'
             /\ keeper'[i] \in Volumes /\ Described'[i] = keeper'[i]
  <2>1. i \in lvs' /\ keeper'[i] \in Volumes /\ Described'[i] = keeper'[i]
    BY <1>5 DEF Described
  <2> QED
    BY <2>1 DEF Known, TypeOK, Making
<1> QED
  BY <1>1, <1>2, <1>3, <1>4, <1>5 DEF ReportsMove

LEMMA InStepByTaking ==
  ASSUME CloudKnown, InStep, Known', UNCHANGED <<view, reports, wanted>>,
         \/ Create \/ Refuse
         \/ \E op \in {"attach", "detach", "delete"}, step \in Steps \ {"idle", "export", "ack"} :
              Load(op, step)
  PROVE  InStep'
<1> USE DEF CloudKnown, Known
<1>1. /\ at = "idle" /\ queue # <<>> /\ queue' = Tail(queue) /\ keeper' = keeper
      /\ Head(queue) = queue[1] /\ Len(queue) \in Nat /\ Head(queue) \in Messages
  BY DEF Create, Refuse, Load, Takes, disk, TypeOK
<1>2. \A i \in Ids : At(0, i)' => message' = Head(queue) /\ About(Head(queue), i)
  BY <1>1 DEF At, Create, Refuse, Load, Takes, handler
<1>3. /\ RequestsMove([k \in 0..Len(queue') |-> k + 1])
      /\ \A i \in Ids, k \in 2..Len(queue) : At(k, i) => Pending(i)'
  BY <1>1, <1>2, RequestsAdvance
<1>4. ASSUME NEW i \in Ids, Pending(i), ~Pending(i)'
      PROVE  keeper[i] \notin Volumes
  <2>1. About(Head(queue), i)
    BY <1>1, <1>3, <1>4 DEF Pending, At
  <2>2. ~At(0, i)'
    BY <1>4 DEF Pending, TypeOK
  <2>3. CASE Refuse
    BY <2>1, <2>3 DEF Refuse, About
  <2>4. CASE ~Refuse
    BY <2>1, <2>2, <2>4 DEF At, About, Create, Load, Takes
  <2> QED
    BY <2>3, <2>4
<1>5. ASSUME NEW i \in Ids, Making(i)' PROVE i \notin used
  <2>1. Create
    BY <1>1, <1>5 DEF Making, Refuse, Load, Takes, handler
  <2> QED
    BY <1>5, <2>1 DEF Making, Create, FreshId, TypeOK
<1>6. WorksOnItsVolume'
  BY <1>1 DEF WorksOnItsVolume, Create, Refuse, Load, Takes, handler
<1>7. used \subseteq used'
  BY DEF Create, Refuse, Load
<1> QED
  BY <1>1, <1>3, <1>4, <1>5, <1>6, <1>7, RecordsStay, NothingReported, HostInStep

LEMMA InStepByWorking ==
  ASSUME CloudKnown, InStep, Known', UNCHANGED <<view, reports, wanted>>,
         SetupExport \/ RemoveExport \/ DeleteLv \/ Forget \/ Acknowledge
  PROVE  InStep'
<1> USE DEF CloudKnown, Known
<1>1. queue' = queue /\ used' = used
  BY DEF SetupExport, RemoveExport, DeleteLv, Forget, Acknowledge, Goes
<1>2. \A i \in Ids : At(0, i)' => At(0, i) /\ message' = message
  BY DEF At, About, SetupExport, RemoveExport, DeleteLv, Forget, Acknowledge, Goes
<1>3. /\ RequestsMove([k \in 0..Len(queue) |-> k])
      /\ \A i \in Ids : Pending(i) => Pending(i)' \/ At(0, i)
  BY <1>1, <1>2, RequestsStay
<1>4. WorksOnItsVolume'
  BY DEF InStep, WorksOnItsVolume, SetupExport, RemoveExport, DeleteLv, Forget, Acknowledge, Goes
<1>5. \A i \in Ids : Making(i)' => Making(i)
  BY DEF Making, SetupExport, RemoveExport, DeleteLv, Forget, Acknowledge, Goes
<1>6. RecordsMove
  <2>1. CASE Forget
    <3>1. at = "forget" /\ message.op = "delete" /\ keeper' = [keeper EXCEPT ![volume] = None]
      BY <2>1 DEF Forget, Goes, StepsOfMessage
    <3>2. message.id = volume /\ volume \in Ids
      BY <3>1 DEF InStep, WorksOnItsVolume, TypeOK
    <3>3. keeper'[volume] = None /\ \A i \in Ids \ {volume} : keeper'[i] = keeper[i]
      BY <3>1, <3>2 DEF TypeOK
    <3>4. At(0, volume) /\ \A i \in Ids : At(0, i) => i = volume
      BY <3>1, <3>2 DEF At, About
    <3>5. wanted[volume] = Gone
      BY <3>1, <3>2, <3>4 DEF InStep, OneRequest, Request, TypeOK
    <3>6. None \notin Volumes
      BY VolumeNames
    <3> QED
      BY <1>3, <1>5, <3>3, <3>4, <3>5, <3>6 DEF RecordsMove
  <2>2. CASE ~Forget
    <3>1. keeper' = keeper
      BY <2>2 DEF SetupExport, RemoveExport, DeleteLv, Acknowledge, disk
    <3>2. ASSUME NEW i \in Ids, Pending(i) PROVE Pending(i)'
      <4>1. CASE At(0, i)
        <5>1. At(0, i)'
          BY <2>2, <4>1 DEF At, About, SetupExport, RemoveExport, DeleteLv, Acknowledge, Goes
        <5> QED
          BY <5>1 DEF Pending, TypeOK
      <4> QED
        BY <1>3, <3>2, <4>1
    <3> QED
      BY <1>5, <3>1, <3>2, RecordsStay
  <2> QED
    BY <2>1, <2>2
<1> QED
  BY <1>1, <1>3, <1>4, <1>6, NothingReported, HostInStep

LEMMA InStepBySave ==
  ASSUME CloudKnown, InStep, Known', SaveAndReport
  PROVE  InStep'
<1> USE DEF CloudKnown, Known
<1>1. /\ at = "save" /\ at' = "ack" /\ keeper' = [keeper EXCEPT ![volume] = Saved]
      /\ UNCHANGED <<queue, message, volume, used, view, wanted>>
      /\ volume \in Ids /\ message \in Messages
  BY DEF SaveAndReport, Save, Goes, TypeOK
<1>2. /\ RequestsMove([k \in 0..Len(queue) |-> k])
      /\ \A i \in Ids : Pending(i) => Pending(i)' \/ At(0, i)
  <2>1. \A i \in Ids : ~At(0, i)'
    BY <1>1 DEF At
  <2> QED
    BY <1>1, <2>1, RequestsStay
<1>3. Saved \in Volumes /\ None \notin Volumes
  <2>1. \A m \in Messages : m.place \in Places \cup {None}
    BY DEF Messages, CreateMessage
  <2> QED
    BY <1>1, <2>1, VolumeNames DEF Saved, Volumes, TypeOK
<1>4. keeper'[volume] = Saved /\ \A i \in Ids \ {volume} : keeper'[i] = keeper[i]
  BY <1>1 DEF TypeOK
<1>5. \A i \in Ids : ~Making(i)'
  BY <1>1 DEF Making
<1>6. CASE message.op = "create"
  <2>1. UNCHANGED <<view, reports>>
    BY <1>1, <1>6 DEF SaveAndReport
  <2>2. Making(volume) /\ \A i \in Ids : ~At(0, i)
    BY <1>1, <1>6 DEF Making, At, About
  <2>3. ~Heard(volume)
    BY <1>1, <2>2 DEF InStep, HeardOfMade
  <2>4. wanted[volume] = None /\ ~Pending(volume) /\ ~Pending(volume)'
    BY <1>1, <1>2, <2>3, PendingMoves DEF Heard
  <2>5. Saved.place = None
    BY <1>6 DEF Saved
  <2>6. RecordsMove
    BY <1>2, <1>3, <1>4, <1>5, <2>2, <2>3, <2>4, <2>5 DEF RecordsMove
  <2>7. WorksOnItsVolume'
    BY <1>1 DEF WorksOnItsVolume
  <2> QED
    BY <1>1, <1>2, <2>1, <2>6, <2>7, NothingReported, HostInStep
<1>7. CASE message.op # "create"
  <2>1. ReportsMove
    BY <1>1, <1>7, RecordsReported DEF SaveAndReport
  <2>2. message.id = volume /\ message.op \in {"attach", "detach"}
    BY <1>1, <1>7 DEF InStep, WorksOnItsVolume, StepsOfMessage
  <2>3. At(0, volume) /\ \A i \in Ids : At(0, i) => i = volume
    BY <1>1, <1>7, <2>2 DEF At, About
  <2>4. Saved.place = Aim(message) /\ Saved.device = device
    BY DEF Saved, Aim
  <2>5. wanted[volume] # Gone => Aim(message) = wanted[volume] /\ ~Pending(volume)'
    <3>1. SUFFICES ASSUME wanted[volume] # Gone
                   PROVE  Aim(message) = wanted[volume] /\ ~Pending(volume)'
      OBVIOUS
    <3>2. /\ Aim(Request(0)) = wanted[volume]
          /\ \A j \in 0..Len(queue) : At(j, volume) => j = 0
      BY <1>1, <2>3, <3>1 DEF InStep, OneRequest, TypeOK
    <3>3. ASSUME NEW j \in 0..Len(queue'), At(j, volume)' PROVE FALSE
      <4>1. j # 0
        BY <1>1, <3>3 DEF At
      <4>2. At(j, volume)
        BY <1>1, <3>3, <4>1 DEF At, About
      <4> QED
        BY <1>1, <3>2, <4>1, <4>2
    <3> QED
      BY <3>2, <3>3 DEF Request, Pending
  <2>6. keeper[volume] \in Volumes /\ keeper[volume].device = device
    BY <1>1, <1>7 DEF RecordKnown
  <2>7. RecordsMove
    <3>1. \A i \in Ids : keeper'[i] \in Volumes =>
            \/ keeper'[i] = keeper[i]
            \/ wanted[i] # Gone => keeper'[i].place = wanted[i] /\ ~Pending(i)'
      BY <1>1, <1>4, <2>4, <2>5
    <3>2. \A i \in Ids : Pending(i) /\ ~Pending(i)' /\ wanted[i] # Gone =>
            keeper'[i].place = wanted[i]
      BY <1>1, <1>2, <1>4, <2>3, <2>4, <2>5
    <3>3. \A i \in Ids : keeper'[i] = None => keeper[i] = None
      BY <1>3, <1>4
    <3>4. \A i \in Ids : keeper'[i] \in Volumes =>
            i = volume \/ (keeper[i] \in Volumes /\ keeper'[i].device = keeper[i].device)
      BY <1>4
    <3> QED
      BY <1>4, <1>5, <2>4, <2>6, <3>1, <3>2, <3>3, <3>4 DEF RecordsMove
  <2>8. WorksOnItsVolume'
    BY <1>1 DEF WorksOnItsVolume
  <2> QED
    BY <1>1, <1>2, <2>1, <2>7, <2>8, HostInStep
<1> QED
  BY <1>6, <1>7

LEMMA InStepByCrash ==
  ASSUME CloudKnown, InStep, Known', Crash, at # "ack", UNCHANGED <<view, reports, wanted>>
  PROVE  InStep'
<1> USE DEF CloudKnown, Known
<1>1. /\ at \notin {"idle", "ack"} /\ at' = "idle" /\ message' = None /\ used' = used
      /\ queue' \in {<<message>> \o queue, Append(queue, message)}
  BY DEF Crash, TypeOK
<1>2. /\ \E f : RequestsMove(f)
      /\ \A i \in Ids : Pending(i) => Pending(i)'
  BY <1>1, RequestsReturn
<1>3. \A i \in Ids : keeper'[i] \in {keeper[i], Torn}
  BY DEF Crash, TypeOK
<1>4. RecordsMove
  BY <1>1, <1>2, <1>3, VolumeNames DEF RecordsMove, Making
<1>5. WorksOnItsVolume'
  BY <1>1 DEF WorksOnItsVolume
<1> QED
  BY <1>1, <1>2, <1>4, <1>5, NothingReported, HostInStep

LEMMA InStepByCreateVolume ==
  ASSUME CloudKnown, InStep, CreateVolume
  PROVE  InStep'
<1> USE DEF CloudKnown, Known
<1>1. PICK n \in Nat : n = Len(queue)
  BY DEF TypeOK
<1>2. /\ queue' = Append(queue, CreateMessage)
      /\ UNCHANGED <<disk, handler, used, view, reports, wanted>>
  BY DEF CreateVolume, SendCreate, Send, cloud
<1>3. /\ Len(queue') = n + 1 /\ queue'[n + 1] = CreateMessage
      /\ \A k \in 1..n : queue'[k] = queue[k]
  BY <1>1, <1>2 DEF TypeOK
<1>4. ASSUME NEW k \in 0..(n + 1), NEW i \in Ids, At(k, i)'
      PROVE  k \in 0..n /\ At(k, i) /\ Request(k)' = Request(k)
  <2>1. k # n + 1
    BY <1>3, <1>4 DEF At, About, CreateMessage
  <2> QED
    BY <1>2, <1>3, <1>4, <2>1 DEF At, About, Request, handler
<1>5. RequestsMove([k \in 0..(n + 1) |-> k])
  BY <1>1, <1>3, <1>4 DEF RequestsMove
<1>6. ASSUME NEW i \in Ids, NEW k \in 0..n, At(k, i) PROVE At(k, i)'
  BY <1>2, <1>3, <1>6 DEF At, About, handler
<1>7. RecordsMove
  BY <1>1, <1>2, <1>3, <1>6, RecordsStay DEF disk, handler, Pending, Making
<1>8. WorksOnItsVolume'
  BY <1>2 DEF InStep, WorksOnItsVolume, handler
<1> QED
  BY <1>2, <1>5, <1>7, <1>8, NothingReported, HostInStep

LEMMA InStepByReport ==
  ASSUME CloudKnown, InStep, UNCHANGED <<vars, view, wanted>>,
         \/ UNCHANGED reports
         \/ at = "idle" /\ Reports(Described)
  PROVE  InStep'
<1> USE DEF CloudKnown, Known
<1>1. UNCHANGED <<disk, handler, used, queue>>
  BY DEF vars
<1>2. /\ RequestsMove([k \in 0..Len(queue) |-> k])
      /\ \A i \in Ids : Pending(i) => Pending(i)'
  <2>1. \A i \in Ids : At(0, i)' <=> At(0, i)
    BY <1>1 DEF At, About, handler
  <2>2. ASSUME NEW i \in Ids, At(0, i) PROVE Pending(i)'
    BY <1>1, <2>1, <2>2 DEF Pending, TypeOK
  <2> QED
    BY <1>1, <2>1, <2>2, RequestsStay DEF handler
<1>3. RecordsMove
  BY <1>1, <1>2, RecordsStay DEF disk, handler, Making
<1>4. ReportsMove
  <2>1. CASE UNCHANGED reports
    BY <2>1, NothingReported
  <2>2. CASE at = "idle" /\ Reports(Described)
    <3>1. Known' /\ Described' = Described
      BY DEF vars, disk, handler, history, Known, TypeOK, OwnDevice, Leaving, StepsOfMessage,
        RecordKnown, ExportKnown, Described
    <3> QED
      BY <1>1, <2>2, <3>1, RecordsReported DEF handler
  <2> QED
    BY <2>1, <2>2
<1>5. WorksOnItsVolume'
  BY <1>1 DEF InStep, WorksOnItsVolume, handler
<1> QED
  BY <1>1, <1>2, <1>3, <1>4, <1>5, HostInStep

-----------------------------------------------------------------------------
(* The controller's steps *)

LEMMA InStepByView ==
  ASSUME CloudKnown, InStep, UpdateState \/ CloudRestarts
  PROVE  InStep'
<1> USE DEF CloudKnown, CloudTypeOK
<1>1. PICK n \in Nat : n = Len(reports)
  OBVIOUS
<1>2. UNCHANGED <<disk, queue, handler, used, wanted>>
  BY DEF UpdateState, CloudRestarts, vars
<1>3. PICK n1 \in Nat : n1 = Len(reports')
  BY DEF UpdateState, CloudRestarts
<1>4. PICK g \in [0..n1 -> 0..n] :
        /\ \A k \in 0..n1, i \in Ids : Snapshot(k)'[i] # None => Snapshot(k)' = Snapshot(g[k])
        /\ \A j, k \in 0..n1 : j < k => g[j] < g[k]
  <2>1. CASE UpdateState
    <3>1. /\ n - 1 \in Nat /\ n - 1 = Len(reports') /\ view' = reports[1]
          /\ \A k \in 1..(n - 1) : reports'[k] = reports[k + 1]
      BY ONLY <1>1, <2>1, CloudKnown DEF CloudKnown, CloudTypeOK, UpdateState
    <3>2. \A k \in 0..(n - 1) : Snapshot(k)' = Snapshot(k + 1)
      BY <3>1 DEF Snapshot
    <3> DEFINE g == [k \in 0..(n - 1) |-> k + 1]
    <3>3. g \in [0..(n - 1) -> 0..n] /\ \A j, k \in 0..(n - 1) : j < k => g[j] < g[k]
      OBVIOUS
    <3>4. \A k \in 0..(n - 1) : Snapshot(k)' = Snapshot(g[k])
      BY <3>2
    <3> HIDE DEF g
    <3> QED
      BY <1>3, <3>1, <3>3, <3>4
  <2>2. CASE CloudRestarts
    <3>1. /\ n = Len(reports') /\ \A i \in Ids : Snapshot(0)'[i] = None
          /\ \A k \in 1..n : Snapshot(k)' = Snapshot(k)
      BY <1>1, <2>2 DEF CloudRestarts, Snapshot
    <3> DEFINE g == [k \in 0..n |-> k]
    <3>2. g \in [0..n -> 0..n] /\ \A j, k \in 0..n : j < k => g[j] < g[k]
      OBVIOUS
    <3>3. \A k \in 0..n, i \in Ids : Snapshot(k)'[i] # None => Snapshot(k)' = Snapshot(g[k])
      BY <3>1
    <3> HIDE DEF g
    <3> QED
      BY <1>3, <3>1, <3>2, <3>3
  <2> QED
    BY <2>1, <2>2
<1>5. /\ \A k \in 0..Len(queue), i \in Ids : At(k, i)' <=> At(k, i)
      /\ \A k \in 0..Len(queue) : Request(k)' = Request(k)
  BY <1>2 DEF At, Request, About, handler
<1>6. \A i \in Ids : (Pending(i)' <=> Pending(i)) /\ (Making(i)' <=> Making(i))
  BY <1>2, <1>5 DEF Pending, Making, handler
<1>7. \A i \in Ids : Heard(i)' => Heard(i)
  BY <1>1, <1>2, <1>3, <1>4, <1>6 DEF Heard
<1>8. \A k \in 0..n1, i \in Ids : Shows(k, i)' => Shows(g[k], i)
  BY <1>2, <1>4 DEF Shows
<1>9. WorksOnItsVolume' /\ HeardOfMade' /\ HeardHasRecord' /\ DoneAsWanted'
  BY <1>2, <1>6, <1>7
    DEF InStep, WorksOnItsVolume, HeardOfMade, HeardHasRecord, DoneAsWanted, disk, handler
<1>10. DevicesShown' /\ NotShownYet' /\ ShownInOrder'
  <2>1. DevicesShown'
    BY <1>1, <1>2, <1>3, <1>4 DEF InStep, DevicesShown, Agrees, disk
  <2>2. NotShownYet'
    BY <1>1, <1>2, <1>3, <1>4, <1>6, <1>8 DEF InStep, NotShownYet, disk
  <2>3. ShownInOrder'
    <3> SUFFICES ASSUME NEW i \in Ids, wanted[i] # Gone, NEW j \in 0..n1, NEW k \in 0..n1,
                        j < k, Shows(j, i)', Snapshot(k)'[i] # None
                 PROVE  Shows(k, i)'
      BY <1>2, <1>3 DEF ShownInOrder
    <3>1. /\ g[j] \in 0..n /\ g[k] \in 0..n /\ g[j] < g[k]
          /\ Shows(g[j], i) /\ Snapshot(g[k])[i] # None /\ Snapshot(k)' = Snapshot(g[k])
      BY <1>4, <1>8
    <3>2. Shows(g[k], i)
      BY <1>1, <3>1 DEF InStep, ShownInOrder
    <3> QED
      BY <1>2, <3>1, <3>2 DEF Shows
  <2> QED
    BY <2>1, <2>2, <2>3
<1>11. OneRequest'
  BY <1>2, <1>5 DEF InStep, OneRequest, Aim
<1> QED
  BY <1>9, <1>10, <1>11 DEF InStep

(* A caller sees that the last thing it asked for is done, and asks for    *)
(* the next one.                                                           *)
LEMMA InStepByRequest ==
  ASSUME CloudKnown, InStep, NEW i \in Ids, NEW m, NEW place, About(m, i), Send(m), view[i] # None,
         wanted' = [wanted EXCEPT ![i] = place], UNCHANGED <<view, reports>>,
         place = Gone \/ /\ m.op # "delete" /\ Aim(m) = place
                         /\ wanted[i] = view[i].place /\ wanted[i] # place /\ wanted[i] # Gone
  PROVE  InStep'
<1> USE DEF CloudKnown, Known
<1>1. PICK n \in Nat : n = Len(queue)
  BY DEF TypeOK
<1>2. /\ queue' = Append(queue, m) /\ queue \in Seq(Messages)
      /\ UNCHANGED <<disk, handler, used>>
      /\ wanted'[i] = place /\ \A j \in Ids \ {i} : wanted'[j] = wanted[j]
  BY DEF Send, TypeOK, CloudTypeOK
<1>3. /\ Len(queue') = n + 1 /\ queue'[n + 1] = m
      /\ \A k \in 1..n : queue'[k] = queue[k]
  BY <1>1, <1>2
<1>4. /\ \A k \in 0..n, j \in Ids : At(k, j)' <=> At(k, j)
      /\ \A k \in 0..n : Request(k)' = Request(k)
  BY <1>2, <1>3 DEF At, About, Request, handler
<1>5. \A j \in Ids \ {i} : ~About(m, j)
  BY DEF About
<1>6. \A k \in 0..(n + 1) : k \notin 0..n =>
        Request(k)' = m /\ \A j \in Ids \ {i} : ~At(k, j)'
  BY <1>3, <1>5 DEF At, About, Request
<1>7. \A j \in Ids \ {i} : Pending(j)' <=> Pending(j)
  BY <1>1, <1>3, <1>4, <1>6 DEF Pending
<1>8. Pending(i)'
  <2>1. PICK k \in 1..(n + 1) : k = n + 1
    OBVIOUS
  <2>2. At(k, i)'
    BY <1>3, <2>1 DEF At, About
  <2> QED
    BY <1>3, <2>2 DEF Pending
<1>9. /\ \A k \in 0..Len(reports) : Snapshot(k)' = Snapshot(k)
      /\ \A j \in Ids : Making(j)' <=> Making(j)
      /\ \A j \in Ids, k \in 0..Len(reports) : j # i => (Shows(k, j)' <=> Shows(k, j))
  BY <1>2 DEF Snapshot, Making, Shows, handler
<1>10. \A j \in Ids : Heard(j)' => Heard(j)
  <2>1. 0 \in 0..Len(reports) /\ Snapshot(0) = view
    BY DEF CloudTypeOK, Snapshot
  <2>2. Heard(i)
    BY <2>1 DEF Heard
  <2> QED
    BY <1>2, <1>7, <1>9, <2>2 DEF Heard
<1>11. ASSUME place # Gone
       PROVE  /\ wanted[i] # Gone /\ ~Pending(i) /\ \A k \in 0..Len(reports) : ~Shows(k, i)'
              /\ keeper[i] \in Volumes => keeper[i].place # place
  <2>1. 0 \in 0..Len(reports) /\ Shows(0, i) /\ wanted[i] # Gone
    BY <1>11 DEF CloudTypeOK, Snapshot, Shows
  <2>2. ~Pending(i)
    BY <2>1 DEF InStep, NotShownYet
  <2>3. ASSUME NEW k \in 0..Len(reports), Snapshot(k)[i] # None PROVE Shows(k, i)
    BY <2>1, <2>3 DEF InStep, ShownInOrder
  <2>4. keeper[i] \in Volumes => keeper[i].place = wanted[i]
    BY <2>1, <2>2 DEF InStep, DoneAsWanted
  <2> QED
    BY <1>2, <1>9, <1>11, <2>1, <2>2, <2>3, <2>4 DEF Shows
<1>12. WorksOnItsVolume' /\ HeardOfMade' /\ HeardHasRecord' /\ DevicesShown'
  <2>1. WorksOnItsVolume' /\ HeardOfMade'
    BY <1>2, <1>9, <1>10 DEF InStep, WorksOnItsVolume, HeardOfMade, handler
  <2>2. HeardHasRecord'
    BY <1>2, <1>10, <1>11 DEF InStep, HeardHasRecord, disk
  <2>3. DevicesShown'
    BY <1>2, <1>9 DEF InStep, DevicesShown, Agrees, disk
  <2> QED
    BY <2>1, <2>2, <2>3
<1>13. OneRequest'
  <2> SUFFICES ASSUME NEW j \in Ids, NEW k \in 0..(n + 1), wanted'[j] # Gone, At(k, j)'
               PROVE  /\ Request(k)'.op # "delete" /\ Aim(Request(k))' = wanted'[j]
                      /\ \A l \in 0..(n + 1) : At(l, j)' => l = k
    BY <1>3 DEF OneRequest
  <2>1. Aim(Request(k))' = Aim(Request(k)')
    BY DEF Aim
  <2>2. CASE j = i
    <3>1. k = n + 1 /\ \A l \in 0..(n + 1) : At(l, i)' => l = n + 1
      BY <1>1, <1>2, <1>4, <1>11, <2>2 DEF Pending
    <3> QED
      BY <1>2, <1>6, <2>1, <2>2, <3>1
  <2>3. CASE j # i
    <3>1. /\ k \in 0..n /\ At(k, j) /\ Request(k)' = Request(k) /\ wanted'[j] = wanted[j]
          /\ \A l \in 0..(n + 1) : At(l, j)' => l \in 0..n /\ At(l, j)
      BY <1>2, <1>4, <1>6, <2>3
    <3> QED
      BY ONLY <1>1, <2>1, <3>1, InStep, wanted'[j] # Gone DEF InStep, OneRequest
  <2> QED
    BY <2>2, <2>3
<1>14. NotShownYet' /\ DoneAsWanted' /\ ShownInOrder'
  <2>1. NotShownYet'
    BY <1>2, <1>7, <1>9, <1>11 DEF InStep, NotShownYet, disk
  <2>2. DoneAsWanted'
    BY <1>2, <1>7, <1>8 DEF InStep, DoneAsWanted, disk
  <2>3. ShownInOrder'
    BY <1>2, <1>9, <1>11 DEF InStep, ShownInOrder
  <2> QED
    BY <2>1, <2>2, <2>3
<1> QED
  BY <1>12, <1>13, <1>14 DEF InStep

LEMMA AsksPatiently ==
  ASSUME NEW i, NEW place, NEW patient, Asks(i, place, patient), strays = 0, strays' = 0
  PROVE  patient /\ wanted' = [wanted EXCEPT ![i] = place]
BY DEF Asks

LEMMA StraysStay ==
  ASSUME CloudTypeOK, [CloudNext]_cloudVars, strays' = 0
  PROVE  strays = 0
<1>1. strays \in Nat
  BY CloudVolumesParameters DEF CloudTypeOK
<1>2. ASSUME NEW i, NEW place, NEW patient, Asks(i, place, patient) PROVE strays = 0
  BY <1>1, <1>2 DEF Asks
<1>3. CASE UNCHANGED strays
  BY <1>3
<1>4. CASE CrashOfHost
  BY <1>1, <1>4 DEF CrashOfHost
<1>5. ASSUME NEW i \in Ids, DetachVolume(i) \/ DeleteVolume(i) \/ \E p \in Places : AttachVolume(i, p)
      PROVE  strays = 0
  BY <1>2, <1>5 DEF DetachVolume, DeleteVolume, AttachVolume
<1>6. ASSUME NEW x \in Instances, AttachDisk(x) \/ DetachDisk(x) \/ Terminate(x)
      PROVE  UNCHANGED strays
  BY <1>6 DEF AttachDisk, DetachDisk, Terminate, Runs
<1> QED
  BY <1>3, <1>4, <1>5, <1>6 DEF CloudNext, cloudVars, cloud, CreateVolume, ReportState, UpdateState,
    CloudRestarts, HandleAndReport, SaveAndReport

LEMMA InStepByHost ==
  ASSUME CloudKnown, InStep, Known', HandleAndReport \/ CrashOfHost, strays = 0, strays' = 0
  PROVE  InStep'
<1>1. CASE Works /\ UNCHANGED cloud
  <2>1. UNCHANGED <<view, reports, wanted>>
    BY <1>1 DEF cloud
  <2>2. CASE Create \/ Refuse \/ Attach \/ Detach \/ Delete
    BY <2>1, <2>2, InStepByTaking DEF Attach, Detach, Delete, Steps
  <2>3. CASE SetupExport \/ RemoveExport \/ DeleteLv \/ Forget \/ Acknowledge
    BY <2>1, <2>3, InStepByWorking
  <2> QED
    BY <1>1, <2>2, <2>3 DEF Works
<1>2. CASE SaveAndReport
  BY <1>2, InStepBySave
<1>3. CASE CrashOfHost
  <2>1. Crash /\ at # "ack" /\ UNCHANGED <<view, reports, wanted>>
    BY <1>3 DEF CrashOfHost
  <2> QED
    BY <2>1, InStepByCrash
<1> QED
  BY <1>1, <1>2, <1>3 DEF HandleAndReport

LEMMA InStepByCaller ==
  ASSUME CloudKnown, InStep, NEW i \in Ids, strays = 0, strays' = 0,
         DetachVolume(i) \/ DeleteVolume(i) \/ \E p \in Places : AttachVolume(i, p)
  PROVE  InStep'
<1>1. view[i] # None /\ UNCHANGED <<view, reports>>
  BY DEF DetachVolume, DeleteVolume, AttachVolume
<1>2. \A p \in Places \cup {None} : p # Gone
  BY CloudVolumesParameters
<1>3. view[i].place \in Places \cup {None}
  BY <1>1 DEF CloudKnown, CloudTypeOK, Views, Volumes
<1>4. CASE \E p \in Places : AttachVolume(i, p)
  <2>1. PICK p \in Places : AttachVolume(i, p)
    BY <1>4
  <2> DEFINE m == [op |-> "attach", id |-> i, place |-> p]
  <2>2. Send(m) /\ About(m, i) /\ m.op # "delete" /\ Aim(m) = p
    BY <2>1 DEF AttachVolume, About, Aim
  <2>3. /\ wanted' = [wanted EXCEPT ![i] = p]
        /\ view[i].place = None /\ wanted[i] = None
    BY <2>1, AsksPatiently DEF AttachVolume
  <2>4. p # None
    BY VolumeNames
  <2> HIDE DEF m
  <2> QED
    BY <1>1, <1>2, <2>2, <2>3, <2>4, InStepByRequest
<1>5. CASE DetachVolume(i)
  <2> DEFINE m == [op |-> "detach", id |-> i, place |-> None]
  <2>1. Send(m) /\ About(m, i) /\ m.op # "delete" /\ Aim(m) = None
    BY <1>5 DEF DetachVolume, About, Aim
  <2>2. /\ wanted' = [wanted EXCEPT ![i] = None]
        /\ view[i].place # None /\ wanted[i] = view[i].place
    BY <1>5, AsksPatiently DEF DetachVolume
  <2> HIDE DEF m
  <2> QED
    BY <1>1, <1>2, <1>3, <2>1, <2>2, InStepByRequest
<1>6. CASE DeleteVolume(i)
  <2> DEFINE m == [op |-> "delete", id |-> i, place |-> None]
  <2>1. Send(m) /\ About(m, i)
    BY <1>6 DEF DeleteVolume, About
  <2>2. wanted' = [wanted EXCEPT ![i] = Gone]
    BY <1>6, AsksPatiently DEF DeleteVolume
  <2> HIDE DEF m
  <2> QED
    BY <1>1, <2>1, <2>2, InStepByRequest
<1> QED
  BY <1>4, <1>5, <1>6

LEMMA InStepByNext ==
  ASSUME CloudKnown, [CloudNext]_cloudVars, InStep, strays = 0, strays' = 0
  PROVE  InStep'
<1>1. Known'
  BY HostSteps, KnownByNext DEF CloudKnown
<1>2. ASSUME NEW x \in Instances, AttachDisk(x) \/ DetachDisk(x) \/ Terminate(x)
      PROVE  InStep'
  BY <1>2, InStepByReport DEF AttachDisk, DetachDisk, Terminate, Runs
<1>3. CASE UNCHANGED cloudVars \/ ReportState
  BY <1>3, InStepByReport DEF cloudVars, cloud, ReportState
<1> QED
  BY <1>1, <1>2, <1>3, InStepByCreateVolume, InStepByCaller, InStepByView, InStepByHost DEF CloudNext

-----------------------------------------------------------------------------
(* The nodes *)

(* A volume that was heard of has its device for good.                     *)
LEMMA AgreesStays ==
  ASSUME CloudKnown, InStep, [Next]_vars, NEW i \in Ids, wanted[i] # None, NEW dv, Agrees(i, dv)
  PROVE  Agrees(i, dv)'
<1> SUFFICES ASSUME keeper'[i] \in Volumes PROVE keeper'[i].device = dv
  BY DEF Agrees
<1>1. CASE keeper'[i] = keeper[i]
  BY <1>1 DEF Agrees
<1>2. CASE Save /\ volume = i
  <2>1. at = "save" /\ keeper'[i].device = device
    BY <1>2 DEF Save, Goes, Saved, CloudKnown, Known, TypeOK
  <2>2. message.op # "create"
    BY <1>2, <2>1 DEF InStep, HeardOfMade, Heard, Making
  <2>3. keeper[i] \in Volumes /\ keeper[i].device = device
    BY <1>2, <2>1, <2>2 DEF CloudKnown, Known, RecordKnown
  <2> QED
    BY <2>1, <2>3 DEF Agrees
<1>3. CASE Save /\ volume # i
  BY <1>1, <1>3 DEF Save, CloudKnown, Known, TypeOK
<1>4. CASE Forget
  BY <1>1, <1>4, VolumeNames DEF Forget, CloudKnown, Known, TypeOK
<1>5. CASE Crash
  BY <1>1, <1>5, VolumeNames DEF Crash, CloudKnown, Known, TypeOK
<1>6. CASE UNCHANGED keeper
  BY <1>1, <1>6
<1> QED
  BY <1>2, <1>3, <1>4, <1>5, <1>6 DEF Next, Handle, Works, Acknowledge, SendCreate, SendOther, Send,
    Create, SetupExport, Attach, Detach, Delete, Load, Refuse, RemoveExport, DeleteLv, disk, vars

LEMMA OwnedStays ==
  ASSUME CloudKnown, InStep, [Next]_vars, NEW x, NEW m, NEW dv, Owned(x, m, dv),
         \A i \in Ids : /\ wanted[i] \in Places
                        /\ wanted[i].instance = x /\ wanted[i].mountpoint = m
                        => wanted'[i] = wanted[i]
  PROVE  Owned(x, m, dv)'
<1>1. PICK i \in Ids : /\ wanted[i] \in Places /\ wanted'[i] = wanted[i]
                       /\ wanted[i].instance = x /\ wanted[i].mountpoint = m /\ Agrees(i, dv)
  BY DEF Owned
<1>2. wanted[i] # None
  BY <1>1, VolumeNames
<1>3. Agrees(i, dv)'
  BY <1>1, <1>2, AgreesStays
<1> QED
  BY <1>1, <1>3 DEF Owned

(* Nothing is sent to the nodes, and no volume loses its place.            *)
LEMMA NodesStay ==
  ASSUME CloudKnown, InStep, DisksOwned, CommandsOwned, [Next]_vars,
         disks' \ stuck' \subseteq disks \ stuck, running' \subseteq running, UNCHANGED commands,
         \A i \in Ids : wanted[i] \in Places => wanted'[i] = wanted[i]
  PROVE  DisksOwned' /\ CommandsOwned'
<1>1. \A x, m, dv : Owned(x, m, dv) => Owned(x, m, dv)'
  BY OwnedStays
<1>2. \A x, m, k : Undone(x, m, k) => Undone(x, m, k)'
  BY DEF Undone
<1>3. DisksOwned'
  BY <1>1, <1>2 DEF DisksOwned
<1>4. CommandsOwned'
  <2> SUFFICES ASSUME NEW x \in Instances, NEW k \in 1..Len(commands[x]), NEW c,
                      c = commands[x][k], c.do = "attach"
               PROVE  /\ c.mountpoint \in Names
                      /\ x \in running' =>
                           Owned(x, c.mountpoint, c.device)' \/ Undone(x, c.mountpoint, k)'
    BY DEF CommandsOwned
  <2> QED
    BY <1>1, <1>2 DEF CommandsOwned
<1> QED
  BY <1>3, <1>4

(* A command is sent to a node: one that attaches a disk which a caller    *)
(* wants, or one that detaches the disks that no caller wants any more.    *)
LEMMA NodesSent ==
  ASSUME CloudKnown, DisksOwned, CommandsOwned, NEW x \in Instances, NEW c \in Commands,
         SendCommand(x, c), UNCHANGED <<disks, stuck, running>>,
         c.do = "attach" => c.mountpoint \in Names /\ Owned(x, c.mountpoint, c.device)',
         \A y \in running : \A m, dv : Owned(y, m, dv) =>
           Owned(y, m, dv)' \/ (c.do = "detach" /\ y = x /\ m = c.mountpoint)
  PROVE  DisksOwned' /\ CommandsOwned'
<1> USE DEF CloudKnown, CloudTypeOK
<1>1. PICK n \in Nat : n = Len(commands[x])
  OBVIOUS
<1>2. /\ Len(commands'[x]) = n + 1 /\ commands'[x][n + 1] = c
      /\ \A k \in 1..n : commands'[x][k] = commands[x][k]
      /\ \A y \in Instances \ {x} : commands'[y] = commands[y]
  BY <1>1 DEF SendCommand
<1>3. ASSUME NEW y \in Instances, NEW m, NEW k, Undone(y, m, k)
      PROVE  Undone(y, m, k)'
  <2>1. PICK j \in 1..Len(commands[y]) :
          j > k /\ commands[y][j].do = "detach" /\ commands[y][j].mountpoint = m
    BY <1>3 DEF Undone
  <2>2. j \in 1..Len(commands'[y]) /\ commands'[y][j] = commands[y][j]
    BY <1>1, <1>2
  <2> QED
    BY <2>1, <2>2 DEF Undone
<1>4. ASSUME c.do = "detach", NEW k \in 0..n
      PROVE  Undone(x, c.mountpoint, k)'
  <2>1. n + 1 \in 1..Len(commands'[x]) /\ n + 1 > k
    BY <1>2
  <2> QED
    BY <1>2, <1>4, <2>1 DEF Undone
<1>5. DisksOwned'
  <2> SUFFICES ASSUME NEW d \in disks \ stuck
               PROVE  Owned(d.instance, d.name, d.device)' \/ Undone(d.instance, d.name, 0)'
    BY DEF DisksOwned
  <2>1. d.instance \in Instances /\ d.instance \in running
    BY DEF Disks
  <2>2. CASE Owned(d.instance, d.name, d.device)
    BY <1>4, <2>1, <2>2
  <2>3. CASE Undone(d.instance, d.name, 0)
    BY <1>3, <2>1, <2>3
  <2> QED
    BY <2>2, <2>3 DEF DisksOwned
<1>6. CommandsOwned'
  <2> SUFFICES ASSUME NEW y \in Instances, NEW k \in 1..Len(commands'[y]), NEW e,
                      e = commands'[y][k], e.do = "attach"
               PROVE  /\ e.mountpoint \in Names
                      /\ y \in running =>
                           Owned(y, e.mountpoint, e.device)' \/ Undone(y, e.mountpoint, k)'
    BY DEF CommandsOwned
  <2>1. CASE y = x /\ k = n + 1
    BY <1>2, <2>1
  <2>2. CASE k \in 1..Len(commands[y]) /\ e = commands[y][k]
    <3>1. e.mountpoint \in Names
      BY <2>2 DEF CommandsOwned
    <3>2. CASE y \in running /\ Owned(y, e.mountpoint, e.device)
      <4>1. CASE c.do = "detach" /\ y = x /\ e.mountpoint = c.mountpoint
        BY <1>1, <1>4, <2>2, <3>1, <4>1
      <4> QED
        BY <3>1, <3>2, <4>1
    <3>3. CASE Undone(y, e.mountpoint, k)
      BY <1>3, <3>1, <3>3
    <3> QED
      BY <2>2, <3>1, <3>2, <3>3 DEF CommandsOwned
  <2> QED
    BY <1>1, <1>2, <2>1, <2>2
<1> QED
  BY <1>5, <1>6

LEMMA NodesByCaller ==
  ASSUME CloudKnown, InStep, DisksOwned, CommandsOwned, [Next]_vars, NEW i \in Ids,
         strays = 0, strays' = 0,
         DetachVolume(i) \/ DeleteVolume(i) \/ \E p \in Places : AttachVolume(i, p)
  PROVE  DisksOwned' /\ CommandsOwned'
<1> USE DEF CloudKnown, CloudTypeOK
<1>1. view[i] \in Volumes /\ UNCHANGED <<keeper, disks, stuck, running>>
  BY DEF DetachVolume, DeleteVolume, AttachVolume, Views, Send, disk
<1>2. \A p \in Places : p.instance \in Instances /\ p.mountpoint \in Mountpoints /\ p # None
  BY CloudVolumesParameters, VolumeNames
<1>3. CASE \E p \in Places : AttachVolume(i, p)
  <2>1. PICK p \in Places : AttachVolume(i, p)
    BY <1>3
  <2>2. PICK c : c = [do |-> "attach", device |-> view[i].device, mountpoint |-> p.mountpoint]
    OBVIOUS
  <2>3. c \in Commands /\ SendCommand(p.instance, c)
    BY <1>1, <1>2, <2>1, <2>2 DEF AttachVolume, Commands, Volumes
  <2>4. wanted' = [wanted EXCEPT ![i] = p] /\ wanted[i] = None /\ p.mountpoint \in Names
    BY <2>1, AsksPatiently DEF AttachVolume
  <2>5. Owned(p.instance, c.mountpoint, c.device)'
    <3>1. 0 \in 0..Len(reports) /\ Snapshot(0) = view /\ view[i] # None
      BY <2>1 DEF Snapshot, AttachVolume
    <3>2. Agrees(i, view[i].device)
      BY <3>1 DEF InStep, DevicesShown
    <3>3. Agrees(i, c.device)'
      BY <1>1, <2>2, <3>2 DEF Agrees
    <3> QED
      BY <2>2, <2>4, <3>3 DEF Owned
  <2>6. \A y, m, dv : Owned(y, m, dv) => Owned(y, m, dv)'
    <3>1. \A j \in Ids : wanted[j] \in Places => wanted'[j] = wanted[j]
      BY <1>2, <2>4
    <3> QED
      BY <3>1, OwnedStays
  <2> QED
    BY <1>1, <1>2, <2>2, <2>3, <2>4, <2>5, <2>6, NodesSent
<1>4. CASE DetachVolume(i)
  <2>1. /\ wanted' = [wanted EXCEPT ![i] = None]
        /\ view[i].place \in Places /\ wanted[i] = view[i].place
    BY <1>1, <1>4, AsksPatiently DEF DetachVolume, Volumes
  <2>2. PICK p \in Places : p = view[i].place
    BY <2>1
  <2>3. ASSUME NEW y, NEW m, NEW dv, Owned(y, m, dv),
               ~(y = p.instance /\ m = p.mountpoint)
        PROVE  Owned(y, m, dv)'
    <3>1. \A j \in Ids : /\ wanted[j] \in Places
                         /\ wanted[j].instance = y /\ wanted[j].mountpoint = m
                         => wanted'[j] = wanted[j]
      BY <2>1, <2>2, <2>3
    <3> QED
      BY <2>3, <3>1, OwnedStays
  <2>4. CASE SendCommand(p.instance, [do |-> "detach", mountpoint |-> p.mountpoint])
    <3>1. PICK c : c = [do |-> "detach", mountpoint |-> p.mountpoint]
      OBVIOUS
    <3>2. c \in Commands /\ SendCommand(p.instance, c) /\ c.do = "detach"
      BY <1>2, <2>4, <3>1 DEF Commands
    <3>3. \A y \in running : \A m, dv : Owned(y, m, dv) =>
            Owned(y, m, dv)' \/ (c.do = "detach" /\ y = p.instance /\ m = c.mountpoint)
      BY <2>3, <3>1
    <3>4. UNCHANGED <<disks, stuck, running>> /\ p.instance \in Instances /\ c.do # "attach"
      BY <1>1, <1>2, <3>2
    <3> QED
      BY <3>2, <3>3, <3>4, NodesSent
  <2>5. CASE UNCHANGED commands /\ p.instance \notin running
    <3>1. \A y \in running : \A m, dv : Owned(y, m, dv) => Owned(y, m, dv)'
      BY <2>3, <2>5
    <3>2. \A y, m, k : Undone(y, m, k) => Undone(y, m, k)'
      BY <2>5 DEF Undone
    <3>3. DisksOwned'
      BY <1>1, <3>1, <3>2 DEF DisksOwned
    <3>4. CommandsOwned'
      <4> SUFFICES ASSUME NEW x \in Instances, NEW k \in 1..Len(commands[x]), NEW c,
                          c = commands[x][k], c.do = "attach"
                   PROVE  /\ c.mountpoint \in Names
                          /\ x \in running =>
                               Owned(x, c.mountpoint, c.device)' \/ Undone(x, c.mountpoint, k)'
        BY <1>1, <2>5 DEF CommandsOwned
      <4> QED
        BY <3>1, <3>2 DEF CommandsOwned
    <3> QED
      BY <3>3, <3>4
  <2>6. \/ SendCommand(p.instance, [do |-> "detach", mountpoint |-> p.mountpoint])
        \/ commands' = commands /\ p.instance \notin running
    BY ONLY <1>4, <2>2, AsksPatiently, strays = 0, strays' = 0 DEF DetachVolume
  <2> QED
    BY <2>4, <2>5, <2>6
<1>5. CASE DeleteVolume(i)
  <2>1. wanted' = [wanted EXCEPT ![i] = Gone] /\ wanted[i] = None
    <3>1. Asks(i, Gone, wanted[i] = None)
      BY ONLY <1>5 DEF DeleteVolume
    <3> QED
      BY ONLY <3>1, strays = 0, strays' = 0 DEF Asks
  <2>2. wanted \in [Ids -> Places \cup {None, Gone}]
    OBVIOUS
  <2>3. \A j \in Ids : wanted[j] \in Places => wanted'[j] = wanted[j]
    BY ONLY <1>2, <2>1, <2>2
  <2> QED
    BY <1>1, <1>5, <2>3, NodesStay DEF DeleteVolume
<1> QED
  BY <1>3, <1>4, <1>5

LEMMA NodesByRunning ==
  ASSUME CloudKnown, InStep, DisksOwned, CommandsOwned, [Next]_vars, NEW x \in Instances,
         AttachDisk(x) \/ DetachDisk(x)
  PROVE  DisksOwned' /\ CommandsOwned'
<1> USE DEF CloudKnown, CloudTypeOK
<1>1. /\ commands[x] # <<>> /\ commands' = [commands EXCEPT ![x] = Tail(@)]
      /\ UNCHANGED <<running, wanted>>
  BY DEF AttachDisk, DetachDisk, Runs
<1>2. PICK n \in Nat : n = Len(commands[x])
  OBVIOUS
<1>3. PICK h \in Commands : h = commands[x][1] /\ h = Head(commands[x])
  BY <1>1
<1>4. /\ 1 \in 1..n /\ Len(commands'[x]) = n - 1
      /\ \A k \in 1..(n - 1) : commands'[x][k] = commands[x][k + 1]
      /\ \A y \in Instances \ {x} : commands'[y] = commands[y]
  BY <1>1, <1>2
<1>5. \A y, m, dv : Owned(y, m, dv) => Owned(y, m, dv)'
  BY <1>1, OwnedStays
<1>6. ASSUME NEW y \in Instances \ {x}, NEW m, NEW k, Undone(y, m, k)
      PROVE  Undone(y, m, k)'
  BY <1>4, <1>6 DEF Undone
<1>7. ASSUME NEW m, NEW k \in Nat, NEW l \in Nat, Undone(x, m, k), l + 1 <= k \/ l = 0,
             k = 0 => ~(h.do = "detach" /\ h.mountpoint = m)
      PROVE  Undone(x, m, l)'
  <2>1. PICK j \in 1..n : j > k /\ commands[x][j].do = "detach" /\ commands[x][j].mountpoint = m
    BY <1>2, <1>7 DEF Undone
  <2>2. j # 1
    BY <1>3, <1>7, <2>1
  <2>3. j - 1 \in 1..(n - 1) /\ j - 1 > l /\ commands'[x][j - 1] = commands[x][j]
    BY <1>4, <1>7, <2>1, <2>2
  <2> QED
    BY <1>4, <2>1, <2>3 DEF Undone
<1>8. ASSUME NEW d \in disks \ stuck, ~(h.do = "detach" /\ d.instance = x /\ d.name = h.mountpoint)
      PROVE  Owned(d.instance, d.name, d.device)' \/ Undone(d.instance, d.name, 0)'
  <2>1. d.instance \in Instances
    BY DEF Disks
  <2>2. CASE Owned(d.instance, d.name, d.device)
    BY <1>5, <2>2
  <2>3. CASE Undone(d.instance, d.name, 0)
    BY <1>6, <1>7, <1>8, <2>1, <2>3
  <2> QED
    BY <2>2, <2>3 DEF DisksOwned
<1>9. DisksOwned'
  <2>1. CASE DetachDisk(x)
    <3>1. /\ h.do = "detach"
          /\ \A d \in disks' \ stuck' :
               d \in disks \ stuck /\ ~(d.instance = x /\ d.name = h.mountpoint)
      BY <1>3, <2>1 DEF DetachDisk
    <3> QED
      BY <1>8, <3>1 DEF DisksOwned
  <2>2. CASE AttachDisk(x)
    <3> DEFINE e == [instance |-> x, name |-> NameOf[h.mountpoint], device |-> h.device]
    <3>1. /\ h.do = "attach"
          /\ disks' = disks \/ (x \in running /\ disks' = disks \cup {e})
          /\ stuck' = stuck
      BY ONLY <1>3, <2>2 DEF AttachDisk
    <3>2. /\ h.mountpoint \in Names
          /\ x \in running => Owned(x, h.mountpoint, h.device) \/ Undone(x, h.mountpoint, 1)
      BY <1>2, <1>3, <1>4, <3>1 DEF CommandsOwned
    <3>3. e.instance = x /\ e.name = h.mountpoint /\ e.device = h.device
      BY <3>2, CloudVolumesParameters
    <3>4. x \in running => Owned(x, h.mountpoint, h.device)' \/ Undone(x, h.mountpoint, 0)'
      BY <1>5, <1>7, <3>2
    <3> HIDE DEF e
    <3>5. ASSUME NEW d \in disks' \ stuck'
          PROVE  Owned(d.instance, d.name, d.device)' \/ Undone(d.instance, d.name, 0)'
      BY <1>8, <3>1, <3>3, <3>4
    <3> QED
      BY <3>5 DEF DisksOwned
  <2> QED
    BY <2>1, <2>2
<1>10. CommandsOwned'
  <2> SUFFICES ASSUME NEW y \in Instances, NEW k \in 1..Len(commands'[y]), NEW c,
                      c = commands'[y][k], c.do = "attach"
               PROVE  /\ c.mountpoint \in Names
                      /\ y \in running =>
                           Owned(y, c.mountpoint, c.device)' \/ Undone(y, c.mountpoint, k)'
    BY <1>1 DEF CommandsOwned
  <2>1. CASE y = x
    <3>1. k \in 1..(n - 1) /\ k + 1 \in 1..Len(commands[x]) /\ c = commands[x][k + 1]
      BY <1>2, <1>4, <2>1
    <3>2. /\ c.mountpoint \in Names
          /\ x \in running =>
               Owned(x, c.mountpoint, c.device) \/ Undone(x, c.mountpoint, k + 1)
      BY <3>1 DEF CommandsOwned
    <3>3. PICK k1 \in Nat : k1 = k + 1
      BY <3>1
    <3>4. Undone(x, c.mountpoint, k1) => Undone(x, c.mountpoint, k)'
      BY <1>7, <3>1, <3>3
    <3> QED
      BY <1>5, <2>1, <3>2, <3>3, <3>4
  <2>2. CASE y # x
    <3>1. k \in 1..Len(commands[y]) /\ c = commands[y][k]
      BY <1>4, <2>2
    <3>2. /\ c.mountpoint \in Names
          /\ y \in running =>
               Owned(y, c.mountpoint, c.device) \/ Undone(y, c.mountpoint, k)
      BY <3>1 DEF CommandsOwned
    <3> QED
      BY <1>5, <1>6, <2>2, <3>2
  <2> QED
    BY <2>1, <2>2
<1> QED
  BY <1>9, <1>10

LEMMA NodesByNext ==
  ASSUME CloudKnown, [CloudNext]_cloudVars, InStep, DisksOwned, CommandsOwned,
         strays = 0, strays' = 0
  PROVE  DisksOwned' /\ CommandsOwned'
<1>1. [Next]_vars
  BY HostSteps
<1>2. ASSUME NEW x \in Instances, Terminate(x)
      PROVE  DisksOwned' /\ CommandsOwned'
  BY <1>1, <1>2, NodesStay DEF Terminate
<1>3. CASE UNCHANGED <<commands, disks, stuck, running, wanted>>
  BY <1>1, <1>3, NodesStay
<1>4. CASE HandleAndReport \/ CrashOfHost
  BY <1>3, <1>4 DEF HandleAndReport, SaveAndReport, CrashOfHost, cloud
<1>5. CASE UNCHANGED cloudVars \/ CreateVolume \/ ReportState \/ UpdateState \/ CloudRestarts
  BY <1>3, <1>5 DEF cloudVars, cloud, CreateVolume, ReportState, UpdateState, CloudRestarts
<1> QED
  BY <1>1, <1>2, <1>4, <1>5, NodesByCaller, NodesByRunning DEF CloudNext

-----------------------------------------------------------------------------
LEMMA PatientInitially == CloudInit => Patient
<1> SUFFICES ASSUME CloudInit PROVE Patient
  OBVIOUS
<1>1. CloudKnown
  BY CloudKnownInitially
<1>2. /\ \A k \in 0..Len(queue), i \in Ids : ~At(k, i)
      /\ \A k \in 0..Len(reports), i \in Ids : Snapshot(k)[i] = None
      /\ \A i \in Ids : wanted[i] = None /\ keeper[i] = None
  BY DEF CloudInit, Init, At, Snapshot
<1>3. \A i \in Ids : ~Heard(i)
  BY <1>2 DEF Heard, Pending
<1>4. InStep
  BY <1>2, <1>3, VolumeNames DEF CloudInit, Init, InStep, WorksOnItsVolume, HeardOfMade,
    HeardHasRecord, DevicesShown, OneRequest, NotShownYet, DoneAsWanted, ShownInOrder, Shows, Pending
<1>5. DisksOwned /\ CommandsOwned
  BY DEF CloudInit, DisksOwned, CommandsOwned
<1> QED
  BY <1>1, <1>4, <1>5 DEF Patient

LEMMA PatientByNext == Patient /\ [CloudNext]_cloudVars => Patient'
<1> SUFFICES ASSUME Patient, [CloudNext]_cloudVars PROVE Patient'
  OBVIOUS
<1>1. CloudKnown /\ CloudTypeOK /\ CloudKnown'
  BY CloudKnownByNext DEF Patient, CloudKnown
<1>2. ASSUME strays' = 0
      PROVE  InStep' /\ DisksOwned' /\ CommandsOwned'
  <2>1. strays = 0
    BY <1>1, <1>2, StraysStay
  <2> QED
    BY <1>1, <1>2, <2>1, InStepByNext, NodesByNext DEF Patient
<1> QED
  BY <1>1, <1>2 DEF Patient

LEMMA AlwaysPatient == CloudSpec => []Patient
BY PatientInitially, PatientByNext, PTL DEF CloudSpec

(* At any moment, a disk of an instance is one that a caller wants there   *)
(* for a volume with that device, or a request to detach it is on its way  *)
(* to the node, or virsh failed to detach it: no reordering by the death   *)
(* of the host or by late reports makes the controller forget a disk, when *)
(* callers wait for the listing.                                           *)
THEOREM DisksAreWanted == CloudSpec => [](strays = 0 => DisksOwned)
<1>1. Patient => (strays = 0 => DisksOwned)
  BY DEF Patient
<1> QED
  BY <1>1, AlwaysPatient, PTL

(* When callers wait for the listing before they ask for the next thing,   *)
(* and every message has been handled, a disk of an instance is one that   *)
(* its volume names, with the volume's device, or one that virsh failed to *)
(* detach: for any number of volumes, instances and messages, any delay of *)
(* the reports and of the nodes, failed commands, and deaths of the volume *)
(* host and restarts of the controller.                                    *)
THEOREM NothingIsLeft == CloudSpec => []NoDiskLeft
<1>1. Patient => NoDiskLeft
  <2> SUFFICES ASSUME Patient, Quiet, strays = 0, NEW d \in disks \ stuck
               PROVE  \E i \in Ids :
                        /\ wanted[i] \in Places
                        /\ wanted[i].instance = d.instance /\ wanted[i].mountpoint = d.name
                        /\ keeper[i] # Torn => /\ keeper[i] \in Volumes
                                               /\ keeper[i].device = d.device
                                               /\ keeper[i].place = wanted[i]
    BY DEF NoDiskLeft
  <2>1. d.instance \in Instances /\ CloudTypeOK /\ TypeOK
    BY DEF Patient, CloudKnown, CloudTypeOK, Disks
  <2>2. ~Undone(d.instance, d.name, 0)
    BY <2>1 DEF Quiet, Undone
  <2>3. PICK i \in Ids : /\ wanted[i] \in Places /\ wanted[i].instance = d.instance
                         /\ wanted[i].mountpoint = d.name /\ Agrees(i, d.device)
    BY <2>2 DEF Patient, DisksOwned, Owned
  <2>4. wanted[i] # None /\ wanted[i] # Gone
    BY <2>3, VolumeNames, CloudVolumesParameters
  <2>5. ~Pending(i)
    BY <2>1 DEF Quiet, Pending, At, TypeOK
  <2>6. keeper[i] # None
    BY <2>4 DEF Patient, InStep, HeardHasRecord, Heard
  <2>7. keeper[i] # Torn => keeper[i] \in Volumes
    BY <2>1, <2>6 DEF TypeOK
  <2> QED
    BY <2>3, <2>4, <2>5, <2>7 DEF Patient, InStep, DoneAsWanted, Agrees
<1> QED
  BY <1>1, AlwaysPatient, PTL
==============================================================================
