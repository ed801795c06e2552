----------------------------- MODULE CloudVolumes -----------------------------
(***************************************************************************)
(* The volumes of the cloud controller (nova/endpoint/cloud.py): what it   *)
(* knows of them from the reports of the volume host, and the requests it  *)
(* sends from that to the volume host (VolumeStore) and to the compute     *)
(* node of the instance, whose handlers (nova/compute/node.py) attach and  *)
(* detach disks.  Each instance is on a node of its own.                   *)
(* A definition that no other one uses is a mutated form of the one below  *)
(* it, with a plausible bug.                                               *)
(***************************************************************************)
EXTENDS VolumeStore

CONSTANTS
  Instances,
  Names,       \* names of disks in an instance: vdb
  Paths,       \* paths of them: /dev/vdb
  NameOf,      \* the last part of a path
  Gone,
  MaxReports,  \* bound on the reports that are under way
  MaxCommands, \* bound on the messages to a compute node
  MaxStrays    \* bound on the requests of impatient callers

VARIABLES
  view,      \* volumes of the last report: id -> volume or None
  reports,   \* reports under way
  commands,  \* instance -> messages to its compute node
  disks,     \* disks that are attached to a running instance
  running,   \* instances that run
  stuck,     \* history: disks that a virsh detach-disk failed to detach
  wanted,    \* history: id -> the place where its callers want it, None or Gone
  strays     \* history: requests since a caller did not wait for the listing

cloud == <<view, reports, commands, disks, stuck, running, wanted, strays>>
cloudVars == <<vars, cloud>>

Mountpoints == Names \cup Paths
Views == [Ids -> Volumes \cup {None}]
Commands ==
  [do : {"attach"}, device : Devices, mountpoint : Mountpoints]
    \cup [do : {"detach"}, mountpoint : Mountpoints]
Disks == [instance : Instances, name : Names, device : Devices]

ASSUME CloudVolumesParameters ==
  /\ Places \subseteq [instance : Instances, mountpoint : Mountpoints]
  /\ NameOf \in [Mountpoints -> Names] /\ \A n \in Names : NameOf[n] = n
  /\ Names \cap Paths = {}
  /\ Gone \notin Places \cup {None}
  /\ MaxReports \in Nat /\ MaxCommands \in Nat /\ MaxStrays \in Nat

CloudTypeOK ==
  /\ TypeOK
  /\ view \in Views /\ reports \in Seq(Views)
  /\ commands \in [Instances -> Seq(Commands)]
  /\ disks \subseteq Disks /\ \A d \in disks : d.instance \in running
  /\ stuck \subseteq disks
  /\ wanted \in [Ids -> Places \cup {None, Gone}] /\ strays \in 0..MaxStrays

CloudInit ==
  /\ Init
  /\ view = [i \in Ids |-> None] /\ reports = <<>>
  /\ commands = [x \in Instances |-> <<>>]
  /\ disks = {} /\ stuck = {} /\ running = Instances
  /\ wanted = [i \in Ids |-> None] /\ strays = 0

-----------------------------------------------------------------------------
(* Reports *)

(* describe_volumes: logical volumes with a record that loads.             *)
Described == [i \in Ids |-> IF i \in lvs /\ keeper[i] \in Volumes THEN keeper[i] ELSE None]

Reports(described) ==
  /\ Len(reports) < MaxReports
  /\ reports' = Append(reports, described)

(* The timer fires between two requests.                                   *)
ReportState ==
  /\ at = "idle"
  /\ Reports(Described)
  /\ UNCHANGED <<vars, view, commands, disks, stuck, running, wanted, strays>>

(* attach_volume and detach_volume report at their end.                    *)
SaveAndReport ==
  /\ Save
  /\ IF message.op = "create" THEN UNCHANGED reports ELSE Reports(Described')
  /\ UNCHANGED <<view, commands, disks, stuck, running, wanted, strays>>

UpdateState ==
  /\ reports # <<>>
  /\ view' = Head(reports)
  /\ reports' = Tail(reports)
  /\ UNCHANGED <<vars, commands, disks, stuck, running, wanted, strays>>

CloudRestarts ==
  /\ view' = [i \in Ids |-> None]
  /\ UNCHANGED <<vars, reports, commands, disks, stuck, running, wanted, strays>>

-----------------------------------------------------------------------------
(* Requests *)

(* A patient caller asks for the next thing about a volume when the        *)
(* listing shows the last one, and gives names, not paths.                 *)
Asks(i, place, patient) ==
  IF patient /\ strays = 0
  THEN wanted' = [wanted EXCEPT ![i] = place] /\ UNCHANGED strays
  ELSE /\ strays < MaxStrays
       /\ strays' = strays + 1
       /\ wanted' = [j \in Ids |-> None]

SendCommand(x, c) ==
  /\ Len(commands[x]) < MaxCommands
  /\ commands' = [commands EXCEPT ![x] = Append(@, c)]

CreateVolume ==
  /\ SendCreate
  /\ UNCHANGED cloud

AttachVolume(i, p) ==
  /\ view[i] # None
  /\ Send([op |-> "attach", id |-> i, place |-> p])
  /\ SendCommand(p.instance,
       [do |-> "attach", device |-> view[i].device, mountpoint |-> p.mountpoint])
  /\ Asks(i, p, /\ view[i].place = None /\ wanted[i] = None
                /\ p.mountpoint \in Names)
  /\ UNCHANGED <<view, reports, disks, stuck, running>>

DetachVolumeOfHost(i) ==
  /\ view[i] # None
  /\ Send([op |-> "detach", id |-> i, place |-> None])
  /\ Asks(i, None, wanted[i] = view[i].place)
  /\ UNCHANGED <<view, reports, commands, disks, stuck, running>>

(* The controller may not know the instance, or nothing of an attachment:  *)
(* then only the volume host is told.                                      *)
DetachVolume(i) ==
  /\ view[i] # None
  /\ Send([op |-> "detach", id |-> i, place |-> None])
  /\ LET p == view[i].place
     IN \/ /\ p # None
           /\ SendCommand(p.instance, [do |-> "detach", mountpoint |-> p.mountpoint])
           /\ Asks(i, None, wanted[i] = p)
        \/ /\ Asks(i, None, p # None /\ wanted[i] = p /\ p.instance \notin running)
           /\ UNCHANGED commands
  /\ UNCHANGED <<view, reports, disks, stuck, running>>

DeleteVolume(i) ==
  /\ view[i] # None
  /\ Send([op |-> "delete", id |-> i, place |-> None])
  /\ Asks(i, Gone, wanted[i] = None)
  /\ UNCHANGED <<view, reports, commands, disks, stuck, running>>

-----------------------------------------------------------------------------
(* Compute nodes; virsh refuses a name that is taken, and may fail: nobody *)
(* looks at its exit code.                                                 *)

Runs(x) ==
  /\ commands[x] # <<>>
  /\ commands' = [commands EXCEPT ![x] = Tail(@)]
  /\ UNCHANGED <<vars, view, reports, running, wanted, strays>>

AttachDisk(x) ==
  /\ Runs(x)
  /\ LET c == Head(commands[x])
         d == [instance |-> x, name |-> NameOf[c.mountpoint], device |-> c.device]
     IN /\ c.do = "attach"
        /\ \/ UNCHANGED disks
           \/ /\ x \in running /\ \A e \in disks : e.instance = x => e.name # d.name
              /\ disks' = disks \cup {d}
  /\ UNCHANGED stuck

(* The mount point goes to virsh as it is.                                 *)
DetachDisk(x) ==
  /\ Runs(x)
  /\ Head(commands[x]).do = "detach"
  /\ LET named == {d \in disks : d.instance = x /\ d.name = Head(commands[x]).mountpoint}
     IN \/ disks' = disks \ named /\ stuck' = stuck \ named
        \/ /\ failures + Cardinality(stuck) < MaxFailures
           /\ disks' = disks /\ stuck' = stuck \cup named

Terminate(x) ==
  /\ x \in running
  /\ running' = running \ {x}
  /\ disks' = {d \in disks : d.instance # x}
  /\ stuck' = {d \in stuck : d.instance # x}
  /\ UNCHANGED <<vars, view, reports, commands, wanted, strays>>

-----------------------------------------------------------------------------
(* A request that was reported and is delivered again comes after requests *)
(* that were made on the report.                                           *)
CrashOfHost ==
  /\ Crash
  /\ IF at = "ack" /\ strays = 0
     THEN /\ strays < MaxStrays /\ strays' = strays + 1
          /\ wanted' = [j \in Ids |-> None]
     ELSE UNCHANGED <<strays, wanted>>
  /\ UNCHANGED <<view, reports, commands, disks, stuck, running>>

HandleAndReport ==
  /\ \/ Works /\ UNCHANGED cloud
     \/ SaveAndReport
  /\ failures' + Cardinality(stuck) <= MaxFailures

CloudNext ==
  \/ CreateVolume
  \/ \E i \in Ids : DetachVolume(i) \/ DeleteVolume(i) \/ \E p \in Places : AttachVolume(i, p)
  \/ \E x \in Instances : AttachDisk(x) \/ DetachDisk(x) \/ Terminate(x)
  \/ ReportState \/ UpdateState \/ CloudRestarts
  \/ HandleAndReport \/ CrashOfHost

CloudSpec == CloudInit /\ [][CloudNext]_cloudVars

(* The volume host handles its messages, the controller the reports.       *)
CloudFairSpec == CloudSpec /\ WF_cloudVars(HandleAndReport) /\ WF_cloudVars(UpdateState)

-----------------------------------------------------------------------------
(* Properties *)

Quiet == queue = <<>> /\ message = None /\ \A x \in Instances : commands[x] = <<>>

(* When callers wait for the listing, whatever the volume host, the nodes  *)
(* and the reports delay and whatever attachment fails, no instance ends   *)
(* up with a disk that its volume does not name, but for the disks that a  *)
(* virsh detach-disk failed to detach: their records say that they are     *)
(* detached, and no request takes them off before another disk of the name.*)
NoDiskLeft ==
  Quiet /\ strays = 0 =>
    \A d \in disks \ stuck : \E i \in Ids :
      /\ wanted[i] \in Places
      /\ wanted[i].instance = d.instance /\ wanted[i].mountpoint = d.name
      /\ keeper[i] # Torn =>
           keeper[i] \in Volumes /\ keeper[i].device = d.device /\ keeper[i].place = wanted[i]
=============================================================================
