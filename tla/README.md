# A TLA+ development beside nova

This directory specifies, model-checks and proves properties of the cloud
controller software in `src/nova` (the code that became OpenStack Nova): the
network controller, the compute nodes, the cloud controller's view of them and
of the volumes, the volume store, the object store's buckets and images, and the
user directory. Paths below are relative
to `src/` unless they name a module of this directory.

Contents: 1 the system, 2 the modules and the code, 3 the runs, 4 fairness,
5 the proofs, 6 what the code does that the documents do not say, 7 what is not
modelled, 8 the plan.

## 1. The system

All processes are Python 2. `nova-api` runs one Tornado loop that serves the EC2
API, owns the network controller and consumes the `cloud` queue. `nova-compute`
and `nova-volume` each run one node object behind an AMQP consumer.
`nova-objectstore` serves buckets and images. `nova-manage` is run by an
administrator, in a process of its own. Durable state is a directory of JSON
files (`nova/datastore.py`), LDAP, the object store's directories, libvirt
domains, LVM volumes, AoE exports and the kernel's iptables rules.

| component | state | operations | interacts with |
|---|---|---|---|
| network controller (`compute/network.py`) | VLAN pool, private nets, public records; keeper files; iptables | allocate, deallocate, associate, disassociate, describe, get_users_network, get_cloudpipe_address, `_save`, constructor | called by the cloud controller; asks the user directory |
| compute node (`compute/node.py`) | instances, their states, timers, worker pool; libvirt domains | run, terminate, reboot, console, attach/detach volume, adopt, report | AMQP, libvirt, worker processes |
| cloud controller (`endpoint/cloud.py`) | instances and volumes by node, pending instances | run, terminate, reboot, attach, create/delete volume, update_state, cloudcron | network controller, AMQP, CloudPipe |
| RPC (`rpc.py`) | queues, consumers | call, cast, receive | everyone |
| volume store (`volume/storage.py`) | volumes, AoE shelf and blade numbers, keeper files, LVM, vblade exports | create, delete, attach, detach, report | AMQP |
| object store (`objectstore/*.py`) | bucket and image directories, `info.json` | create/delete bucket, put/get object, register/delete/modify image | a process per registration |
| user directory (`auth/users.py`) | users, key pairs, VPN ports | create/delete user, key pairs, credentials | LDAP, keeper |
| keeper (`datastore.py`) | one JSON file per key | get, set, delete | network controller, volumes, VPN ports |
| cloudpipe (`cloudpipe/pipelib.py`) | none | launch a user's VPN instance | cloud controller, users |

What is hard in it:

- handlers that write several files without a transaction and can be cut
  anywhere (`_save`, volume creation and deletion, image registration);
- an administrator who changes the users from another process while a handler
  runs;
- worker processes and timers whose callbacks outlive the call that started
  them (`_launch`, `_wait_for_shutdown`, `Image.create`);
- reports that overwrite the cloud controller's view and may be late;
- messages that are acknowledged after the handler, so that a process that dies
  gets them again, or, on a shared queue, another process does;
- commands whose exit code nobody looks at (`vblade-persist`, `lvcreate`,
  `lvremove`, `virsh detach-disk`): the handler goes on and saves its success;
- keys of objects that lead out of the bucket that was checked;
- read-modify-write of one file by two processes (`info.json`, the VPN ports);
- requests that two hosts get, made on a view that may be old (attach, detach).

What makes each part correct, in one line each: two users never hold one
address and an answered call survives a restart (network); no domain runs that
the node does not know (compute); no instance is listed twice, nowhere, or under
a node that does not have it (cloud controller); a volume's record names the
device that exports it, and an instance has the disks that records name
(volumes); an image is visible, available and deleted exactly when its owner and
its registration say so (images); the objects of a bucket are its owner's
(buckets); a port is one user's, an answered key pair the stored one (users).

## 2. The modules and the code

A module has one action per handler, or per step of a handler where another
process, a crash or a second thread can come between. A definition that nothing
else uses (`next_forgetting`, `DeleteInfoKept`, ...) is a mutated form of the
definition right below it: a plausible bug, which the runs are shown to catch.

### Network controller

`Addressing` is the address arithmetic: `NetworkPool.get_from_vlan`
(`SubnetStart`, `Subnet`) and `Network.range`. `NetworkController` is the
process. Its variables are the attributes of the objects (`vlans`, `vlanpool`,
`private_nets`, `public`), the keeper files (`kNet`, `kPrivate`, `kPublic`,
`kVlans`), the kernel's rules (`nat`), the users (`ldap`), and where the process
is in its handler (`pc`, `fresh`, `left`, `listed`, `target`). A handler runs to
its first file write in one action; each write of `_save` and the write of a new
user's network (`WriteFresh`) is an action, so that `Crash`, `CreateUser` and
`DeleteUser` come between any two. `Start`, `StartUser` and `StartDone` are the
constructor, which asks for the network of every listed user and may thereby
give out VLANs and write files itself. The bridge, VLAN and dnsmasq commands of
`express` are left out: they are functions of the state that is modelled.

The keeper opens a file, which empties it, and then writes. No other process
reads these files, so that the two halves show only in a death between them:
`Crash` may leave the file that is being written (`InWrite`) in `torn`. Reading
a torn file raises: the constructor stops at one of the shared files
(`StartRaises`, `StartDone`) or at a listed user's (`StartUser`), and a call on
behalf of a user whose file is torn ends in a ValueError. Writing or removing
the file mends it. The first start writes the default files and may die in one
of them, which is why `Init` allows a torn one. A new user's network is made
from the pool and then from `user.vpn_port`, which can raise with the pool
already changed (`PortRaises`): the user is then in the pool without a network
of that VLAN, and `portless` remembers it.

`AddressLedger` is the abstract promise about public addresses: a ledger that
calls change one record at a time, that is saved whole, and that a restart takes
back to the last save; or that is lost for good (`Lose`), when a death tears it.
`NetworkController` implements it under
`now <- Legible(Serving), saved <- Legible(kPublic)`, where a torn file stands
for no ledger at all.

### Compute node

`ComputeNode` is one `nova-compute` process and its hypervisor. `instances` is
`Node._instances`; an object is named after the instance it was made for, so
that an entry may hold another instance's object, which `adopt_instances` makes
possible. `job` and `launching` are the image job of `_create_image` in the pool
and the `_launch` callback, which the pool's result thread runs: `LaunchCreates`
and `LaunchEnds` are two actions because handlers run in between.
`DestroyDomain`, `DestroyFails` and `Tick` are `destroy` and its timer. `unacked`
is the broker's copy of the message in progress, `DomainDies` a guest that shuts
down by itself, `Crash` the end of the process with its timers and workers; the
message that was not acknowledged comes again, or another node takes it.
`RunInstanceFails` is a run that raises before an image job is submitted, the
refusal of an unknown instance type included.

### Cloud controller and nodes

`CloudInstances` composes the instance half of `CloudController` with its nodes.
`pending` and `view` are `self.instances`; `runq`, `nodeq` and `cloudq` are the
shared queue of run messages, each node's own queue, and the queue of reports.
A node is `ComputeNode` without its inner steps: `NodeRun` enters the instance,
`Acknowledge` ends its handler, `Launch` starts the domain, `NodeTerminate` and
`Remove` are the terminate handler and its timer, `ReportState` sends a copy of
the table. `RunInstances` takes one id or two, `RunInstancesFails` is a
reservation whose second address is refused after the first message has gone
out. `EnsureVpn` is the cron.

Between the handler of a run message and its acknowledgement the message is in
`unacked`, while the image job and `_launch` already run in other threads; the
main thread takes nothing else (`Free`). A node that dies there (`CrashNode`)
gives the message back to the shared queue, from which any node may take it. If
the domain had been started and survives the process, the instance may then be
on two nodes: `twice` has such ids, and the properties that speak of one node
except them. Terminate messages and reports are handled and acknowledged in one
action: a terminate that comes again is one that was sent twice, and a report
that comes again to a controller that has restarted is one that it takes after
the restart; both are behaviours of the model.

`InstanceRegistry` is the abstract promise: an id waits, is placed on one node
for good, is listed only there, and never goes back to waiting; an id may come
into doubt before it was placed (`Doubt`), and nothing is promised of it then.
`CloudInstances` implements it under `waiting <- pending \ twice`, `listed <-
Where`, `home <- Home` (both `None` for the ids in `twice`) and `doubtful <-
twice`. `Home` is the node that acknowledged the run message, not the one that
took it: an instance is placed when its message can no longer come back.

### Volumes

`VolumeStore` is one `nova-volume` process: `lvs`, `exports` and `keeper` are
what the disk holds, `queue` and `message` the broker's side, and `at`,
`volume`, `device` the handler's. Creation is three steps (`Create`,
`SetupExport`, `Save`), deletion three (`RemoveExport`, `DeleteLv`, `Forget`),
and `Acknowledge` ends each handler. A device `e<shelf>.<blade>` is a number;
`LastAoe` keeps the text order of `ls` and `NextAoe` the single digit that is
read of a shelf, as in `get_next_aoe_numbers`. `Crash` returns the message to
the queue and may leave the keeper file `Torn`: opened for writing, not yet
written. A place is an instance and a mount point, which the record keeps
together. `lvcreate`, `vblade-persist` and `lvremove` may each fail (`Fails`)
and the handler goes on, as `runthis` looks at no exit code; `failures` counts
them, `bare` has the devices whose set-up failed, `unremoved` the volumes whose
logical volume stayed.

`CloudVolumes` extends it with the other half: `view` is
`CloudController.volumes`, `reports` the reports under way (`Described` is
`describe_volumes`: a logical volume whose record loads), `commands` the
messages to the compute nodes, `disks` what virsh has attached. `AttachVolume`,
`DetachVolume` and `DeleteVolume` act on the view and send to both hosts in one
action. A detach that does not find the instance tells the volume host only.
Attaching uses the last part of the mount point (`NameOf`), detaching the mount
point as it is, as the code does. Either virsh command may fail unseen; `stuck`
has the disks that a failed detach left in their instance. The variables
`wanted` and `strays` record what a patient caller asked for, and whether any
caller was not patient.

### Image registry

`ImageStore` is `Image` and `ImageHandler`: directories, `info.json` and image
files; `at` is the progress of each creating process (four times: work,
`write_state`), `serving` that of the single-threaded handler. Writing
`info.json` is an open, which empties the file, and a write; `Over` says what the
file holds when two writers had it open: the later text, with the end of a
longer earlier one behind it (`Torn`, unreadable).

`MadePublic` speaks of a POST that was answered: `granted` has the image only
while no process is between the read and the write of `info.json`, because the
code loses the update otherwise (section 6).

### Buckets

`BucketStore` is `bucket.py`, `object.py` and their handlers. `dir` and `json`
are the two halves of a bucket, the directory and the owner file beside it;
`Beside` says which bucket has the name of another's owner file. A request is a
step per system call (`CreateDir`, `CreateOpens`, `CreateWrites`; `DeleteDir`,
`DeleteFile`; `PutOpens`, `PutWrites`) so that `Crash` comes between any two,
and the processes that register images (`Register`, `ReadObject`) read while the
server works. `hurt` has the buckets whose request was cut short.

`_object_path` takes any path that begins as the bucket's does, and `..` is not
resolved before it looks. So a request names two buckets: `b`, to which the
caller's right is checked, and `c`, to which the key leads (`Leads`; `c = b` for
an ordinary key). It may also lead to the owner file of `c`
(`PutOwnerFileOpens`, `PutOwnerFileWrites`, `DeleteOwnerFile`), where the body
of a PUT becomes the owner. `strayed` has the buckets that were reached by a key
of somebody without a right to them, or whose owner file was; `MaxStrayed`
bounds it. A registration may read any bucket's objects by the names in its
location and manifest; its field `same` says that it read the bucket that was
checked and nothing else, and that no key of others led there.

### User directory

`UserDirectory` is `auth/users.py` as several processes use it: the API server,
the workers that generate key pairs (`KeyChecks`, then `KeyAdds` much later) and
nova-manage. `call` is where each process is in its call. `vpn_port` is a read
(`PortReads`), the two halves of the write (`PortOpens`, `PortWrites`) and the
second read (`PortAnswers`); `delete_user` is a search and a deletion per key
pair, then the user's. LDAP is external: it adds an entry that is not there
under a parent that is, and deletes a leaf. `spoiled` and `disturbed` record
that calls overlapped where the code does not provide for it.

### MC modules

`MCNetworkController`, `MCComputeNode`, `MCCloudInstances`, `MCCloudVolumes` and
`MCBucketStore` name the values and the symmetry of the runs; `ImageStore` and
`UserDirectory` are checked as they are.

## 3. The runs

| run | module | asks | bounds |
|---|---|---|---|
| net_crash | MCNetworkController | do two users' addresses stay apart, and is an answered call on disk, with a crash between any two writes or in one? | 2 users, 2 VLANs, subnets of 8, no deletion, no public address in play |
| net_users | MCNetworkController | do the pool and the networks agree while users are deleted, created again, VLANs reclaimed, and calls stop after the pool has changed? | 3 users of whom 1 can be deleted, 2 VLANs, no crash |
| net_public | MCNetworkController | are public addresses a ledger, bound once, with their rules, through crashes? | 2 public addresses, 2 instances, 1 user who can be deleted |
| net_reclaimed | MCNetworkController | finding: two users get one VLAN | 3 users, 1 deletable |
| node | MCComputeNode | does a domain ever run unmanaged; do launches and shutdowns end? | 2 instances on 1 worker, 1 foreign domain |
| node_resurrect | MCComputeNode | finding: a terminated instance starts | 1 instance |
| cloud | MCCloudInstances | is any instance out of sight, any VPN doubled? | 2 nodes (1 may crash), 3 ids (2 for VPNs, 1 of whose run messages may come back), 1 report and 1 terminate in their queues, no restart |
| cloud_live | MCCloudInstances | does the listing implement the registry and catch up; does a terminate go to the node that has the instance, also when a second node took the run message? | 2 nodes that both may crash, 1 id whose run message may come back, restarts, 1 report and 1 terminate in their queues |
| volume | MCCloudVolumes | is a record's device its own, for good; are deletes carried out; is a disk left behind? | the controller, 2 volumes, 3 shelves of 1 blade, 1 instance with 1 disk name and its path, 1 message, report and command under way each, 1 death, 1 failing command, 1 impatient request |
| image | ImageStore | are images private, whole, created once, made public and deleted for good; do registrations end? | 1 image, its PUT sent twice |
| bucket | MCBucketStore | do objects stay with their owner and buckets with theirs, whenever the server dies and wherever keys lead? | 2 buckets, one named like the other's owner file, 2 objects (one the manifest), 2 users and an administrator, 1 registration, 1 bucket reached by a key not meant for it, any number of deaths |
| users | UserDirectory | are ports one user's own, answered keys stored; do deletions end? | 2 processes, 2 users, 1 key name, 2 key pairs, 2 ports, any number of deaths |

Why the bounds are enough for what they are meant to show:

- Two users with two VLANs give every overlap of two networks; three users for
  two VLANs exhaust the pool. Subnets of 8 hand out three addresses (offsets 3
  to 5), so that `NoMoreAddresses`, reuse and two allocations all happen; where private addresses are not in question subnets
  have the least size, 4, with only the CloudPipe address.
- Three users are what the double reclaim of one VLAN needs.
- One worker and two launches give a launch that waits for another. More
  workers only add interleavings of builds that share nothing.
- One report in the queue is late already: it shows a table that the node has
  changed since, by a launch, a removal or a death, and the view is one report
  behind the queue. The proofs cover any number. One run message that comes back
  suffices for an instance on two nodes; in `cloud` it is a VPN's, since the
  count of VPNs is what a second node could disturb, in `cloud_live` the only
  id's, with either node dying.
- Two volumes are what a number that is freed and given out again needs. A death
  in any step gives the redelivered message, before or after what is in the
  queue. The numbering beyond one digit is not reached with three shelves and
  two volumes; the proof covers it. One name in the instance lets two volumes
  be attached at it after each other, or the second be refused; the other mount
  point is its path. One report and one command under way suffice for a view
  and for disks that are behind the record by a request. One impatient request
  (detach of an attached volume seen as available, deletion of an attached one,
  a path as mount point) can do all its damage to the records, and ends what
  `NoDiskLeft` claims. One failing command is any of the four; what it leaves
  (a record without an export, a logical volume without a record, a disk in the
  instance) stays for the rest of the run.
- The second PUT of an image is what `OneCreator` is about; ids share nothing
  but the handler.
- Two processes give every overlap of two calls; two ports for two users and two
  key pairs for one name exhaust both. With one bucket more than the one whose
  name is another's owner file nothing new can touch. One bucket that a key
  strays into leaves the other as the one of which the properties still speak.

Deadlock is checked except in the runs `image`, `volume` and `users`: there
every request may have been made, or every id and key used, and the system
stands still.
`cloud` and `cloud_live` differ in the ids because the VPN cron and liveness
together exceed what TLC checks in minutes. `bucket` uses the symmetry of the
two ordinary users, which no definition tells apart; the runs with temporal
properties use none.

Each property of a passing run is checked once more against a mutated module
(`PROJECT.json`, "mutants") and found violated there.

## 4. Fairness

Requests, deaths, restarts and administrators are never fair: they need not
happen.

- `ComputeNode!FairSpec`: the pool's worker and result threads and the main loop
  keep running (weak fairness of the build and launch steps). A timer is fair in
  the strong sense, because a handler or a crash may disable it again and again;
  Tornado runs the timers that are due between any two handlers.
- `CloudInstances!FairSpec`: consumers keep taking from their queues and
  acknowledge what they have handled (weak); a
  running node's periodic report is strong, since the bounded queue may be full
  whenever it is due. The bound stands for a broker without one.
- `CloudVolumes!CloudFairSpec`: the volume host's consumer keeps handling, the
  controller keeps taking reports (weak); a new process is started after a
  death, which the number of deaths bounds. The report timer fires only between
  two requests, as the host has one thread, so that it cannot keep a handler
  from its own report at the queue's bound.
- `UserDirectory!FairSpec`: a process that makes a call gets on with it (weak)
  unless it dies.
- `ImageStore!FairSpec`: the handler finishes what it serves and a creating
  process keeps running or fails (weak).

The liveness properties name their exceptions: `PendingEnds` and
`ListingCatchesUp` claim nothing while a node is down or for an instance that a
node refused; `RegistrationEnds` nothing for an image that was named in a POST
or DELETE meanwhile, or whose process failed; `ListingCatchesUp` nothing for an
instance whose message came back while its domain lives; `DeletesHappen` nothing
for a record torn by a crash, and nothing of the logical volume when `lvremove`
itself failed; `DeletionEnds` nothing for a user whose key pairs others
add or delete meanwhile, or whose deleting process dies. Each exception is a behaviour the code has, and each is
listed among the hazards.

## 5. The proofs

All theorems hold for every value of the constants that satisfies the named
assumptions of the modules. They are safety and refinement; the argument is an
inductive invariant each time, checked with TLC before it was proved.

- `AddressLedger_proofs`: `LedgerBindsOnce`, the ledger's own promise, from its
  types.
- `NetworkController_proofs`. Assumptions: VLAN start below end, a subnet size
  the flag admits, and `None` apart from the rest. `TypeCorrect` carries three
  facts with the types: a network still to be written is in the pool and has no
  file (`Pending`), a process that is down has no memory (`DownIsEmpty`), and
  the save loop only visits networks (`SaveLoop`). `Isolation` (for
  `Deletable = {}`) rests on `SubnetsDisjoint`, `RangeInSubnet` and the
  invariant that the pool's VLANs differ, that `vlanpool` counts all of them
  (so that max + 1 is new), and that every network, in memory and in a file, of
  a user the pool knows has the pool's VLAN. The pool in the file may be older
  than the networks' files, which is why `AddressesNotShared` speaks of users on
  record in the pool: a network written before a crash is not yet. A user whose call stopped
  at the VPN port is excepted (`portless`): the pool in memory and the one in the
  file may give him different VLANs.
  `AnsweredIsSaved` follows `_save` from file to file (`Saving`): the new network
  is written before any other is visited, each user is still to visit or filed
  and listed, then the list, the public records and the pool agree with memory;
  deletions and crashes may come between any two. `PoolStaysTrue` (for
  `Crashes = FALSE`, as its run has it) needs that file and network of a user
  change together and that the pool has the user whenever there is a network
  (`PoolAgrees`), also when another user reclaims the VLAN, and when the call
  stops after the pool has changed: the user then has a VLAN, and no network or
  one from before that has another (`portless`).
  `ControllerImplementsLedger` needs that `public` changes only in the actions
  that map to ledger steps, and that the file of the public records is torn only
  by a death in its write, which is the ledger's `Lose`; from then on neither the
  saved nor the served ledger is there, as no constructor gets past it.
  `Natted` and `AssociatedOnce` follow the rules and the records through
  `StartDone`.
- `ComputeNode_proofs`: `NothingUnmanaged` from `Managed`. A domain is accounted
  for by the table, or, while adopting, by the list still to visit; a job
  belongs to an entry without a domain; a shutdown timer never stands for a name
  that is or will be a domain, which is what makes its late ticks harmless; a
  message to be redelivered finds no timer. `RunningKeepsDomain` adds that the
  object an alias was given at adoption is never launched (`AliasesAdopted`) and
  that no name is adopted twice: a second name for an object would let a timer
  forget a running one. `ShutdownsForget` is the safety half of `ShutdownsEnd`:
  a timer goes away only with its name out of the table, since after the first
  tick nothing enters the name again (`FiredForgotten`).
- `CloudInstances_proofs`: `CloudImplementsRegistry` and `TerminatesGoHome` from
  `Placed`. Whatever mentions an instance together with a node, a table, the
  view, a report however old, a queued terminate, a domain, mentions the node
  that took its run message (`Homes`). A run message is out once, in the queue
  for an instance no node has (`Queued`) or unacknowledged at one node that has
  told nobody yet (`Held`): its main thread, which reports, waits. That is why a
  second node may take the message of one that died and the listing never
  shows two: what the first had is gone, unless the domain survived it, and
  those ids (`twice`) are the registry's `doubtful` ones. The steps of the
  registry are the acknowledgement, which places the instance
  (`AcknowledgedIsPlaced`; taking the message does not, `TakenHasNoHome`), and
  the crash, which puts it in doubt (`CrashedIsDoubtful`).
  `InstancesStayVisible` needs two more facts: while a node or its
  hypervisor has an id, no report with it is followed by one without (`InOrder`),
  which holds because a node that runs has every domain in its table, also after
  a restart (`Hosted`). `UsersHaveOneVpn` then needs no count: the cron acts only
  when no VPN instance of the user is listed, and one that is anywhere, or whose
  message is under way or comes back, is listed.
  Its assumption, that callers do not terminate VPN instances, is what the
  run assumes too: an instance shown as `SHUTDOWN` lets the cron start the next.
  `PendingIsCarried` is the safety half of `PendingEnds`. An instance that is
  pending was never listed under a node, so no terminate of it was sent
  (`Clean`), and what is queued stays queued or comes to a node, and comes back
  to the queue when that node dies before it acknowledged (`LiveStays`,
  `ReturnedWaits`).
  `DelistedForGood` is that of `ListingCatchesUp`: among the listing and the
  reports of one node, one without an instance after one with it is followed by
  none with it (`NoReturn`, beside `InOrder`), and a node gets instances from
  the queue of run messages only, where none comes back whose message was
  acknowledged (`Settled`, `OnlyQueuedArrive`).
- `VolumeStore_proofs`: `DevicesAreOwn` and `DevicesStay` from `Known`, which
  says what a handler in progress knows of its volume's record and export; a
  device whose set-up failed is excepted (`bare`), since its record is saved
  without an export and the next volume gets the same number;
  `NextIsFree` shows that the next number is not in use while shelves have one
  digit, from the maximum of a set of devices. `HostUnderCloud`: every step of
  `CloudVolumes` is one of `VolumeStore` or none, since the controller's view
  and the reports mention only volumes that were given out (`CloudKnown`); so
  both properties hold of the composition (`DevicesAreOwnUnderCloud`).
  `NothingIsLeft` is `NoDiskLeft` for callers who wait for the listing. Its
  invariant `Patient` speaks of what is under way for one volume. `InStep`: at
  most one request of a volume is with the host, and it asks for what the caller
  wants; until the host has saved it, no record, report or view shows it done
  (`NotShownYet`), afterwards the record does (`DoneAsWanted`), and no report
  that shows it is followed by an older one (`ShownInOrder`). A death of the host
  puts the message behind others, which cannot matter, as those concern other
  volumes. It follows that a caller who sees his last request done sees the
  volume as its record is. `DisksOwned` and `CommandsOwned` then account for
  every disk and every attach command on its way to a node: a caller wants it
  there, or a detach for that name follows it, or, for a disk, virsh has failed
  to detach it (`stuck`). `DisksAreWanted` states this for
  every moment, `NothingIsLeft` what it comes to when nothing is under way. The
  proof does not need the name in the instance to be free: an attach at a
  name that another volume has is refused by virsh, and the disk under the name
  is still one that a caller wants there. The run therefore allows it.
  `DeletesAreKept` is the safety half of `DeletesHappen`: the delete of a
  recorded volume is in the queue or in the handler until record and logical
  volume are gone, or a death tears the record (`RemovalKnown`). Where
  `lvremove` itself failed the record is gone and the logical volume stays.
- `ImageStore_proofs`: `PrivateByDefault`, `AvailableIsLaunchable`,
  `CreatedOnce`, `DeleteIsFinal` and `PublicStaysPublic` from `Kept`, which adds what the handler and
  the creating processes know of the files between two of their steps; here the
  invariants need each other and are proved together. What was granted is over
  (`GrantedIsOver`): no process holds an older text of `info.json`.
  `RegisteredIsAvailable` is the safety half of `RegistrationEnds`: an image
  whose creating process came to its end, and that was not named since, is
  available and has its file; of the processes of one id no other ever wrote
  (`Wrote`, `Registered`).
- `BucketStore_proofs`: `ObjectsStayWithOwner`, `OwnersKeepBuckets`,
  `DamageIsConfined` and `ImagesOfOwner` from `Kept`: a bucket that is being made
  is empty and read by nobody, one that is being removed has no directory
  (`ServingKnows`), a PUT is its owner's (`PuttingKnows`), and a registration
  whose bucket was not deleted still has the owner it was given (`SameBucket`).
  All four except the buckets that a key of somebody without a right to them led
  to, and only those (`strayed`): such a key may make or damage objects, rewrite
  an owner and be read by a registration, and the proofs show that it reaches no
  other bucket. Only a key that led to it has an owner file rewritten
  (`OwnerFilesStray`).
- `UserDirectory_proofs`: `PortsAreOwn` and `AnsweredKeysStay` from `Kept`: while
  calls do not overlap one process at most changes the file, what it will write
  extends what the file holds, and ports that were given are in both
  (`HoldersExtend`, `GivenKept`). `NextPortIsFree` is the arithmetic, from the
  maximum of a set of ports. `DeletionsAreWhole` is the safety half of
  `DeletionEnds`: what a deletion nobody disturbed still visits are exactly the
  key pairs that are there (`DeletionsKnow`), so that it does not end before the
  user can be removed.

Only model-checked: the liveness properties `PendingEnds`, `ListingCatchesUp`,
`LaunchesEnd`, `ShutdownsEnd`, `DeletesHappen`, `RegistrationEnds` and
`DeletionEnds`, as the prover has no rule for fairness. For all but
`LaunchesEnd` the safety half is proved: that nothing is lost on the way, or what
the end leaves behind. That the end comes is TLC's. Every safety and action property of a passing run has its
theorem.

## 6. Where code and documents part

Shown by runs that are expected to fail:

- `net_reclaimed`: after one deletion two users get the same VLAN, because
  `VlanPool.next` (network.py:421) leaves the deleted user's entry in place.
- `node_resurrect`: `_launch` (node.py:429) starts an instance terminated while
  its image was built.

Seen in the models, without a run of their own:

- The last and the first VLAN of the range are never given out
  (network.py:428-430), and a restarted controller whose pool is full cannot
  construct itself when a listed user has no file (network.py:430, `Stop`).
- A crash between a new user's file and the pool's file leaves a network whose
  user the pool does not know; the next `_save` dies of a KeyError at :556.
- The keeper opens a file with 'w' and then writes (datastore.py:43-44). A death
  in between leaves an empty file: with the VLANs, the list of users or the
  public records every start of the controller raises, and the records are gone;
  with a user's network every call for him, and every start that lists him.
- `user.vpn_port` is evaluated after `vlan_pool.next` has changed the pool
  (network.py:486-491); when it raises, the user is in the pool without a
  network.
- A run message that a node has handled and not acknowledged when it dies
  (rpc.py:87-91) goes to any node. If the first had started the domain and the
  host lives, the instance runs on two nodes, and the listing shows whichever
  reports.
- `disassociate_address` always ends in a TypeError before it changes anything
  (network.py:331 passes a record where :338 wants an address), so that an
  association ends only with a release; a release of an address raises a
  KeyError between its change and its save and leaves the NAT rules (:310-312).
- A terminated instance whose domain is already gone never leaves the node's
  table (node.py:381).
- `reboot_instances` of the cloud controller names a flag that nothing defines
  (`FLAGS.node_topic`, cloud.py:471) and raises; the model of the cloud
  controller has no reboot message for that reason, while `ComputeNode` has the
  handler.
- A volume whose deletion is cut after the export is gone frees its AoE number
  while its record still names it: a later volume gets the number and the
  redelivered delete takes that one's export away. `OwnDevice` says so by its
  exception `cut`. Nobody looks at the exit codes of the commands
  (utils.py:57-59): when `vblade-persist setup` fails (storage.py:243) the record
  is saved with a device that exports nothing, and the next volume gets the same
  one; when `lvremove` fails (:237) the record is deleted (:215) and the logical
  volume stays. Shelf 10 sorts before shelf 2 and its numbers start again
  (exception `wrapped`). Two volume hosts on one network give out the same
  numbers.
- `adopt_instances` (node.py:92) enters the previous turn's object under a name
  it could not adopt.
- Nothing keeps a volume from being attached twice or deleted while attached
  (smoketest.py:451 has a fixme for the test). A detach on a view that does not
  show the attachment yet, or of an instance that no node has reported since the
  controller restarted, leaves the disk in the instance. A caller who waits for
  the listing is safe from that (`NoDiskLeft`) unless the host dies between a
  report and its acknowledgement; but even for him a freed device may be another
  volume's before a slow compute node has detached the disk.
- `attach_volume` gives virsh the last part of the mount point, `detach_volume`
  all of it (node.py:168, 180): a disk attached as `/dev/vdb` is not detached.
  The exit code is not looked at either, and the command ends in a space, of
  which `split(" ")` makes an empty argument: where virsh refuses that, no disk
  is ever detached, while the record says so.
- A bucket's directory without an owner file, left by a server that died, gets
  the owner of a file that an earlier bucket of that name left behind. A bucket
  named `<name>.json` is a directory where the owner file of `<name>` should be:
  creating `<name>` then leaves a directory without an owner.
- `_object_path` compares the beginning of a path that is not normalised
  (bucket.py:127-133), and the handler unquotes the key (handler.py:201). The key
  `../b2/obj` of a request for one's own bucket `b1` is an object of `b2`,
  `../b2.json` the owner file of `b2`; the file names in a manifest
  (image.py:116-117) likewise. What the properties of `BucketStore` say of a
  bucket, they say as long as no such key led to it.
- The bucket listing with a prefix or marker raises a NameError: bucket.py uses
  bisect and does not import it.
- Overlapping calls of `vpn_port` lose an entry, and the port that was told goes
  to another user; a death in the write leaves a file that does not parse and
  every later call raises. `setup_keypair` calls `save` on a string and swallows
  the exception, so that the private key of a VPN is lost (pipelib.py:45-49).
- A POST answered during a registration is undone by the next `write_state`
  (image.py:103); `MadePublic` excepts it.
- A POST that overlaps a `write_state` also brings back an older state or leaves
  an unreadable `info.json`, which can then not be deleted either; a DELETE
  during a registration is followed by a new `info.json`.

## 7. Not modelled

- `NetworkController.reset`, used by tests only; interface, bridge and dnsmasq
  commands.
- In `CloudVolumes`, a controller that dies between the two messages of an
  attach, and redelivery of an attach or detach to a compute node; the controller's view of instances
  is a choice in `DetachVolume` (`CloudInstances` has that view).
- In `BucketStore`, GET and listings, which read only; keys and names that lead
  to files other than objects and owner files of buckets (images, for one), or
  into no bucket. In `UserDirectory`,
  credentials, which are files built from a port and keys that openssl makes;
  roles and projects, which are constants in this code.
- `rpc.call`'s reply queue and poller: the callers modelled do not wait for the
  answer. That a poller without a reply never stops is a listed hazard.
- The EC2 endpoint and the admin API (`endpoint/api.py`, `admin.py`): they turn
  requests into calls and results into XML and keep no state. Signatures and
  keys (`signer.py`, `crypto.py`): computations and calls of openssl.
- `disk.py`, a pipeline of commands inside one step of a launch; daemonization,
  flags and helpers; the test doubles (`fakerabbit`, `fakevirt`, `fakeldap`);
  vendored libraries under `nova/contrib`.

## 8. The plan

Order of work, the most important behaviour first. Items 1 to 10 are done.

1. `Addressing`, `NetworkController`, `AddressLedger`: addresses and their
   durability.
2. `ComputeNode`: launches, timers, adoption.
3. `InstanceRegistry`, `CloudInstances`: the listing over nodes and queues.
4. `ImageStore`.
5. `VolumeStore`.
6. `BucketStore`: directory and owner file, objects, registrations that read.
7. `UserDirectory`: key pairs, deletion key by key, the file of the ports.
8. `CloudVolumes`, composed with `VolumeStore`, whose run it has taken over.
9. Proofs of `SavedWhenAcknowledged`, `PoolMatchesNetworks`, `NothingInvisible`,
   `AtMostOneVpn` and `RunningHasDomain`.
10. Proofs of `NoDiskLeft` and of the safety halves of the liveness properties.
11. The reply queue of `rpc.call` with its poller, once there is a caller whose
    state depends on an answer.
