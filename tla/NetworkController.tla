-------------------------- MODULE NetworkController --------------------------
(***************************************************************************)
(* nova/compute/network.py: the network controller that lives inside the   *)
(* nova-api process.  It keeps the VLAN pool, one private network per user *)
(* and the public network in memory, and the same facts in the files of    *)
(* the "net" keeper (nova/datastore.py), one file per key, no locking and  *)
(* no transaction.  A handler runs to its first file write in one action;  *)
(* every further write is an action of its own, so that the process can    *)
(* die, and an administrator can change the directory of users, between    *)
(* any two of them.  A file is opened, and so emptied, before it is        *)
(* written: a death in between leaves it torn, and reading it raises from  *)
(* then on.  A definition that no other one uses is a mutated form of the  *)
(* one below it, with a plausible bug.                                     *)
(***************************************************************************)
EXTENDS Addressing, FiniteSets

CONSTANTS
  Users,        \* user ids
  Deletable,    \* the users an administrator may delete
  InstanceIPs,  \* private addresses of the instances the cloud controller lists
  Crashes,      \* may the process die
  None

VARIABLES
  ldap,          \* UserManager: the users that exist
  vlans,         \* VlanPool.vlans: user -> VLAN
  vlanpool,      \* the keys of VlanPool.vlanpool
  private_nets,  \* NetworkController.private_nets: user -> network
  public,        \* PublicNetwork.hosts
  kNet,          \* KEEPER["<user>-default"]
  kPrivate,      \* KEEPER["private"]: the users listed in it
  kPublic,       \* KEEPER["public"]["hosts"]
  kVlans,        \* KEEPER["vlans"]["vlans"]
  torn,          \* the files a death left empty: a user stands for its network
  nat,           \* iptables DNAT/SNAT pairs <<public, private>> in the kernel
  pc,            \* what the process is doing
  fresh,         \* the user whose new network is still to be written
  left,          \* the users the current loop has not visited
  listed,        \* _save: the users put into obj['networks'] so far
  target,        \* deallocate_address: the address looked for
  reply          \* outcome of the last call

(* History, which no guard reads: the users that were given a VLAN and no  *)
(* network, because reading their VPN port raised.                         *)
VARIABLE portless

memory == <<vlans, vlanpool, private_nets, public>>
keeper == <<kNet, kPrivate, kPublic, kVlans, torn>>
loop   == <<fresh, left, listed, target>>
vars   == <<ldap, portless, memory, keeper, nat, pc, loop, reply>>

(* The files that are not a user's network.                                *)
Shared == {"vlans", "private", "public"}

PrivateAddresses == 0 .. (SubnetStart(VlanEnd) - 1)
Nets    == [vlan : Vlans, hosts : SUBSET PrivateAddresses]
Records == [owner : Users, private : InstanceIPs \cup {None}]

ASSUME UserAssumption == Deletable \subseteq Users /\ Crashes \in BOOLEAN
ASSUME InstanceAssumption == InstanceIPs \subseteq PrivateAddresses
ASSUME NoneAssumption ==
  Users \cap Shared = {} /\ None \notin Users \cup InstanceIPs \cup PrivateAddresses \cup Vlans
  /\ None \notin Nets /\ None \notin Records
  /\ None \notin [PublicAddresses -> Records \cup {None}]

Errors == {"NoUser", "OutOfVlans", "NoMoreAddresses", "AddressNotAllocated",
           "AddressNotAssociated", "AddressAlreadyAssociated",
           "KeyError", "TypeError", "ValueError"}

TypeOK ==
  /\ ldap \subseteq Users
  /\ vlans \in [Users -> Vlans \cup {None}]
  /\ vlanpool \subseteq Vlans
  /\ private_nets \in [Users -> Nets \cup {None}]
  /\ public \in [PublicAddresses -> Records \cup {None}]
  /\ kNet \in [Users -> Nets \cup {None}]
  /\ kPrivate \subseteq Users
  /\ kPublic \in [PublicAddresses -> Records \cup {None}]
  /\ kVlans \in [Users -> Vlans \cup {None}]
  /\ torn \subseteq Users \cup Shared
  /\ portless \subseteq Users
  /\ nat \subseteq PublicAddresses \X InstanceIPs
  /\ pc \in {"down", "start", "idle", "describe", "deallocate",
             "nets", "private", "public", "vlans"}
  /\ fresh \in Users \cup {None}
  /\ left \subseteq Users
  /\ listed \subseteq Users
  /\ target \in PrivateAddresses \cup {None}
  /\ reply \in {"none", "ok"} \cup Errors

NoUsers   == [u \in Users |-> None]
NoRecords == [p \in PublicAddresses |-> None]

(* The default files are there: the first start wrote them, or died in it. *)
Init ==
  /\ ldap \in SUBSET Users /\ portless = {}
  /\ vlans = NoUsers /\ vlanpool = {}
  /\ private_nets = NoUsers /\ public = NoRecords
  /\ kNet = NoUsers /\ kPrivate = {} /\ kPublic = NoRecords /\ kVlans = NoUsers
  /\ torn = {} \/ \E f \in Shared : Crashes /\ torn = {f}
  /\ nat = {}
  /\ pc = "down" /\ reply = "none"
  /\ fresh = None /\ left = {} /\ listed = {} /\ target = None

-----------------------------------------------------------------------------
(* The directory, changed by nova-manage and the admin API.                *)

CreateUser(u) ==
  /\ u \notin ldap
  /\ ldap' = ldap \cup {u}
  /\ UNCHANGED <<portless, memory, keeper, nat, pc, loop, reply>>

DeleteUser(u) ==
  /\ u \in Deletable \cap ldap
  /\ ldap' = ldap \ {u}
  /\ UNCHANGED <<portless, memory, keeper, nat, pc, loop, reply>>

-----------------------------------------------------------------------------
(* VlanPool *)

(* Entries of the pool whose user is gone: the first one found is reused.  *)
Stale == {o \in Users : vlans[o] # None /\ o \notin ldap}

IsNextVlan(v) ==
  \E m \in vlanpool \cup {VlanStart} :
    /\ \A w \in vlanpool \cup {VlanStart} : w <= m
    /\ v = m + 1

assign_vlan_uncounted(u, v) ==
  /\ vlans' = [vlans EXCEPT ![u] = v]
  /\ UNCHANGED vlanpool

assign_vlan(u, v) ==
  /\ vlans' = [vlans EXCEPT ![u] = v]
  /\ vlanpool' = vlanpool \cup {v}

(* KEEPER["<user>-default"] is emptied and deleted.                        *)
RemoveFile(o) == kNet' = [kNet EXCEPT ![o] = None] /\ torn' = torn \ {o}

(* The mutated form forgets the user that is gone.                         *)
next_forgetting(u, v) ==
  \/ \E o \in Stale :
       /\ v = vlans[o]
       /\ RemoveFile(o)
       /\ vlans' = [vlans EXCEPT ![o] = None, ![u] = v]
       /\ vlanpool' = vlanpool \cup {v}
  \/ /\ Stale = {}
     /\ IsNextVlan(v)
     /\ v # VlanEnd
     /\ UNCHANGED <<kNet, torn>>
     /\ assign_vlan(u, v)

(* VlanPool.next.  The entry of the user that is gone stays in vlans.      *)
next(u, v) ==
  \/ \E o \in Stale :
       /\ v = vlans[o]
       /\ RemoveFile(o)
       /\ assign_vlan(u, v)
  \/ /\ Stale = {}
     /\ IsNextVlan(v)
     /\ v # VlanEnd
     /\ UNCHANGED <<kNet, torn>>
     /\ assign_vlan(u, v)

NeedsVlan(u)  == kNet[u] = None /\ u \notin torn
OutOfVlans(u) == NeedsVlan(u) /\ Stale = {} /\ IsNextVlan(VlanEnd)

Fail(error) == pc' = "idle" /\ reply' = error

(* get_users_network for an existing user: the file wins over memory, and  *)
(* a user without a file gets a VLAN and a new, still unwritten network.   *)
UsersNetwork(u, v) ==
  \/ /\ kNet[u] # None /\ u \notin torn
     /\ v = kNet[u].vlan
     /\ UNCHANGED <<vlans, vlanpool, kNet, torn, fresh>>
  \/ /\ NeedsVlan(u)
     /\ next(u, v)
     /\ fresh' = u

(* It stops there when user.vpn_port raises, which it may whenever another *)
(* process has emptied the file of the ports or left it so: the pool has   *)
(* changed, the network is not made, and the call ends.                    *)
PortRaises(u) ==
  /\ u \in ldap
  /\ NeedsVlan(u)
  /\ \E v \in Vlans : next(u, v)
  /\ portless' = portless \cup {u}
  /\ Fail("ValueError")
  /\ left' = {} /\ target' = None
  /\ UNCHANGED <<ldap, private_nets, public, kPrivate, kPublic, kVlans, nat, fresh, listed>>

Network(u, v) == IF kNet[u] = None THEN [vlan |-> v, hosts |-> {}] ELSE kNet[u]

Install(u, net) == private_nets' = [private_nets EXCEPT ![u] = net]

WriteFreshFromDisk ==
  /\ fresh # None
  /\ kNet' = [kNet EXCEPT ![fresh] = [vlan |-> kVlans[fresh], hosts |-> {}]]
  /\ fresh' = None
  /\ UNCHANGED <<ldap, portless, memory, kPrivate, kPublic, kVlans, torn, nat, pc, left, listed, target, reply>>

(* KEEPER["<user>-default"] = usernet.to_dict() in get_users_network       *)
WriteFresh ==
  /\ fresh # None
  /\ kNet' = [kNet EXCEPT ![fresh] = [vlan |-> vlans[fresh], hosts |-> {}]]
  /\ fresh' = None
  /\ UNCHANGED <<ldap, portless, memory, kPrivate, kPublic, kVlans, torn, nat, pc, left, listed, target, reply>>

-----------------------------------------------------------------------------
(* Calls.  Idle: the handler of the next call may run.                     *)

Idle == pc = "idle" /\ fresh = None

BeginSaveTooEarly ==
  /\ pc' = "nets"
  /\ left' = {u \in Users : private_nets[u] # None}
  /\ reply' = "none"

(* Enter _save *)
BeginSave ==
  /\ pc' = "nets"
  /\ left' = {u \in Users : private_nets'[u] # None}
  /\ reply' = "none"

(* A call that stops before it has changed or written anything             *)
Refuse(error) ==
  /\ Fail(error)
  /\ UNCHANGED <<ldap, portless, memory, keeper, nat, loop>>

(* A call that needs the network of u and does not get one                 *)
NoNetwork(u) ==
  \/ u \notin ldap /\ Refuse("NoUser")
  \/ u \in ldap \cap torn /\ Refuse("ValueError")
  \/ PortRaises(u)
  \/ u \in ldap /\ OutOfVlans(u) /\ Refuse("OutOfVlans")

(* The rest of a call that has got the network of u, in VLAN v             *)
Others == <<ldap, portless, public, kPrivate, kPublic, kVlans, nat, listed>>

AllocateFrom(u, v) ==
  LET net == Network(u, v) IN
  /\ u \in ldap
  /\ UsersNetwork(u, v)
  /\ \/ /\ \E a \in PrivateRange(v) :
             /\ IsFirstFree(a, PrivateRange(v), net.hosts)
             /\ Install(u, [net EXCEPT !.hosts = @ \cup {a}])
        /\ BeginSave
     \/ /\ PrivateRange(v) \subseteq net.hosts
        /\ Install(u, net)
        /\ Fail("NoMoreAddresses")
        /\ left' = left
  /\ UNCHANGED <<Others, target>>

(* allocate_address(user_id) of type PrivateNetwork                        *)
AllocatePrivate(u) ==
  /\ Idle
  /\ NoNetwork(u) \/ \E v \in Vlans : AllocateFrom(u, v)

CloudpipeFrom(u, v) ==
  /\ u \in ldap
  /\ UsersNetwork(u, v)
  /\ Install(u, [Network(u, v) EXCEPT !.hosts = @ \cup {VpnAddress(v)}])
  /\ BeginSave
  /\ UNCHANGED <<Others, target>>

(* get_cloudpipe_address *)
GetCloudpipe(u) ==
  /\ Idle
  /\ NoNetwork(u) \/ \E v \in Vlans : CloudpipeFrom(u, v)

LookupFrom(u, v) ==
  /\ u \in ldap
  /\ UsersNetwork(u, v)
  /\ Install(u, Network(u, v))
  /\ reply' = "none"
  /\ UNCHANGED <<Others, target, pc, left>>

(* get_users_network, as the cloud controller calls it to fill a launch    *)
(* request                                                                 *)
GetUsersNetwork(u) ==
  /\ Idle
  /\ NoNetwork(u) \/ \E v \in Vlans : LookupFrom(u, v)

(* allocate_address of type PublicNetwork, for a caller the API has        *)
(* authenticated                                                           *)
AllocatePublic(u) ==
  LET used == {p \in PublicAddresses : public[p] # None} IN
  /\ Idle /\ u \in ldap
  /\ \/ /\ PublicAddresses \subseteq used
        /\ Refuse("NoMoreAddresses")
     \/ \E p \in PublicAddresses :
          /\ IsFirstFree(p, PublicAddresses, used)
          /\ public' = [public EXCEPT ![p] = [owner |-> u, private |-> None]]
          /\ UNCHANGED private_nets
          /\ BeginSave
          /\ UNCHANGED <<ldap, portless, vlans, vlanpool, keeper, nat, fresh, listed, target>>

(* deallocate_address of a public address: the record is deleted and then  *)
(* deexpress looks it up, so the call dies of a KeyError and never saves.  *)
ReleasePublic(p) ==
  /\ Idle
  /\ \/ public[p] = None /\ Refuse("AddressNotAllocated")
     \/ /\ public[p] # None
        /\ public' = [public EXCEPT ![p] = None]
        /\ Fail("KeyError")
        /\ UNCHANGED <<ldap, portless, vlans, vlanpool, private_nets, keeper, nat, loop>>

Associated(p) == public[p] # None /\ public[p].private # None

TakenNever(x) == FALSE

Taken(x) == \E q \in PublicAddresses : Associated(q) /\ public[q].private = x

(* associate_address: PublicNetwork.associate_address, then _save          *)
Associate(p, x) ==
  /\ Idle
  /\ \/ public[p] = None /\ Refuse("AddressNotAllocated")
     \/ public[p] # None /\ (Taken(x) \/ Associated(p)) /\ Refuse("AddressAlreadyAssociated")
     \/ /\ public[p] # None
        /\ ~Taken(x)
        /\ ~Associated(p)
        /\ public' = [public EXCEPT ![p].private = x]
        /\ nat' = nat \cup {<<p, x>>}
        /\ UNCHANGED private_nets
        /\ BeginSave
        /\ UNCHANGED <<ldap, portless, vlans, vlanpool, keeper, fresh, listed, target>>

(* disassociate_address hands the record, a dict, to deexpress, which uses *)
(* it as a key: TypeError before anything has changed.                     *)
Disassociate(p) ==
  /\ Idle
  /\ \/ public[p] = None /\ Refuse("AddressNotAllocated")
     \/ public[p] # None /\ ~Associated(p) /\ Refuse("AddressNotAssociated")
     \/ Associated(p) /\ Refuse("TypeError")

Known == {u \in Users : private_nets[u] # None}

-----------------------------------------------------------------------------
(* Loops over get_users_network: describe_addresses, deallocate_address    *)
(* and the constructor.                                                    *)

Describe ==
  /\ Idle
  /\ pc' = "describe" /\ left' = Known /\ reply' = "none"
  /\ UNCHANGED <<ldap, portless, memory, keeper, nat, fresh, listed, target>>

Abandon(error) ==
  /\ Fail(error)
  /\ left' = {} /\ target' = None
  /\ UNCHANGED <<ldap, portless, memory, keeper, nat, fresh, listed>>

VisitFrom(u, v) ==
  /\ u \in ldap
  /\ UsersNetwork(u, v)
  /\ Install(u, Network(u, v))
  /\ left' = left \ {u}
  /\ UNCHANGED <<Others, target, pc, reply>>

DescribeUser(u) ==
  /\ pc = "describe" /\ fresh = None /\ u \in left
  /\ \/ u \notin ldap /\ Abandon("NoUser")
     \/ u \in ldap /\ OutOfVlans(u) /\ Abandon("OutOfVlans")
     \/ PortRaises(u)
     \/ \E v \in Vlans : VisitFrom(u, v)

DescribeDone ==
  /\ pc = "describe" /\ fresh = None /\ left = {}
  /\ pc' = "idle" /\ reply' = "none"
  /\ UNCHANGED <<ldap, portless, memory, keeper, nat, loop>>

(* deallocate_address of a private address *)
DeallocatePrivate(a) ==
  /\ Idle
  /\ pc' = "deallocate" /\ left' = Known /\ target' = a /\ reply' = "none"
  /\ UNCHANGED <<ldap, portless, memory, keeper, nat, fresh, listed>>

DeallocateFrom(u, v) ==
  LET net == Network(u, v) IN
  /\ u \in ldap
  /\ UsersNetwork(u, v)
  /\ \/ /\ target \notin Subnet(v)
        /\ Install(u, net)
        /\ left' = left \ {u}
        /\ UNCHANGED <<pc, target, reply>>
     \/ /\ target \in Subnet(v) \ net.hosts
        /\ Install(u, net)
        /\ Fail("AddressNotAllocated")
        /\ left' = {} /\ target' = None
     \/ /\ target \in Subnet(v) \cap net.hosts
        /\ Install(u, [net EXCEPT !.hosts = @ \ {target}])
        /\ BeginSave
        /\ target' = None
  /\ UNCHANGED Others

DeallocateUser(u) ==
  /\ pc = "deallocate" /\ fresh = None /\ u \in left
  /\ \/ /\ u \notin ldap
        /\ left' = left \ {u}
        /\ UNCHANGED <<ldap, portless, memory, keeper, nat, pc, fresh, listed, target, reply>>
     \/ u \in ldap /\ OutOfVlans(u) /\ Abandon("OutOfVlans")
     \/ PortRaises(u)
     \/ \E v \in Vlans : DeallocateFrom(u, v)

DeallocateNotFound ==
  /\ pc = "deallocate" /\ fresh = None /\ left = {}
  /\ Abandon("AddressNotAllocated")

-----------------------------------------------------------------------------
(* _save, one file at a time *)

SaveNet(u) ==
  /\ pc = "nets" /\ fresh = None /\ u \in left
  /\ \/ /\ u \notin ldap
        /\ left' = left \ {u}
        /\ UNCHANGED <<kNet, listed, pc, reply>>
     \/ /\ u \in ldap
        /\ vlans[u] = None
        /\ Fail("KeyError")
        /\ left' = {} /\ listed' = {}
        /\ UNCHANGED kNet
     \/ /\ u \in ldap
        /\ vlans[u] # None
        /\ kNet' = [kNet EXCEPT ![u] = private_nets[u]]
        /\ left' = left \ {u}
        /\ listed' = listed \cup {u}
        /\ UNCHANGED <<pc, reply>>
  /\ UNCHANGED <<ldap, portless, memory, kPrivate, kPublic, kVlans, torn, nat, fresh, target>>

SavePrivate ==
  /\ pc = "nets" /\ fresh = None /\ left = {}
  /\ kPrivate' = listed
  /\ pc' = "private"
  /\ listed' = {}
  /\ UNCHANGED <<ldap, portless, memory, kNet, kPublic, kVlans, torn, nat, fresh, left, target, reply>>

SavePublicBare ==
  /\ pc = "private"
  /\ kPublic' = [p \in PublicAddresses |->
                   IF public[p] = None THEN None ELSE [public[p] EXCEPT !.private = None]]
  /\ pc' = "public"
  /\ UNCHANGED <<ldap, portless, memory, kNet, kPrivate, kVlans, torn, nat, loop, reply>>

SavePublic ==
  /\ pc = "private"
  /\ kPublic' = public
  /\ pc' = "public"
  /\ UNCHANGED <<ldap, portless, memory, kNet, kPrivate, kVlans, torn, nat, loop, reply>>

SaveVlans ==
  /\ pc = "public"
  /\ kVlans' = vlans
  /\ pc' = "idle"
  /\ reply' = "ok"
  /\ UNCHANGED <<ldap, portless, memory, kNet, kPrivate, kPublic, torn, nat, loop>>

-----------------------------------------------------------------------------
(* The process dies, perhaps with the whole host, whose rules then go too. *)

Stop ==
  /\ pc' = "down" /\ reply' = "none"
  /\ vlans' = NoUsers /\ vlanpool' = {}
  /\ private_nets' = NoUsers /\ public' = NoRecords
  /\ fresh' = None /\ left' = {} /\ listed' = {} /\ target' = None

(* The files the process may be writing: a new network, the network of a   *)
(* user that is gone before its VLAN is reused, the next one of _save.     *)
InWrite ==
  LET serving == fresh = None /\ pc \in {"start", "idle", "describe", "deallocate"} IN
  {u \in Users : \/ u = fresh
                 \/ serving /\ u \in Stale /\ \E w \in ldap : NeedsVlan(w)
                 \/ pc = "nets" /\ fresh = None /\ u \in left \cap ldap /\ vlans[u] # None}
  \cup {f \in Shared : \/ f = "private" /\ pc = "nets" /\ fresh = None /\ left = {}
                       \/ f = "public" /\ pc = "private"
                       \/ f = "vlans" /\ pc = "public"}

Crash ==
  /\ Crashes
  /\ pc # "down"
  /\ Stop
  /\ torn' = torn \/ \E f \in InWrite : torn' = torn \cup {f}
  /\ nat' \in {nat, {}}
  /\ UNCHANGED <<ldap, portless, kNet, kPrivate, kPublic, kVlans>>

RulesNotRebuilt(records) == {}

(* PublicNetwork.express() for all records                                 *)
Rules(records) ==
  {<<p, records[p].private>> : p \in
     {q \in PublicAddresses : records[q] # None /\ records[q].private # None}}

(* NetworkController.__init__: the pool, then the private networks of the  *)
(* users listed, then the public network, whose express() rebuilds the     *)
(* rules of every association.  It raises at the first torn file it reads. *)
StartRaises ==
  /\ pc = "down"
  /\ torn \cap {"vlans", "private"} # {}
  /\ UNCHANGED vars

Start ==
  /\ pc = "down"
  /\ torn \cap {"vlans", "private"} = {}
  /\ pc' = "start"
  /\ vlans' = kVlans
  /\ vlanpool' = {v \in Vlans : \E u \in Users : kVlans[u] = v}
  /\ left' = kPrivate
  /\ UNCHANGED <<ldap, portless, private_nets, public, keeper, nat, fresh, listed, target, reply>>

StartUser(u) ==
  /\ pc = "start" /\ fresh = None /\ u \in left
  /\ \/ /\ u \notin ldap
        /\ left' = left \ {u}
        /\ UNCHANGED <<ldap, portless, memory, keeper, nat, pc, fresh, listed, target, reply>>
     \/ /\ u \in ldap
        /\ u \in torn \/ OutOfVlans(u)
        /\ Stop
        /\ UNCHANGED <<ldap, portless, keeper, nat>>
     \/ /\ u \in ldap
        /\ NeedsVlan(u)
        /\ \/ \E o \in Stale : RemoveFile(o)
           \/ Stale = {} /\ UNCHANGED <<kNet, torn>>
        /\ Stop
        /\ UNCHANGED <<ldap, portless, kPrivate, kPublic, kVlans, nat>>
     \/ \E v \in Vlans : VisitFrom(u, v)

StartDone ==
  /\ pc = "start" /\ fresh = None /\ left = {}
  /\ \/ /\ "public" \in torn
        /\ Stop
        /\ UNCHANGED <<ldap, portless, keeper, nat>>
     \/ /\ "public" \notin torn
        /\ public' = kPublic
        /\ nat' = nat \cup Rules(kPublic)
        /\ pc' = "idle"
        /\ UNCHANGED <<ldap, portless, vlans, vlanpool, private_nets, keeper, loop, reply>>

-----------------------------------------------------------------------------
Next ==
  \/ \E u \in Users :
       \/ CreateUser(u) \/ DeleteUser(u)
       \/ AllocatePrivate(u) \/ GetCloudpipe(u) \/ GetUsersNetwork(u)
       \/ AllocatePublic(u)
       \/ DescribeUser(u) \/ DeallocateUser(u) \/ SaveNet(u) \/ StartUser(u)
  \/ \E p \in PublicAddresses :
       \/ ReleasePublic(p) \/ Disassociate(p)
       \/ \E x \in InstanceIPs : Associate(p, x)
  \/ \E a \in PrivateAddresses : DeallocatePrivate(a)
  \/ WriteFresh \/ Describe \/ DescribeDone \/ DeallocateNotFound
  \/ SavePrivate \/ SavePublic \/ SaveVlans
  \/ Crash \/ StartRaises \/ Start \/ StartDone

Spec == Init /\ [][Next]_vars

-----------------------------------------------------------------------------
(* Properties *)

(* _save has finished and its outcome is known.                            *)
Acknowledged == pc = "idle" /\ reply = "ok"

(* Private isolation.  Two users that the VLAN pool has on record never    *)
(* hold the same private address, whatever the interleaving of calls,      *)
(* crashes and restarts: the subnet of the one is apart from the other's.  *)
(* Claimed where no user is ever deleted (Deletable = {}), as              *)
(* VlanPool.next breaks it otherwise, and not for a user who was given a   *)
(* VLAN and no network: the pool it is saved in and the network made later *)
(* may then differ.                                                        *)
AddressesNotShared ==
  \A u, w \in Users \ portless :
    /\ u # w
    /\ vlans[u] # None /\ vlans[w] # None
    /\ private_nets[u] # None /\ private_nets[w] # None
    => private_nets[u].hosts \cap private_nets[w].hosts = {}

(* Durability.  When a call has been answered after its _save, a restart   *)
(* would find what memory holds, in files that can be read: the public     *)
(* records, the VLAN pool, and the network of every user that cannot have  *)
(* been deleted, each of them listed for the constructor to load.          *)
SavedWhenAcknowledged ==
  Acknowledged =>
    /\ torn \cap Shared = {}
    /\ kPublic = public
    /\ kVlans = vlans
    /\ \A u \in ldap \ Deletable :
         private_nets[u] # None =>
           kNet[u] = private_nets[u] /\ u \in kPrivate /\ u \notin torn

(* While the process lives, the pool has every existing user that has a    *)
(* network on record, through deletions, re-creations, reclaimed VLANs and *)
(* calls that stop after the pool has changed; so _save, which looks the   *)
(* user up in the pool, never dies of a missing key.  And the VLAN on      *)
(* record is that of the network the user's addresses come from, unless a  *)
(* call of this user stopped there.  Claimed for a process that does not   *)
(* crash.                                                                  *)
PoolMatchesNetworks ==
  \A u \in ldap : private_nets[u] # None =>
    /\ vlans[u] # None
    /\ u \notin portless => vlans[u] = private_nets[u].vlan

(* Once the controller serves calls, every association it knows has its    *)
(* NAT rules in the kernel, also after the process or the host went down.  *)
AssociatedAreNatted ==
  pc \notin {"down", "start"} =>
    \A p \in PublicAddresses : Associated(p) => <<p, public[p].private>> \in nat

(* The public records the controller serves, and the saved ones it would   *)
(* start from.                                                             *)
Serving == IF pc \in {"down", "start"} THEN kPublic ELSE public

(* A private address answers for at most one public address, in the       *)
(* records served and in the saved ones, when a start can read these.      *)
OneAssociationPerInstance ==
  "public" \notin torn => \A rec \in {Serving, kPublic} : \A p, q \in PublicAddresses :
    /\ rec[p] # None /\ rec[q] # None
    /\ rec[p].private # None
    /\ rec[p].private = rec[q].private
    => p = q

(* What is left of records when their file can no longer be read.          *)
Legible(rec) == IF "public" \in torn THEN None ELSE rec

Ledger == INSTANCE AddressLedger
  WITH Addresses <- PublicAddresses, Owners <- Users, Targets <- InstanceIPs,
       now <- Legible(Serving), saved <- Legible(kPublic)

(* The controller implements the ledger: failed calls, the save loop, a    *)
(* death between two files or in the middle of one and the restart add no  *)
(* behaviour, in particular no record that was never allocated and no      *)
(* half-saved one: the ledger is the last one saved, or none is left.      *)
ImplementsLedger == Ledger!Spec

-----------------------------------------------------------------------------
(* What the documents say, and the code does not do.                       *)

(* README: "each user gets a subnet and vlan for their instances".         *)
EachUserOwnVlan ==
  \A u, w \in ldap :
    u # w /\ private_nets[u] # None /\ private_nets[w] # None
      => private_nets[u].vlan # private_nets[w].vlan
=============================================================================
