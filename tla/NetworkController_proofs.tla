----------------------- MODULE NetworkController_proofs -----------------------
(***************************************************************************)
(* Theorems about NetworkController, for every set of users, every VLAN    *)
(* range, every subnet size and every public range.                        *)
(***************************************************************************)
EXTENDS NetworkController, TLAPS

-----------------------------------------------------------------------------
(* Address arithmetic *)

(* NetworkPool.get_from_vlan gives two VLANs two subnets without a common  *)
(* address.                                                                *)
LEMMA SubnetsDisjoint ==
  ASSUME NEW v \in Vlans, NEW w \in Vlans, v # w
  PROVE  Subnet(v) \cap Subnet(w) = {}
<1>1. NetSize \in Nat \ {0} /\ v \in Int /\ w \in Int /\ VlanStart \in Int
  BY SizeAssumption, VlanAssumption DEF Vlans
<1>2. CASE v < w
  <2>1. SubnetStart(v) + NetSize <= SubnetStart(w)
    BY <1>1, <1>2, SizeAssumption DEF SubnetStart
  <2> QED BY <1>1, <2>1 DEF Subnet, SubnetStart
<1>3. CASE w < v
  <2>1. SubnetStart(w) + NetSize <= SubnetStart(v)
    BY <1>1, <1>3, SizeAssumption DEF SubnetStart
  <2> QED BY <1>1, <2>1 DEF Subnet, SubnetStart
<1> QED BY <1>1, <1>2, <1>3

(* Every address handed out in a subnet lies in it, and in the range that  *)
(* the pool covers.                                                        *)
LEMMA RangeInSubnet ==
  ASSUME NEW v \in Vlans
  PROVE  /\ PrivateRange(v) \cup {VpnAddress(v)} \subseteq Subnet(v)
         /\ Subnet(v) \subseteq PrivateAddresses
<1>1. NetSize \in Nat \ {0} /\ NetSize >= 4 /\ v \in Int /\ VlanStart \in Nat /\ VlanEnd \in Nat
      /\ VlanStart < v /\ v < VlanEnd
  BY SizeAssumption, VlanAssumption DEF Vlans
<1>2. SubnetStart(v) \in Nat /\ SubnetStart(v) + NetSize <= SubnetStart(VlanEnd)
      /\ SubnetStart(VlanEnd) \in Nat
  BY <1>1, SizeAssumption DEF SubnetStart
<1>3. PrivateRange(v) \cup {VpnAddress(v)} \subseteq Subnet(v)
  BY <1>1, <1>2 DEF PrivateRange, VpnAddress, Subnet, Range
<1>4. Subnet(v) \subseteq PrivateAddresses
  BY <1>1, <1>2 DEF Subnet, PrivateAddresses
<1> QED BY <1>3, <1>4

(* VlanPool.next counts within the usable range.                           *)
LEMMA NextVlanType ==
  ASSUME NEW v, vlanpool \subseteq Vlans, IsNextVlan(v), v # VlanEnd
  PROVE  v \in Vlans /\ v \notin vlanpool
BY VlanAssumption DEF IsNextVlan, Vlans

-----------------------------------------------------------------------------
(* Types *)

(* What get_users_network does to the pool and the files, and the network  *)
(* it returns, are well typed.                                             *)
LEMMA UsersNetworkType ==
  ASSUME TypeOK, NEW u \in Users, NEW v \in Vlans, UsersNetwork(u, v)
  PROVE  /\ vlans' \in [Users -> Vlans \cup {None}]
         /\ vlanpool' \subseteq Vlans
         /\ kNet' \in [Users -> Nets \cup {None}]
         /\ torn' \subseteq Users \cup Shared
         /\ fresh' \in Users \cup {None}
         /\ Network(u, v) \in Nets
<1> USE DEF TypeOK, RemoveFile, NeedsVlan
<1>1. Network(u, v) \in Nets
  BY DEF Network, Nets
<1>2. CASE kNet[u] # None
  BY <1>1, <1>2 DEF UsersNetwork, next
<1>3. CASE kNet[u] = None
  BY <1>1, <1>3 DEF UsersNetwork, next, assign_vlan
<1> QED BY <1>2, <1>3

(* An address book entry keeps its type when an address is added or taken. *)
LEMMA HostsType ==
  ASSUME NEW net \in Nets, NEW A \in SUBSET PrivateAddresses
  PROVE  /\ [net EXCEPT !.hosts = @ \cup A] \in Nets
         /\ [net EXCEPT !.hosts = @ \ A] \in Nets
BY DEF Nets

(* A step that has got the network of a user leaves every type intact.     *)
LEMMA NetworkStepType ==
  ASSUME TypeOK, NEW u \in Users, NEW v \in Vlans,
         \/ AllocateFrom(u, v) \/ CloudpipeFrom(u, v) \/ LookupFrom(u, v)
         \/ VisitFrom(u, v) \/ DeallocateFrom(u, v)
  PROVE  TypeOK'
<1> DEFINE net == Network(u, v)
<1>1. UsersNetwork(u, v)
  BY DEF AllocateFrom, CloudpipeFrom, LookupFrom, VisitFrom, DeallocateFrom
<1>2. /\ vlans' \in [Users -> Vlans \cup {None}]
      /\ vlanpool' \subseteq Vlans
      /\ kNet' \in [Users -> Nets \cup {None}]
      /\ torn' \subseteq Users \cup Shared
      /\ fresh' \in Users \cup {None}
      /\ net \in Nets
  BY <1>1, UsersNetworkType
<1>3. PrivateRange(v) \cup {VpnAddress(v)} \subseteq PrivateAddresses
  BY RangeInSubnet
<1>4. \A a \in PrivateAddresses :
        [net EXCEPT !.hosts = @ \cup {a}] \in Nets /\ [net EXCEPT !.hosts = @ \ {a}] \in Nets
  BY <1>2, HostsType
<1>5. ASSUME NEW n \in Nets, Install(u, n) PROVE private_nets' \in [Users -> Nets \cup {None}]
  BY <1>5 DEF Install, TypeOK
<1> HIDE DEF net
<1>6. ASSUME BeginSave PROVE pc' = "nets" /\ left' \subseteq Users /\ reply' = "none"
  BY <1>6 DEF BeginSave
<1>7. CASE AllocateFrom(u, v)
  BY <1>7, <1>2, <1>3, <1>4, <1>5, <1>6 DEF AllocateFrom, IsFirstFree, Fail, Others, TypeOK, Errors, net
<1>8. CASE CloudpipeFrom(u, v)
  BY <1>8, <1>2, <1>3, <1>4, <1>5, <1>6 DEF CloudpipeFrom, Others, TypeOK, net
<1>9. CASE LookupFrom(u, v)
  BY <1>9, <1>2, <1>5 DEF LookupFrom, Others, TypeOK, net
<1>10. CASE VisitFrom(u, v)
  BY <1>10, <1>2, <1>5 DEF VisitFrom, Others, TypeOK, net
<1>11. CASE DeallocateFrom(u, v)
  <2>1. Subnet(v) \subseteq PrivateAddresses
    BY RangeInSubnet
  <2> QED BY <1>11, <2>1, <1>2, <1>4, <1>5, <1>6 DEF DeallocateFrom, Fail, Others, TypeOK, Errors, net
<1> QED BY <1>7, <1>8, <1>9, <1>10, <1>11

(* A network still to be written has its VLAN in the pool and no file yet; *)
(* a process that is down has nothing to write and no network; and _save   *)
(* loops over the users that have a network.                               *)
Pending     == fresh # None => vlans[fresh] # None /\ kNet[fresh] = None
DownIsEmpty == pc = "down" => fresh = None /\ private_nets = NoUsers
SaveLoop    == pc = "nets" => \A u \in left : private_nets[u] # None

(* The step of a user's network sets up the write that is still pending.   *)
LEMMA NetworkStepPending ==
  ASSUME TypeOK, Pending, NEW u \in Users, NEW v \in Vlans, UsersNetwork(u, v)
  PROVE  Pending'
<1>1. CASE kNet[u] # None
  BY <1>1 DEF UsersNetwork, Pending, TypeOK, next, NeedsVlan
<1>2. CASE kNet[u] = None
  <2>1. fresh' = u /\ vlans'[u] = v /\ kNet'[u] = None
    BY <1>2 DEF UsersNetwork, TypeOK, next, assign_vlan, RemoveFile
  <2>2. v # None
    BY NoneAssumption
  <2> QED BY <2>1, <2>2 DEF Pending
<1> QED BY <1>1, <1>2

(* Every step keeps them.                                                  *)
LEMMA PendingStep ==
  ASSUME TypeOK, Pending, DownIsEmpty, SaveLoop, [Next]_vars
  PROVE  Pending' /\ DownIsEmpty' /\ SaveLoop'
<1> USE DEF Pending, DownIsEmpty, SaveLoop, memory, keeper, loop, Others
<1>0. ASSUME NEW u \in Users, PortRaises(u), fresh = None, pc \notin {"down", "nets"}
      PROVE  Pending' /\ DownIsEmpty' /\ SaveLoop'
  BY <1>0 DEF PortRaises, Fail
<1>1. ASSUME NEW u \in Users, NoNetwork(u), Idle PROVE Pending' /\ DownIsEmpty' /\ SaveLoop'
  BY <1>0, <1>1 DEF NoNetwork, Refuse, Fail, Idle
<1>2. ASSUME NEW u \in Users, NEW v \in Vlans, pc \notin {"down", "nets"},
             \/ AllocateFrom(u, v) \/ CloudpipeFrom(u, v) \/ LookupFrom(u, v)
             \/ VisitFrom(u, v) \/ DeallocateFrom(u, v)
      PROVE  Pending' /\ DownIsEmpty' /\ SaveLoop'
  <2>1. UsersNetwork(u, v)
    BY <1>2 DEF AllocateFrom, CloudpipeFrom, LookupFrom, VisitFrom, DeallocateFrom
  <2>2. pc' # "down"
    BY <1>2 DEF AllocateFrom, CloudpipeFrom, LookupFrom, VisitFrom, DeallocateFrom, BeginSave, Fail
  <2>3. SaveLoop'
    BY <1>2 DEF AllocateFrom, CloudpipeFrom, LookupFrom, VisitFrom, DeallocateFrom, BeginSave, Fail
  <2> QED BY <2>1, <2>2, <2>3, NetworkStepPending
<1>3. ASSUME NEW u \in Users, CreateUser(u) \/ DeleteUser(u) PROVE Pending' /\ DownIsEmpty' /\ SaveLoop'
  BY <1>3 DEF CreateUser, DeleteUser
<1>4. ASSUME NEW u \in Users, AllocatePrivate(u) \/ GetCloudpipe(u) \/ GetUsersNetwork(u)
      PROVE Pending' /\ DownIsEmpty' /\ SaveLoop'
  BY <1>1, <1>2, <1>4 DEF AllocatePrivate, GetCloudpipe, GetUsersNetwork, Idle
<1>5. ASSUME NEW u \in Users, AllocatePublic(u) PROVE Pending' /\ DownIsEmpty' /\ SaveLoop'
  BY <1>5 DEF AllocatePublic, Refuse, Fail, BeginSave
<1>6. ASSUME NEW p \in PublicAddresses, ReleasePublic(p) \/ Disassociate(p)
      PROVE Pending' /\ DownIsEmpty' /\ SaveLoop'
  BY <1>6 DEF ReleasePublic, Disassociate, Refuse, Fail
<1>7. ASSUME NEW p \in PublicAddresses, NEW x \in InstanceIPs, Associate(p, x)
      PROVE Pending' /\ DownIsEmpty' /\ SaveLoop'
  BY <1>7 DEF Associate, Refuse, Fail, BeginSave
<1>8. ASSUME NEW u \in Users, DescribeUser(u) \/ DeallocateUser(u) PROVE Pending' /\ DownIsEmpty' /\ SaveLoop'
  BY <1>0, <1>2, <1>8 DEF DescribeUser, DeallocateUser, Abandon, Fail
<1>9. ASSUME NEW u \in Users, SaveNet(u) PROVE Pending' /\ DownIsEmpty' /\ SaveLoop'
  BY <1>9 DEF SaveNet, Fail, TypeOK
<1>10. ASSUME NEW u \in Users, StartUser(u) PROVE Pending' /\ DownIsEmpty' /\ SaveLoop'
  BY <1>2, <1>10 DEF StartUser, Stop
<1>11. ASSUME NEW a \in PrivateAddresses, DeallocatePrivate(a) PROVE Pending' /\ DownIsEmpty' /\ SaveLoop'
  BY <1>11 DEF DeallocatePrivate
<1>12. CASE WriteFresh
  BY <1>12 DEF WriteFresh
<1>13. CASE Describe \/ DescribeDone \/ DeallocateNotFound
  BY <1>13 DEF Describe, DescribeDone, DeallocateNotFound, Abandon, Fail
<1>14. CASE SavePrivate \/ SavePublic \/ SaveVlans
  BY <1>14 DEF SavePrivate, SavePublic, SaveVlans
<1>15. CASE Crash
  BY <1>15 DEF Crash, Stop
<1>16. CASE Start \/ StartDone
  BY <1>16 DEF Start, StartDone, Stop
<1>17. CASE StartRaises \/ UNCHANGED vars
  BY <1>17 DEF StartRaises, vars
<1> HIDE DEF Pending, DownIsEmpty, SaveLoop
<1> QED BY <1>3, <1>4, <1>5, <1>6, <1>7, <1>8, <1>9, <1>10, <1>11, <1>12, <1>13, <1>14,
           <1>15, <1>16, <1>17 DEF Next

(* Each variable always has its type.                                      *)
THEOREM TypeCorrect == Spec => [](TypeOK /\ Pending /\ DownIsEmpty /\ SaveLoop)
<1>1. Init => TypeOK /\ Pending /\ DownIsEmpty /\ SaveLoop
  BY DEF Init, TypeOK, NoUsers, NoRecords, Pending, DownIsEmpty, SaveLoop
<1>2. ASSUME TypeOK, Pending, DownIsEmpty, SaveLoop, [Next]_vars PROVE TypeOK'
  <2> USE <1>2 DEF TypeOK, memory, keeper, loop, Errors
  <2>0. ASSUME NEW u \in Users, PortRaises(u) PROVE TypeOK'
    BY <2>0 DEF PortRaises, next, assign_vlan, RemoveFile, Fail
  <2>1. ASSUME NEW u \in Users, NoNetwork(u) PROVE TypeOK'
    BY <2>0, <2>1 DEF NoNetwork, Refuse, Fail
  <2>2. ASSUME NEW u \in Users, CreateUser(u) \/ DeleteUser(u) PROVE TypeOK'
    BY <2>2, UserAssumption DEF CreateUser, DeleteUser
  <2>3. ASSUME NEW u \in Users, AllocatePrivate(u) \/ GetCloudpipe(u) \/ GetUsersNetwork(u)
        PROVE TypeOK'
    <3> HIDE DEF TypeOK
    <3> QED BY <2>1, <2>3, NetworkStepType DEF AllocatePrivate, GetCloudpipe, GetUsersNetwork
  <2>4. ASSUME NEW u \in Users, AllocatePublic(u) PROVE TypeOK'
    BY <2>4 DEF AllocatePublic, Refuse, Fail, BeginSave, IsFirstFree, Records
  <2>5. ASSUME NEW p \in PublicAddresses, ReleasePublic(p) \/ Disassociate(p) PROVE TypeOK'
    BY <2>5 DEF ReleasePublic, Disassociate, Refuse, Fail
  <2>6. ASSUME NEW p \in PublicAddresses, NEW x \in InstanceIPs, Associate(p, x) PROVE TypeOK'
    BY <2>6 DEF Associate, Refuse, Fail, BeginSave, Records
  <2>7. ASSUME NEW error \in Errors, Abandon(error) PROVE TypeOK'
    BY <2>7 DEF Abandon, Fail
  <2>8. ASSUME NEW u \in Users, DescribeUser(u) PROVE TypeOK'
    <3>1. "NoUser" \in Errors /\ "OutOfVlans" \in Errors
      OBVIOUS
    <3> HIDE DEF TypeOK, Errors
    <3> QED BY <2>0, <2>8, <3>1, <2>7, NetworkStepType DEF DescribeUser
  <2>9. ASSUME NEW u \in Users, DeallocateUser(u) PROVE TypeOK'
    <3>1. CASE u \notin ldap
      BY <3>1, <2>9 DEF DeallocateUser, DeallocateFrom, PortRaises
    <3>2. CASE u \in ldap
      <4>1. "OutOfVlans" \in Errors
        OBVIOUS
      <4> HIDE DEF TypeOK, Errors
      <4> QED BY <2>0, <2>9, <3>2, <4>1, <2>7, NetworkStepType DEF DeallocateUser
    <3> QED BY <3>1, <3>2
  <2>10. ASSUME NEW u \in Users, SaveNet(u) PROVE TypeOK'
    BY <2>10 DEF SaveNet, Fail
  <2>11. ASSUME NEW u \in Users, StartUser(u) PROVE TypeOK'
    <3>1. CASE u \notin ldap
      BY <3>1, <2>11 DEF StartUser, VisitFrom
    <3>2. CASE u \in ldap /\ \E v \in Vlans : VisitFrom(u, v)
      BY <3>2, NetworkStepType
    <3>3. CASE u \in ldap /\ ~\E v \in Vlans : VisitFrom(u, v)
      BY <3>3, <2>11 DEF StartUser, Stop, NoUsers, NoRecords, RemoveFile
    <3> QED BY <3>1, <3>2, <3>3
  <2>12. ASSUME NEW a \in PrivateAddresses, DeallocatePrivate(a) PROVE TypeOK'
    BY <2>12 DEF DeallocatePrivate, Known
  <2>13. CASE WriteFresh
    BY <2>13 DEF WriteFresh, Nets, Pending
  <2>14. CASE Describe \/ DescribeDone \/ DeallocateNotFound
    BY <2>14 DEF Describe, DescribeDone, DeallocateNotFound, Abandon, Fail, Known
  <2>15. CASE SavePrivate \/ SavePublic \/ SaveVlans
    BY <2>15 DEF SavePrivate, SavePublic, SaveVlans
  <2>16. CASE Crash
    BY <2>16 DEF Crash, Stop, NoUsers, NoRecords, InWrite
  <2>17. CASE Start \/ StartDone
    BY <2>17 DEF Start, StartDone, Rules, Records, Stop, NoUsers, NoRecords
  <2>18. CASE StartRaises \/ UNCHANGED vars
    BY <2>18 DEF StartRaises, vars
  <2> HIDE DEF TypeOK
  <2> QED BY <2>2, <2>3, <2>4, <2>5, <2>6, <2>8, <2>9, <2>10, <2>11, <2>12, <2>13, <2>14,
             <2>15, <2>16, <2>17, <2>18 DEF Next
<1> QED BY <1>1, <1>2, PendingStep, PTL DEF Spec

-----------------------------------------------------------------------------
(* Isolation, where no user is deleted.                                    *)

(* Everyone in the pool, in memory or on disk, exists; so none is stale.   *)
PoolUsersExist == \A u \in Users : vlans[u] # None \/ kVlans[u] # None => u \in ldap

(* The pool knows every VLAN it has given out.                             *)
PoolCounts == \A u \in Users : vlans[u] # None => vlans[u] \in vlanpool

Injective(f) == \A u, w \in Users : f[u] # None /\ f[w] # None /\ f[u] = f[w] => u = w

(* Two users have two VLANs, in memory and on disk.                        *)
OneVlanEach == Injective(vlans) /\ Injective(kVlans)

(* A user the pool knows has a file, or one about to be written; a user    *)
(* the saved pool knows has a file: where no call stopped in between.      *)
FilesBeforePool ==
  \A u \in Users \ portless :
                   /\ vlans[u] # None => kNet[u] # None \/ fresh = u
                   /\ kVlans[u] # None => kNet[u] # None

(* The pool, the files and the networks in memory agree on a user's VLAN.  *)
Agree(f, g) == \A u \in Users \ portless : f[u] # None /\ g[u] # None => f[u].vlan = g[u]
VlansAgree == Agree(kNet, vlans) /\ Agree(kNet, kVlans) /\ Agree(private_nets, vlans)

(* Addresses lie in the subnet of their network's VLAN.                    *)
InSubnet(f) == \A u \in Users : f[u] # None => f[u].hosts \subseteq Subnet(f[u].vlan)
HostsInSubnet == InSubnet(private_nets) /\ InSubnet(kNet)

(* The new network has been written before the pool is.                    *)
WrittenFirst == pc \in {"private", "public"} => fresh = None

IsolationInv ==
  /\ TypeOK /\ Pending /\ DownIsEmpty /\ SaveLoop
  /\ PoolUsersExist /\ PoolCounts /\ OneVlanEach
  /\ FilesBeforePool /\ VlansAgree /\ HostsInSubnet /\ WrittenFirst

(* The invariant keeps the addresses of two users apart.                   *)
LEMMA IsolationInvSuffices == IsolationInv => AddressesNotShared
<1> SUFFICES ASSUME IsolationInv, NEW u \in Users \ portless, NEW w \in Users \ portless, u # w,
                    vlans[u] # None, vlans[w] # None,
                    private_nets[u] # None, private_nets[w] # None
             PROVE  private_nets[u].hosts \cap private_nets[w].hosts = {}
  BY DEF AddressesNotShared
<1>1. private_nets[u].vlan = vlans[u] /\ private_nets[w].vlan = vlans[w]
  BY DEF IsolationInv, VlansAgree, Agree
<1>2. vlans[u] # vlans[w] /\ vlans[u] \in Vlans /\ vlans[w] \in Vlans
  BY DEF IsolationInv, OneVlanEach, Injective, TypeOK
<1>3. Subnet(vlans[u]) \cap Subnet(vlans[w]) = {}
  BY <1>2, SubnetsDisjoint
<1> QED BY <1>1, <1>3 DEF IsolationInv, HostsInSubnet, InSubnet

(* A step that got a user's network keeps the facts about the pool, the    *)
(* files and the new network in memory, whose addresses are n.hosts.       *)
LEMMA NetworkStepIsolation ==
  ASSUME IsolationInv, NEW u \in Users, NEW v \in Vlans, u \in ldap, fresh = None,
         UsersNetwork(u, v),
         NEW n \in Nets, n.vlan = v, Install(u, n),
         n.hosts \subseteq Network(u, v).hosts \cup Subnet(v),
         UNCHANGED <<ldap, portless, kVlans>>
  PROVE  /\ PoolUsersExist' /\ PoolCounts' /\ OneVlanEach'
         /\ FilesBeforePool' /\ VlansAgree' /\ HostsInSubnet'
<1> USE DEF IsolationInv
<1>1. Network(u, v).hosts \subseteq Subnet(v)
  BY DEF Network, HostsInSubnet, InSubnet, UsersNetwork, NeedsVlan, TypeOK
<1>2. private_nets' = [private_nets EXCEPT ![u] = n] /\ n.hosts \subseteq Subnet(v) /\ n # None
  BY <1>1, NoneAssumption DEF Install
<1>3. Stale = {}
  BY DEF Stale, PoolUsersExist
<1>4. CASE kNet[u] # None
  <2>1. UNCHANGED <<vlans, vlanpool, kNet, fresh>> /\ v = kNet[u].vlan
    BY <1>4 DEF UsersNetwork, NeedsVlan
  <2>2. Agree(private_nets, vlans)'
    BY <2>1, <1>2, <1>4 DEF VlansAgree, Agree, TypeOK
  <2>3. InSubnet(private_nets)'
    BY <1>2 DEF HostsInSubnet, InSubnet, TypeOK
  <2> QED BY <2>1, <2>2, <2>3 DEF PoolUsersExist, PoolCounts, OneVlanEach, Injective,
             FilesBeforePool, VlansAgree, Agree, HostsInSubnet, InSubnet
<1>5. CASE kNet[u] = None
  <2>1. /\ IsNextVlan(v) /\ v # VlanEnd /\ kNet' = kNet /\ fresh' = u
        /\ vlans' = [vlans EXCEPT ![u] = v] /\ vlanpool' = vlanpool \cup {v}
    BY <1>3, <1>5 DEF UsersNetwork, next, assign_vlan
  <2>2. v \notin vlanpool
    BY <2>1, NextVlanType DEF TypeOK
  <2>3. \A w \in Users : vlans[w] # v
    BY <2>2, NoneAssumption DEF PoolCounts
  <2>4. PoolUsersExist' /\ PoolCounts'
    BY <2>1 DEF PoolUsersExist, PoolCounts, TypeOK
  <2>5. OneVlanEach'
    BY <2>1, <2>3 DEF OneVlanEach, Injective, TypeOK
  <2>6. FilesBeforePool'
    BY <2>1, <1>5, NoneAssumption DEF FilesBeforePool, TypeOK
  <2>7. VlansAgree'
    BY <2>1, <1>2, <1>5 DEF VlansAgree, Agree, TypeOK
  <2>8. HostsInSubnet'
    BY <2>1, <1>2 DEF HostsInSubnet, InSubnet, TypeOK
  <2> QED BY <2>4, <2>5, <2>6, <2>7, <2>8
<1> QED BY <1>4, <1>5

(* One lemma per kind of step: the facts the isolation invariant adds to   *)
(* the types and the pending write.                                        *)
PoolFacts ==
  /\ PoolUsersExist /\ PoolCounts /\ OneVlanEach
  /\ FilesBeforePool /\ VlansAgree /\ HostsInSubnet /\ WrittenFirst

(* A step that leaves the pool, the networks and the files alone.          *)
LEMMA QuietStepIsolation ==
  ASSUME IsolationInv, ldap \subseteq ldap',
         UNCHANGED <<portless, vlans, vlanpool, private_nets, kNet, kVlans, fresh>>,
         pc' \in {"private", "public"} => pc \in {"private", "public"} \/ fresh = None
  PROVE  PoolFacts'
BY DEF IsolationInv, PoolFacts, PoolUsersExist, PoolCounts, OneVlanEach, Injective,
       FilesBeforePool, VlansAgree, Agree, HostsInSubnet, InSubnet, WrittenFirst

(* A call that stops after the pool has changed.                           *)
LEMMA PortStepIsolation ==
  ASSUME IsolationInv, NEW u \in Users, PortRaises(u), fresh = None
  PROVE  PoolFacts'
<1> USE DEF IsolationInv
<1>1. Stale = {}
  BY DEF Stale, PoolUsersExist
<1>2. PICK v \in Vlans :
        /\ IsNextVlan(v) /\ v # VlanEnd
        /\ vlans' = [vlans EXCEPT ![u] = v] /\ vlanpool' = vlanpool \cup {v}
  BY <1>1 DEF PortRaises, next, assign_vlan
<1>3. /\ u \in ldap /\ pc' = "idle" /\ portless' = portless \cup {u} /\ kNet' = kNet
      /\ UNCHANGED <<ldap, private_nets, kVlans, fresh>>
  BY <1>1 DEF PortRaises, next, Fail
<1>4. \A w \in Users : vlans[w] # v
  <2>1. v \notin vlanpool
    BY <1>2, NextVlanType DEF TypeOK
  <2> QED BY <2>1, NoneAssumption DEF PoolCounts
<1>5. \A w \in Users : vlans'[w] = IF w = u THEN v ELSE vlans[w]
  BY <1>2 DEF TypeOK
<1>6. PoolUsersExist' /\ PoolCounts'
  BY <1>2, <1>3, <1>5 DEF PoolUsersExist, PoolCounts
<1>7. OneVlanEach'
  BY <1>3, <1>4, <1>5 DEF OneVlanEach, Injective
<1>8. FilesBeforePool' /\ VlansAgree'
  BY <1>3, <1>5 DEF FilesBeforePool, VlansAgree, Agree
<1>9. HostsInSubnet' /\ WrittenFirst'
  BY <1>3 DEF HostsInSubnet, InSubnet, WrittenFirst
<1> QED BY <1>6, <1>7, <1>8, <1>9 DEF PoolFacts

(* A step that has got the network of a user.                              *)
LEMMA FromStepIsolation ==
  ASSUME IsolationInv, NEW u \in Users, NEW v \in Vlans, fresh = None,
         pc \notin {"private", "public"},
         \/ AllocateFrom(u, v) \/ CloudpipeFrom(u, v) \/ LookupFrom(u, v)
         \/ VisitFrom(u, v) \/ DeallocateFrom(u, v)
  PROVE  PoolFacts'
<1> DEFINE net == Network(u, v)
<1>1. u \in ldap /\ UsersNetwork(u, v) /\ UNCHANGED <<ldap, portless, kVlans>>
  BY DEF AllocateFrom, CloudpipeFrom, LookupFrom, VisitFrom, DeallocateFrom, Others
<1>2. net \in Nets /\ net.vlan = v
  BY <1>1, UsersNetworkType DEF IsolationInv, Network, UsersNetwork, NeedsVlan, next
<1>3. PrivateRange(v) \cup {VpnAddress(v)} \subseteq Subnet(v) /\ Subnet(v) \subseteq PrivateAddresses
  BY RangeInSubnet
<1>4. \A A \in SUBSET PrivateAddresses :
        /\ [net EXCEPT !.hosts = @ \cup A] = [vlan |-> v, hosts |-> net.hosts \cup A]
        /\ [net EXCEPT !.hosts = @ \ A] = [vlan |-> v, hosts |-> net.hosts \ A]
  BY <1>2 DEF Nets
<1> HIDE DEF net
<1>5. \E n \in Nets : n.vlan = v /\ Install(u, n) /\ n.hosts \subseteq net.hosts \cup Subnet(v)
  <2>1. CASE AllocateFrom(u, v)
    <3>1. CASE Install(u, net)
      BY <3>1, <1>2
    <3>2. ASSUME NEW a \in PrivateRange(v), Install(u, [net EXCEPT !.hosts = @ \cup {a}])
          PROVE  \E n \in Nets : n.vlan = v /\ Install(u, n) /\ n.hosts \subseteq net.hosts \cup Subnet(v)
      BY <3>2, <1>2, <1>3, <1>4 DEF Nets
    <3> QED BY <2>1, <3>1, <3>2 DEF AllocateFrom, net
  <2>2. CASE CloudpipeFrom(u, v)
    <3>1. Install(u, [net EXCEPT !.hosts = @ \cup {VpnAddress(v)}])
      BY <2>2 DEF CloudpipeFrom, net
    <3> QED BY <3>1, <1>2, <1>3, <1>4 DEF Nets
  <2>3. CASE LookupFrom(u, v) \/ VisitFrom(u, v)
    BY <2>3, <1>2 DEF LookupFrom, VisitFrom, net
  <2>4. CASE DeallocateFrom(u, v)
    <3>1. CASE Install(u, net)
      BY <3>1, <1>2
    <3>2. CASE target \in Subnet(v) /\ Install(u, [net EXCEPT !.hosts = @ \ {target}])
      BY <3>2, <1>2, <1>3, <1>4 DEF Nets
    <3> QED BY <2>4, <3>1, <3>2 DEF DeallocateFrom, net
  <2> QED BY <2>1, <2>2, <2>3, <2>4
<1>6. pc' \notin {"private", "public"}
  BY DEF AllocateFrom, CloudpipeFrom, LookupFrom, VisitFrom, DeallocateFrom, BeginSave, Fail
<1> QED BY <1>1, <1>5, <1>6, NetworkStepIsolation DEF PoolFacts, WrittenFirst, net

(* The writes of the save loop, the write of a new network and the start   *)
(* of the process.                                                         *)
LEMMA WriteStepIsolation ==
  ASSUME IsolationInv,
         \/ \E u \in Users : SaveNet(u)
         \/ WriteFresh \/ SaveVlans \/ Start
  PROVE  PoolFacts'
<1> USE DEF IsolationInv, PoolFacts, TypeOK, memory, keeper, loop
<1>1. ASSUME NEW u \in Users, SaveNet(u), UNCHANGED kNet PROVE PoolFacts'
  BY <1>1, QuietStepIsolation DEF SaveNet, Fail
<1>2. ASSUME NEW u \in Users, SaveNet(u), ~UNCHANGED kNet PROVE PoolFacts'
  <2>1. /\ vlans[u] # None /\ fresh = None
        /\ kNet' = [kNet EXCEPT ![u] = private_nets[u]]
        /\ UNCHANGED <<ldap, portless, vlans, vlanpool, private_nets, kVlans, fresh, pc>>
    BY <1>2 DEF SaveNet
  <2>2. u \notin portless /\ kVlans[u] # None => kVlans[u] = vlans[u]
    BY <2>1 DEF FilesBeforePool, VlansAgree, Agree
  <2>3. PoolUsersExist' /\ PoolCounts' /\ OneVlanEach' /\ HostsInSubnet' /\ WrittenFirst'
    BY <2>1 DEF PoolUsersExist, PoolCounts, OneVlanEach, Injective, HostsInSubnet, InSubnet, WrittenFirst
  <2>4. VlansAgree'
    BY <2>1, <2>2 DEF VlansAgree, Agree
  <2>5. kNet'[u] # None
    BY <1>2, <2>1 DEF SaveNet, SaveLoop
  <2>6. FilesBeforePool'
    BY <2>1, <2>5 DEF FilesBeforePool
  <2> QED BY <2>3, <2>4, <2>6
<1>3. CASE WriteFresh
  <2>1. PICK u \in Users : u = fresh
    BY <1>3 DEF WriteFresh
  <2>2. /\ vlans[u] # None /\ kNet[u] = None /\ (u \notin portless => kVlans[u] = None)
        /\ kNet' = [kNet EXCEPT ![u] = [vlan |-> vlans[u], hosts |-> {}]]
        /\ fresh' = None
        /\ UNCHANGED <<ldap, portless, vlans, vlanpool, private_nets, kVlans, pc>>
    BY <1>3, <2>1 DEF WriteFresh, Pending, FilesBeforePool
  <2>3. [vlan |-> vlans[u], hosts |-> {}] # None
    BY <2>2, NoneAssumption DEF Nets
  <2>4. FilesBeforePool'
    BY <2>1, <2>2, <2>3 DEF FilesBeforePool
  <2>5. VlansAgree' /\ HostsInSubnet'
    BY <2>2 DEF VlansAgree, Agree, HostsInSubnet, InSubnet
  <2>6. PoolUsersExist' /\ PoolCounts' /\ OneVlanEach' /\ WrittenFirst'
    BY <2>2 DEF PoolUsersExist, PoolCounts, OneVlanEach, Injective, WrittenFirst
  <2> QED BY <2>4, <2>5, <2>6
<1>4. CASE SaveVlans
  <2>1. /\ fresh = None /\ kVlans' = vlans /\ pc' = "idle"
        /\ UNCHANGED <<ldap, portless, vlans, vlanpool, private_nets, kNet, fresh>>
    BY <1>4 DEF SaveVlans, WrittenFirst
  <2> QED BY <2>1, NoneAssumption DEF PoolUsersExist, PoolCounts, OneVlanEach, Injective,
             FilesBeforePool, VlansAgree, Agree, HostsInSubnet, InSubnet, WrittenFirst
<1>5. CASE Start
  <2>1. /\ private_nets = NoUsers /\ vlans' = kVlans /\ pc' = "start"
        /\ vlanpool' = {v \in Vlans : \E u \in Users : kVlans[u] = v}
        /\ UNCHANGED <<ldap, portless, private_nets, kNet, kVlans, fresh>>
    BY <1>5 DEF Start, DownIsEmpty
  <2> QED BY <2>1 DEF NoUsers, PoolUsersExist, PoolCounts, OneVlanEach, Injective,
             FilesBeforePool, VlansAgree, Agree, HostsInSubnet, InSubnet, WrittenFirst
<1> QED BY <1>1, <1>2, <1>3, <1>4, <1>5

(* The process goes down: memory forgets, the files stay.                  *)
LEMMA StopIsolation ==
  ASSUME IsolationInv, Stop, UNCHANGED <<ldap, portless, kNet, kVlans>>
  PROVE  PoolFacts'
BY DEF IsolationInv, Stop, NoUsers, PoolFacts, PoolUsersExist, PoolCounts, OneVlanEach,
       Injective, FilesBeforePool, VlansAgree, Agree, HostsInSubnet, InSubnet, WrittenFirst

(* While no user is ever deleted, no two users the VLAN pool has on record *)
(* hold the same private address, at any point of any handler, crash or    *)
(* restart, but for those a call of theirs left a VLAN without a network.  *)
THEOREM Isolation ==
  ASSUME Deletable = {}
  PROVE  Spec => []AddressesNotShared
<1>1. Init => IsolationInv
  BY DEF Init, IsolationInv, TypeOK, Pending, DownIsEmpty, SaveLoop, NoUsers, NoRecords, PoolUsersExist,
         PoolCounts, OneVlanEach, Injective, FilesBeforePool, VlansAgree, Agree, HostsInSubnet,
         InSubnet, WrittenFirst
<1>2. ASSUME IsolationInv, [Next]_vars PROVE PoolFacts'
  <2> USE <1>2 DEF memory, keeper, loop
  <2>1. ASSUME NEW u \in Users, NoNetwork(u), fresh = None PROVE PoolFacts'
    BY <2>1, QuietStepIsolation, PortStepIsolation DEF NoNetwork, Refuse, Fail
  <2>2. ASSUME NEW u \in Users, CreateUser(u) \/ DeleteUser(u) PROVE PoolFacts'
    BY <2>2, QuietStepIsolation DEF CreateUser, DeleteUser
  <2>3. ASSUME NEW u \in Users, AllocatePrivate(u) \/ GetCloudpipe(u) \/ GetUsersNetwork(u)
        PROVE PoolFacts'
    BY <2>1, <2>3, FromStepIsolation DEF AllocatePrivate, GetCloudpipe, GetUsersNetwork, Idle
  <2>4. ASSUME NEW u \in Users, AllocatePublic(u) PROVE PoolFacts'
    BY <2>4, QuietStepIsolation DEF AllocatePublic, Refuse, Fail, BeginSave
  <2>5. ASSUME NEW p \in PublicAddresses, ReleasePublic(p) \/ Disassociate(p) PROVE PoolFacts'
    BY <2>5, QuietStepIsolation DEF ReleasePublic, Disassociate, Refuse, Fail
  <2>6. ASSUME NEW p \in PublicAddresses, NEW x \in InstanceIPs, Associate(p, x) PROVE PoolFacts'
    BY <2>6, QuietStepIsolation DEF Associate, Refuse, Fail, BeginSave
  <2>7. ASSUME NEW error, Abandon(error) PROVE PoolFacts'
    BY <2>7, QuietStepIsolation DEF Abandon, Fail
  <2>8. ASSUME NEW u \in Users, DescribeUser(u) PROVE PoolFacts'
    BY <2>8, <2>7, FromStepIsolation, PortStepIsolation DEF DescribeUser
  <2>9. ASSUME NEW u \in Users, DeallocateUser(u) PROVE PoolFacts'
    BY <2>9, <2>7, FromStepIsolation, QuietStepIsolation, PortStepIsolation DEF DeallocateUser
  <2>10. ASSUME NEW u \in Users, SaveNet(u) PROVE PoolFacts'
    BY <2>10, WriteStepIsolation
  <2>11. ASSUME NEW u \in Users, StartUser(u) PROVE PoolFacts'
    <3>1. Stale = {}
      BY DEF Stale, IsolationInv, PoolUsersExist
    <3> QED BY <2>11, <3>1, FromStepIsolation, QuietStepIsolation, StopIsolation DEF StartUser
  <2>12. ASSUME NEW a \in PrivateAddresses, DeallocatePrivate(a) PROVE PoolFacts'
    BY <2>12, QuietStepIsolation DEF DeallocatePrivate
  <2>13. CASE WriteFresh \/ SaveVlans \/ Start
    BY <2>13, WriteStepIsolation
  <2>14. CASE Describe \/ DescribeDone \/ DeallocateNotFound
    BY <2>14, <2>7, QuietStepIsolation DEF Describe, DescribeDone, DeallocateNotFound
  <2>15. CASE SavePrivate \/ SavePublic
    BY <2>15, QuietStepIsolation DEF SavePrivate, SavePublic
  <2>16. CASE Crash
    BY <2>16, StopIsolation DEF Crash
  <2>17. CASE StartDone \/ StartRaises \/ UNCHANGED vars
    BY <2>17, QuietStepIsolation, StopIsolation DEF StartDone, StartRaises, vars
  <2> QED BY <2>2, <2>3, <2>4, <2>5, <2>6, <2>8, <2>9, <2>10, <2>11, <2>12, <2>13, <2>14,
             <2>15, <2>16, <2>17 DEF Next
<1>3. ASSUME TypeOK', Pending', DownIsEmpty', SaveLoop',
             IsolationInv, [Next]_vars
      PROVE  IsolationInv'
  BY <1>2, <1>3 DEF IsolationInv, PoolFacts
<1> QED BY <1>1, <1>3, TypeCorrect, IsolationInvSuffices, PTL DEF Spec

-----------------------------------------------------------------------------
(* Torn files *)

(* What a process has loaded could be read, and while it lives it tears no *)
(* file.                                                                   *)
FilesReadable ==
  /\ pc = "start" => torn \cap {"vlans", "private"} = {}
  /\ pc \notin {"down", "start"} => torn \cap Shared = {}
  /\ \A u \in Users \cap torn : private_nets[u] = None /\ fresh # u

LEMMA ReadableStep ==
  ASSUME TypeOK, FilesReadable, [Next]_vars
  PROVE  FilesReadable'
<1> USE DEF memory, keeper, loop, Others, Idle
<1>1. ASSUME torn' \subseteq torn, private_nets' = private_nets, fresh' \in {fresh, None},
             pc' \notin {"down", "start"} => pc \notin {"down", "start"},
             pc' = "start" => pc = "start"
      PROVE  FilesReadable'
  BY <1>1, NoneAssumption DEF FilesReadable
<1>2. ASSUME Stop PROVE FilesReadable'
  BY <1>2, NoneAssumption DEF Stop, NoUsers, FilesReadable
<1>3. ASSUME NEW u \in Users, NEW v \in Vlans, pc # "down",
             pc = "start" => VisitFrom(u, v),
             \/ AllocateFrom(u, v) \/ CloudpipeFrom(u, v) \/ LookupFrom(u, v)
             \/ VisitFrom(u, v) \/ DeallocateFrom(u, v)
      PROVE  FilesReadable'
  <2>1. u \notin torn' /\ torn' \subseteq torn /\ fresh' \in {fresh, u}
    <3>1. UsersNetwork(u, v)
      BY <1>3 DEF AllocateFrom, CloudpipeFrom, LookupFrom, VisitFrom, DeallocateFrom
    <3> QED BY <3>1 DEF UsersNetwork, NeedsVlan, next, RemoveFile
  <2>2. \A w \in Users \ {u} : private_nets'[w] = private_nets[w]
    BY <1>3 DEF AllocateFrom, CloudpipeFrom, LookupFrom, VisitFrom, DeallocateFrom, Install, TypeOK
  <2>3. pc' # "down" /\ (pc' = "start" <=> pc = "start")
    <3>1. CASE pc = "start"
      BY <1>3, <3>1 DEF VisitFrom
    <3>2. CASE pc # "start"
      BY <1>3, <3>2 DEF AllocateFrom, CloudpipeFrom, LookupFrom, VisitFrom, DeallocateFrom,
           BeginSave, Fail
    <3> QED BY <3>1, <3>2
  <2> QED BY <1>3, <2>1, <2>2, <2>3 DEF FilesReadable
<1>4. ASSUME NEW u \in Users, PortRaises(u), pc \notin {"down", "start"} PROVE FilesReadable'
  <2>1. torn' \subseteq torn /\ UNCHANGED <<private_nets, fresh>> /\ pc' = "idle"
    BY <1>4 DEF PortRaises, next, RemoveFile, Fail
  <2> QED BY <1>1, <1>4, <2>1
<1>5. ASSUME NEW error, Refuse(error) \/ Abandon(error), pc \notin {"down", "start"}
      PROVE  FilesReadable'
  BY <1>1, <1>5 DEF Refuse, Abandon, Fail
<1>6. ASSUME NEW u \in Users, CreateUser(u) \/ DeleteUser(u) PROVE FilesReadable'
  BY <1>1, <1>6 DEF CreateUser, DeleteUser
<1>7. ASSUME NEW u \in Users, AllocatePrivate(u) \/ GetCloudpipe(u) \/ GetUsersNetwork(u)
      PROVE  FilesReadable'
  BY <1>3, <1>4, <1>5, <1>7 DEF AllocatePrivate, GetCloudpipe, GetUsersNetwork, NoNetwork
<1>8. ASSUME NEW u \in Users, AllocatePublic(u) PROVE FilesReadable'
  <2>1. CASE Refuse("NoMoreAddresses")
    BY <1>5, <1>8, <2>1 DEF AllocatePublic
  <2>2. CASE ~Refuse("NoMoreAddresses")
    BY <1>1, <1>8, <2>2 DEF AllocatePublic, BeginSave
  <2> QED BY <2>1, <2>2
<1>9. ASSUME NEW p \in PublicAddresses, ReleasePublic(p) \/ Disassociate(p) PROVE FilesReadable'
  BY <1>1, <1>9 DEF ReleasePublic, Disassociate, Refuse, Fail
<1>10. ASSUME NEW p \in PublicAddresses, NEW x \in InstanceIPs, Associate(p, x)
       PROVE  FilesReadable'
  BY <1>1, <1>10 DEF Associate, Refuse, Fail, BeginSave
<1>11. ASSUME NEW u \in Users, DescribeUser(u) PROVE FilesReadable'
  BY <1>3, <1>4, <1>5, <1>11 DEF DescribeUser
<1>12. ASSUME NEW u \in Users, DeallocateUser(u) PROVE FilesReadable'
  <2>1. CASE u \notin ldap
    BY <1>1, <1>12, <2>1 DEF DeallocateUser, DeallocateFrom, PortRaises
  <2>2. CASE u \in ldap
    BY <1>3, <1>4, <1>5, <1>12, <2>2 DEF DeallocateUser
  <2> QED BY <2>1, <2>2
<1>13. ASSUME NEW u \in Users, SaveNet(u) PROVE FilesReadable'
  BY <1>1, <1>13 DEF SaveNet, Fail
<1>14. ASSUME NEW u \in Users, StartUser(u) PROVE FilesReadable'
  <2>1. CASE u \notin ldap
    BY <1>1, <1>14, <2>1 DEF StartUser, VisitFrom
  <2>2. CASE u \in ldap
    BY <1>2, <1>3, <1>14, <2>2 DEF StartUser
  <2> QED BY <2>1, <2>2
<1>15. CASE \/ Describe \/ DescribeDone \/ DeallocateNotFound
            \/ \E a \in PrivateAddresses : DeallocatePrivate(a)
  BY <1>1, <1>15 DEF Describe, DescribeDone, DeallocateNotFound, DeallocatePrivate, Abandon, Fail
<1>16. CASE WriteFresh \/ SavePrivate \/ SavePublic \/ SaveVlans
  BY <1>1, <1>16 DEF WriteFresh, SavePrivate, SavePublic, SaveVlans
<1>17. CASE Crash
  BY <1>2, <1>17 DEF Crash
<1>18. CASE Start
  BY <1>18 DEF Start, FilesReadable
<1>19. CASE StartDone
  <2>1. CASE "public" \in torn
    BY <1>2, <1>19, <2>1 DEF StartDone
  <2>2. CASE "public" \notin torn
    BY <1>19, <2>2 DEF StartDone, FilesReadable, Shared
  <2> QED BY <2>1, <2>2
<1>20. CASE StartRaises \/ UNCHANGED vars
  BY <1>1, <1>20 DEF StartRaises, vars
<1> QED BY <1>6, <1>7, <1>8, <1>9, <1>10, <1>11, <1>12, <1>13, <1>14, <1>15, <1>16, <1>17,
           <1>18, <1>19, <1>20 DEF Next

LEMMA FilesStayReadable == Spec => []FilesReadable
<1>1. Init => FilesReadable
  BY NoneAssumption, UserAssumption DEF Init, NoUsers, FilesReadable
<1>2. TypeOK /\ FilesReadable /\ [Next]_vars => FilesReadable'
  BY ReadableStep
<1> QED BY <1>1, <1>2, TypeCorrect, PTL DEF Spec

-----------------------------------------------------------------------------
(* Public addresses *)

(* A step that touches neither the public records nor the phases in which  *)
(* they are loaded is invisible in the ledger.                             *)
LEMMA QuietStepLedger ==
  ASSUME UNCHANGED <<public, kPublic>>, pc \notin {"down", "start"}, pc' \notin {"down", "start"},
         FilesReadable, FilesReadable'
  PROVE  UNCHANGED Ledger!vars
BY DEF Ledger!vars, Serving, Legible, FilesReadable, Shared

(* Every step of the controller is a step of the ledger or invisible in it.*)
LEMMA LedgerStep ==
  ASSUME TypeOK, FilesReadable, FilesReadable', [Next]_vars
  PROVE  Ledger!Next \/ UNCHANGED Ledger!vars
<1> USE DEF memory, keeper, loop, Idle
<1>0. /\ pc \notin {"down", "start"} => "public" \notin torn
      /\ pc' \notin {"down", "start"} => "public" \notin torn'
  BY DEF FilesReadable, Shared
<1> DEFINE Simulated == Ledger!Next \/ UNCHANGED Ledger!vars
<1>1. ASSUME NEW error, Refuse(error), Idle PROVE Simulated
  BY <1>1, QuietStepLedger DEF Refuse, Fail
<1>2. ASSUME NEW u \in Users, CreateUser(u) \/ DeleteUser(u) PROVE Simulated
  BY <1>2 DEF CreateUser, DeleteUser, Serving, Legible, Ledger!vars
<1>3. ASSUME NEW u \in Users, NEW v \in Vlans, pc \notin {"down", "start"},
             \/ AllocateFrom(u, v) \/ CloudpipeFrom(u, v) \/ LookupFrom(u, v)
             \/ VisitFrom(u, v) \/ DeallocateFrom(u, v)
      PROVE  Simulated
  <2>1. UNCHANGED <<public, kPublic>>
    BY <1>3 DEF AllocateFrom, CloudpipeFrom, LookupFrom, VisitFrom, DeallocateFrom, Others
  <2>2. pc' \notin {"down", "start"}
    BY <1>3 DEF AllocateFrom, CloudpipeFrom, LookupFrom, VisitFrom, DeallocateFrom, BeginSave, Fail
  <2> QED BY <1>3, <2>1, <2>2, QuietStepLedger
<1>23. ASSUME NEW u \in Users, PortRaises(u), pc \notin {"down", "start"} PROVE Simulated
  BY <1>23, QuietStepLedger DEF PortRaises, Fail
<1>4. ASSUME NEW u \in Users, AllocatePrivate(u) \/ GetCloudpipe(u) \/ GetUsersNetwork(u)
      PROVE Simulated
  BY <1>1, <1>3, <1>4, <1>23 DEF AllocatePrivate, GetCloudpipe, GetUsersNetwork, NoNetwork
<1>5. ASSUME NEW u \in Users, AllocatePublic(u) PROVE Simulated
  <2>1. CASE UNCHANGED public
    BY <1>5, <2>1, QuietStepLedger DEF AllocatePublic, Refuse, Fail, BeginSave
  <2>2. CASE ~UNCHANGED public
    <3>1. PICK p \in PublicAddresses :
            /\ public[p] = None
            /\ public' = [public EXCEPT ![p] = [owner |-> u, private |-> None]]
      BY <1>5, <2>2 DEF AllocatePublic, Refuse, IsFirstFree
    <3>2. /\ Legible(Serving) = public /\ Legible(Serving)' = public'
          /\ Legible(kPublic)' = Legible(kPublic) /\ public # None
      BY <1>0, <1>5, <2>2, NoneAssumption
         DEF AllocatePublic, Refuse, BeginSave, Serving, Legible, TypeOK
    <3>3. Ledger!Allocate(p, u)
      BY <3>1, <3>2 DEF Ledger!Allocate
    <3> QED BY <3>3 DEF Ledger!Next
  <2> QED BY <2>1, <2>2
<1>6. ASSUME NEW p \in PublicAddresses, ReleasePublic(p) PROVE Simulated
  <2>1. CASE UNCHANGED public
    BY <1>6, <2>1, QuietStepLedger DEF ReleasePublic, Refuse, Fail
  <2>2. CASE ~UNCHANGED public
    <3>1. Ledger!Release(p)
      <4>1. /\ Legible(Serving) = public /\ Legible(Serving)' = public'
            /\ Legible(kPublic)' = Legible(kPublic) /\ public # None
        BY <1>0, <1>6, <2>2, NoneAssumption
           DEF ReleasePublic, Refuse, Fail, Serving, Legible, TypeOK
      <4> QED BY <1>6, <2>2, <4>1 DEF ReleasePublic, Refuse, Ledger!Release
    <3> QED BY <3>1 DEF Ledger!Next
  <2> QED BY <2>1, <2>2
<1>7. ASSUME NEW p \in PublicAddresses, Disassociate(p) PROVE Simulated
  BY <1>1, <1>7 DEF Disassociate
<1>8. ASSUME NEW p \in PublicAddresses, NEW x \in InstanceIPs, Associate(p, x) PROVE Simulated
  <2>1. CASE UNCHANGED public
    BY <1>8, <2>1, QuietStepLedger DEF Associate, Refuse, Fail, BeginSave
  <2>2. CASE ~UNCHANGED public
    <3>1. /\ public[p] # None /\ ~Associated(p)
          /\ ~Taken(x)
          /\ public' = [public EXCEPT ![p].private = x]
          /\ UNCHANGED keeper /\ pc = "idle" /\ pc' = "nets"
      BY <1>8, <2>2 DEF Associate, Refuse, BeginSave
    <3>2. /\ Legible(Serving) = public /\ Legible(Serving)' = public'
          /\ Legible(kPublic)' = Legible(kPublic) /\ public # None
      BY <1>0, <3>1, NoneAssumption DEF Serving, Legible, TypeOK
    <3>3. Ledger!Associate(p, x)
      BY <3>1, <3>2 DEF Ledger!Associate, Ledger!Bound, Associated, Taken
    <3> QED BY <3>3 DEF Ledger!Next
  <2> QED BY <2>1, <2>2
<1>9. ASSUME NEW error, Abandon(error), pc \notin {"down", "start"} PROVE Simulated
  BY <1>9, QuietStepLedger DEF Abandon, Fail
<1>10. ASSUME NEW u \in Users, DescribeUser(u) PROVE Simulated
  BY <1>3, <1>9, <1>10, <1>23 DEF DescribeUser
<1>11. ASSUME NEW u \in Users, DeallocateUser(u) PROVE Simulated
  BY <1>3, <1>9, <1>11, <1>23, QuietStepLedger DEF DeallocateUser
<1>12. ASSUME NEW u \in Users, SaveNet(u) PROVE Simulated
  BY <1>12, QuietStepLedger DEF SaveNet, Fail
<1>13. ASSUME NEW u \in Users, StartUser(u) PROVE Simulated
  <2>1. pc = "start" /\ pc' \in {"start", "down"} /\ kPublic' = kPublic
    BY <1>13 DEF StartUser, Stop, VisitFrom, Others
  <2>2. "public" \in torn' <=> "public" \in torn
    <3>1. ASSUME NEW v \in Vlans, VisitFrom(u, v) PROVE torn' = torn \/ \E o \in Users : torn' = torn \ {o}
      BY <3>1 DEF VisitFrom, UsersNetwork, next, RemoveFile, Stale
    <3>2. torn' = torn \/ \E o \in Users : torn' = torn \ {o}
      BY <1>13, <3>1 DEF StartUser, RemoveFile, Stale
    <3> QED BY <3>2, NoneAssumption DEF Shared
  <2> QED BY <2>1, <2>2 DEF Serving, Legible, Ledger!vars
<1>14. ASSUME NEW a \in PrivateAddresses, DeallocatePrivate(a) PROVE Simulated
  BY <1>14, QuietStepLedger DEF DeallocatePrivate
<1>15. CASE WriteFresh
  BY <1>15 DEF WriteFresh, Serving, Legible, Ledger!vars
<1>16. CASE Describe \/ DescribeDone \/ DeallocateNotFound
  BY <1>9, <1>16, QuietStepLedger DEF Describe, DescribeDone, DeallocateNotFound
<1>17. CASE SavePrivate \/ SaveVlans
  BY <1>17, QuietStepLedger DEF SavePrivate, SaveVlans
<1>18. CASE SavePublic
  <2>1. Ledger!Save
    BY <1>0, <1>18 DEF SavePublic, Serving, Legible, Ledger!Save
  <2> QED BY <2>1 DEF Ledger!Next
<1>19. CASE Crash
  <2>1. CASE "public" \in torn'
    <3>1. Ledger!Lose
      BY <1>19, <2>1 DEF Crash, Stop, Serving, Legible, Ledger!Lose
    <3> QED BY <3>1 DEF Ledger!Next
  <2>2. CASE "public" \notin torn'
    <3>1. Ledger!Restart
      BY <1>19, <2>2 DEF Crash, Stop, Serving, Legible, Ledger!Restart
    <3> QED BY <3>1 DEF Ledger!Next
  <2> QED BY <2>1, <2>2
<1>20. CASE Start
  BY <1>20 DEF Start, Serving, Legible, Ledger!vars
<1>21. CASE StartDone
  BY <1>21 DEF StartDone, Stop, Serving, Legible, Ledger!vars
<1>22. CASE StartRaises \/ UNCHANGED vars
  BY <1>22 DEF StartRaises, vars, Serving, Legible, Ledger!vars
<1> QED BY <1>2, <1>4, <1>5, <1>6, <1>7, <1>8, <1>10, <1>11, <1>12, <1>13, <1>14, <1>15,
           <1>16, <1>17, <1>18, <1>19, <1>20, <1>21, <1>22 DEF Next

(* The controller, with its save loop, its failing calls and its crashes   *)
(* between two files or in the middle of one, implements the ledger of     *)
(* public addresses.                                                       *)
THEOREM ControllerImplementsLedger == Spec => ImplementsLedger
<1>1. Init => Ledger!Init
  BY DEF Init, Ledger!Init, Serving, Legible, NoRecords
<1>2. ASSUME TypeOK, FilesReadable, FilesReadable', [Next]_vars PROVE [Ledger!Next]_(Ledger!vars)
  BY <1>2, LedgerStep
<1> QED BY <1>1, <1>2, TypeCorrect, FilesStayReadable, PTL DEF Spec, Ledger!Spec, ImplementsLedger

(* Every association the controller serves has its NAT rules, whether it   *)
(* was made by a call or loaded after the process or the host went down.   *)
THEOREM Natted == Spec => []AssociatedAreNatted
<1>1. Init => AssociatedAreNatted
  BY DEF Init, AssociatedAreNatted
<1>2. ASSUME TypeOK, AssociatedAreNatted, [Next]_vars PROVE AssociatedAreNatted'
  <2> USE <1>2 DEF memory, keeper, loop, AssociatedAreNatted, Associated
  <2>1. ASSUME NEW error, Refuse(error), Idle PROVE AssociatedAreNatted'
    BY <2>1 DEF Refuse, Fail, Idle
  <2>2. ASSUME NEW u \in Users, NEW v \in Vlans, pc \notin {"down", "start"},
               \/ AllocateFrom(u, v) \/ CloudpipeFrom(u, v) \/ LookupFrom(u, v)
               \/ VisitFrom(u, v) \/ DeallocateFrom(u, v)
        PROVE  AssociatedAreNatted'
    BY <2>2 DEF AllocateFrom, CloudpipeFrom, LookupFrom, VisitFrom, DeallocateFrom, Others
  <2>19. ASSUME NEW u \in Users, PortRaises(u), pc \notin {"down", "start"}
         PROVE  AssociatedAreNatted'
    BY <2>19 DEF PortRaises, Fail
  <2>3. ASSUME NEW u \in Users, CreateUser(u) \/ DeleteUser(u) PROVE AssociatedAreNatted'
    BY <2>3 DEF CreateUser, DeleteUser
  <2>4. ASSUME NEW u \in Users, AllocatePrivate(u) \/ GetCloudpipe(u) \/ GetUsersNetwork(u)
        PROVE AssociatedAreNatted'
    BY <2>1, <2>2, <2>4, <2>19 DEF AllocatePrivate, GetCloudpipe, GetUsersNetwork, NoNetwork, Idle
  <2>5. ASSUME NEW u \in Users, AllocatePublic(u) PROVE AssociatedAreNatted'
    <3>1. CASE UNCHANGED public
      BY <2>5, <3>1 DEF AllocatePublic, Refuse, Fail, BeginSave, Idle
    <3>2. CASE ~UNCHANGED public
      <4>1. PICK p \in PublicAddresses :
              public' = [public EXCEPT ![p] = [owner |-> u, private |-> None]]
        BY <2>5, <3>2 DEF AllocatePublic, Refuse
      <4>2. public'[p].private = None /\ \A q \in PublicAddresses \ {p} : public'[q] = public[q]
        BY <4>1 DEF TypeOK
      <4>3. pc = "idle" /\ nat' = nat
        BY <2>5, <3>2 DEF AllocatePublic, Refuse, Idle
      <4> QED BY <4>2, <4>3
    <3> QED BY <3>1, <3>2
  <2>6. ASSUME NEW p \in PublicAddresses, ReleasePublic(p) \/ Disassociate(p)
        PROVE AssociatedAreNatted'
    BY <2>1, <2>6 DEF ReleasePublic, Disassociate, Refuse, Fail, Idle, TypeOK
  <2>7. ASSUME NEW p \in PublicAddresses, NEW x \in InstanceIPs, Associate(p, x)
        PROVE AssociatedAreNatted'
    <3>1. CASE \E error \in Errors : Refuse(error)
      BY <2>7, <3>1, <2>1 DEF Associate
    <3>2. CASE ~\E error \in Errors : Refuse(error)
      <4>1. /\ public[p] # None /\ nat' = nat \cup {<<p, x>>} /\ pc = "idle"
            /\ public' = [public EXCEPT ![p].private = x]
        BY <2>7, <3>2 DEF Associate, Errors, Idle
      <4>2. public'[p].private = x
        BY <4>1 DEF TypeOK, Records
      <4>3. \A q \in PublicAddresses \ {p} : public'[q] = public[q]
        BY <4>1 DEF TypeOK
      <4> QED BY <4>1, <4>2, <4>3
    <3> QED BY <3>1, <3>2
  <2>8. ASSUME NEW error, Abandon(error), pc \notin {"down", "start"} PROVE AssociatedAreNatted'
    BY <2>8 DEF Abandon, Fail
  <2>9. ASSUME NEW u \in Users, DescribeUser(u) \/ DeallocateUser(u) PROVE AssociatedAreNatted'
    BY <2>9, <2>8, <2>2, <2>19 DEF DescribeUser, DeallocateUser
  <2>10. ASSUME NEW u \in Users, SaveNet(u) PROVE AssociatedAreNatted'
    BY <2>10 DEF SaveNet, Fail
  <2>11. ASSUME NEW u \in Users, StartUser(u) PROVE AssociatedAreNatted'
    BY <2>11 DEF StartUser, VisitFrom, Stop
  <2>12. ASSUME NEW a \in PrivateAddresses, DeallocatePrivate(a) PROVE AssociatedAreNatted'
    BY <2>12 DEF DeallocatePrivate, Idle
  <2>13. CASE WriteFresh
    BY <2>13 DEF WriteFresh
  <2>14. CASE Describe \/ DescribeDone \/ DeallocateNotFound
    BY <2>14, <2>8 DEF Describe, DescribeDone, DeallocateNotFound, Idle
  <2>15. CASE SavePrivate \/ SavePublic \/ SaveVlans
    BY <2>15 DEF SavePrivate, SavePublic, SaveVlans
  <2>16. CASE Crash \/ Start
    BY <2>16 DEF Crash, Stop, Start
  <2>17. CASE StartDone
    BY <2>17 DEF StartDone, Stop, Rules
  <2>18. CASE StartRaises \/ UNCHANGED vars
    BY <2>18 DEF StartRaises, vars
  <2> HIDE DEF AssociatedAreNatted
  <2> QED BY <2>3, <2>4, <2>5, <2>6, <2>7, <2>9, <2>10, <2>11, <2>12, <2>13, <2>14, <2>15,
             <2>16, <2>17, <2>18 DEF Next
<1> QED BY <1>1, <1>2, TypeCorrect, PTL DEF Spec

LedgerFacts == INSTANCE AddressLedger_proofs
  WITH Addresses <- PublicAddresses, Owners <- Users, Targets <- InstanceIPs,
       now <- Legible(Serving), saved <- Legible(kPublic)

(* So a private address answers for at most one public address, in the     *)
(* records served and in those saved.                                      *)
THEOREM AssociatedOnce == Spec => []OneAssociationPerInstance
<1>1. LedgerFacts!Spec => []LedgerFacts!TargetsBoundOnce
  BY LedgerFacts!LedgerBindsOnce
<1>2. TypeOK /\ LedgerFacts!TargetsBoundOnce => OneAssociationPerInstance
  <2> SUFFICES ASSUME TypeOK, LedgerFacts!TargetsBoundOnce, "public" \notin torn
               PROVE  OneAssociationPerInstance
    BY DEF OneAssociationPerInstance
  <2>1. Legible(Serving) = Serving /\ Legible(kPublic) = kPublic
        /\ Serving # None /\ kPublic # None
    BY NoneAssumption DEF Legible, Serving, TypeOK
  <2> QED BY <2>1 DEF LedgerFacts!TargetsBoundOnce, LedgerFacts!OneTarget, LedgerFacts!Bound,
                      OneAssociationPerInstance
<1>3. Ledger!Init => LedgerFacts!Init
  BY DEF Ledger!Init, LedgerFacts!Init
<1>4. [Ledger!Next]_(Ledger!vars) => [LedgerFacts!Next]_(LedgerFacts!vars)
  BY DEF Ledger!Next, LedgerFacts!Next, Ledger!vars, LedgerFacts!vars,
         Ledger!Allocate, LedgerFacts!Allocate, Ledger!Release, LedgerFacts!Release,
         Ledger!Associate, LedgerFacts!Associate, Ledger!Bound, LedgerFacts!Bound,
         Ledger!Save, LedgerFacts!Save, Ledger!Restart, LedgerFacts!Restart,
         Ledger!Lose, LedgerFacts!Lose
<1>5. Ledger!Spec => LedgerFacts!Spec
  BY <1>3, <1>4, PTL DEF Ledger!Spec, LedgerFacts!Spec
<1> QED BY <1>1, <1>2, <1>5, ControllerImplementsLedger, TypeCorrect, PTL DEF ImplementsLedger

-----------------------------------------------------------------------------
(* The pool and the networks, in a process that does not crash.            *)

(* Files, networks and pool agree on every user's VLAN, where no call      *)
(* stopped after the pool had changed; and the pool knows the user anyway. *)
PoolAgrees ==
  /\ \A u \in Users : private_nets[u] # None =>
        vlans[u] # None /\ (u \notin portless => vlans[u] = private_nets[u].vlan)
  /\ \A u \in Users : kNet[u] # None =>
        vlans[u] # None /\ (u \notin portless => vlans[u] = kNet[u].vlan)

(* A process that is started once starts from nothing.                     *)
StartsEmpty ==
  /\ pc = "down" => kPrivate = {} /\ kVlans = NoUsers
                    /\ private_nets = NoUsers /\ kNet = NoUsers
  /\ pc = "start" => left = {}

(* A step that got a user's network: pool, file and network change         *)
(* together.                                                               *)
LEMMA NetworkStepAgrees ==
  ASSUME TypeOK, PoolAgrees, NEW u \in Users, NEW v \in Vlans, UsersNetwork(u, v),
         NEW n \in Nets, n.vlan = v, Install(u, n), portless' = portless
  PROVE  PoolAgrees'
<1>1. /\ private_nets' = [private_nets EXCEPT ![u] = n] /\ n # None
      /\ private_nets \in [Users -> Nets \cup {None}]
  BY NoneAssumption DEF Install, TypeOK
<1>2. CASE kNet[u] # None
  <2>1. UNCHANGED <<vlans, kNet>> /\ v = kNet[u].vlan
    BY <1>2 DEF UsersNetwork, NeedsVlan
  <2>2. vlans[u] # None /\ (u \notin portless => vlans[u] = v)
    BY <1>2, <2>1 DEF PoolAgrees
  <2> QED BY <1>1, <2>1, <2>2 DEF PoolAgrees
<1>3. CASE kNet[u] = None
  <2>1. /\ vlans' = [vlans EXCEPT ![u] = v]
        /\ \A w \in Users : kNet'[w] # None => w # u /\ kNet'[w] = kNet[w]
    BY <1>3 DEF UsersNetwork, next, assign_vlan, RemoveFile, TypeOK
  <2>2. \A w \in Users : vlans'[w] = IF w = u THEN v ELSE vlans[w]
    BY <2>1 DEF TypeOK
  <2> QED BY <1>1, <2>1, <2>2, NoneAssumption DEF PoolAgrees
<1> QED BY <1>2, <1>3

(* The handlers install the network they got, with other addresses.        *)
LEMMA FromStepAgrees ==
  ASSUME TypeOK, PoolAgrees, NEW u \in Users, NEW v \in Vlans,
         \/ AllocateFrom(u, v) \/ CloudpipeFrom(u, v) \/ LookupFrom(u, v)
         \/ VisitFrom(u, v) \/ DeallocateFrom(u, v)
  PROVE  PoolAgrees'
<1> DEFINE net == Network(u, v)
<1>1. UsersNetwork(u, v) /\ portless' = portless
  BY DEF AllocateFrom, CloudpipeFrom, LookupFrom, VisitFrom, DeallocateFrom, Others
<1>2. net \in Nets /\ net.vlan = v
  BY <1>1, UsersNetworkType DEF Network, UsersNetwork, NeedsVlan
<1>3. PrivateRange(v) \cup {VpnAddress(v)} \cup Subnet(v) \subseteq PrivateAddresses
  BY RangeInSubnet
<1>4. \A a \in PrivateAddresses :
        /\ [net EXCEPT !.hosts = @ \cup {a}] \in Nets
        /\ [net EXCEPT !.hosts = @ \ {a}] \in Nets
        /\ [net EXCEPT !.hosts = @ \cup {a}].vlan = v
        /\ [net EXCEPT !.hosts = @ \ {a}].vlan = v
  BY <1>2 DEF Nets
<1> HIDE DEF net
<1>5. \E n \in Nets : n.vlan = v /\ Install(u, n)
  <2>1. CASE AllocateFrom(u, v)
    BY <1>2, <1>3, <1>4, <2>1 DEF AllocateFrom, net
  <2>2. CASE CloudpipeFrom(u, v)
    BY <1>3, <1>4, <2>2 DEF CloudpipeFrom, net
  <2>3. CASE LookupFrom(u, v) \/ VisitFrom(u, v)
    BY <1>2, <2>3 DEF LookupFrom, VisitFrom, net
  <2>4. CASE DeallocateFrom(u, v)
    BY <1>2, <1>3, <1>4, <2>4 DEF DeallocateFrom, net
  <2> QED BY <2>1, <2>2, <2>3, <2>4
<1> QED BY <1>1, <1>5, NetworkStepAgrees

(* Without a crash no file is torn.                                        *)
Whole == torn = {}

LEMMA WholeStep ==
  ASSUME Whole, Crashes = FALSE, [Next]_vars
  PROVE  Whole'
<1> USE DEF Whole, memory, keeper, loop, Others
<1>1. ASSUME NEW u \in Users, PortRaises(u) PROVE Whole'
  BY <1>1 DEF PortRaises, next, RemoveFile
<1>2. ASSUME NEW u \in Users, NEW v \in Vlans,
             \/ AllocateFrom(u, v) \/ CloudpipeFrom(u, v) \/ LookupFrom(u, v)
             \/ VisitFrom(u, v) \/ DeallocateFrom(u, v)
      PROVE  Whole'
  <2>1. UsersNetwork(u, v)
    BY <1>2 DEF AllocateFrom, CloudpipeFrom, LookupFrom, VisitFrom, DeallocateFrom
  <2> QED BY <2>1 DEF UsersNetwork, next, RemoveFile
<1>3. ASSUME NEW u \in Users,
             \/ CreateUser(u) \/ DeleteUser(u) \/ AllocatePrivate(u) \/ GetCloudpipe(u)
             \/ GetUsersNetwork(u) \/ AllocatePublic(u) \/ DescribeUser(u)
             \/ DeallocateUser(u) \/ SaveNet(u)
      PROVE  Whole'
  BY <1>1, <1>2, <1>3
     DEF CreateUser, DeleteUser, AllocatePrivate, GetCloudpipe, GetUsersNetwork, AllocatePublic,
         DescribeUser, DeallocateUser, SaveNet, NoNetwork, Refuse, Abandon, Fail
<1>4. ASSUME NEW u \in Users, StartUser(u) PROVE Whole'
  BY <1>2, <1>4 DEF StartUser, RemoveFile
<1>5. ASSUME NEW p \in PublicAddresses,
             \/ ReleasePublic(p) \/ Disassociate(p)
             \/ \E x \in InstanceIPs : Associate(p, x)
      PROVE  Whole'
  BY <1>5 DEF ReleasePublic, Disassociate, Associate, Refuse, Fail, BeginSave
<1>6. CASE \/ WriteFresh \/ Describe \/ DescribeDone \/ DeallocateNotFound
           \/ \E a \in PrivateAddresses : DeallocatePrivate(a)
  BY <1>6 DEF WriteFresh, Describe, DescribeDone, DeallocateNotFound, DeallocatePrivate, Abandon
<1>7. CASE \/ SavePrivate \/ SavePublic \/ SaveVlans \/ StartRaises \/ Start \/ StartDone
           \/ UNCHANGED vars
  BY <1>7 DEF SavePrivate, SavePublic, SaveVlans, StartRaises, Start, StartDone, vars
<1> QED BY <1>3, <1>4, <1>5, <1>6, <1>7 DEF Next, Crash

LEMMA AgreesStep ==
  ASSUME TypeOK, Pending, DownIsEmpty, Whole, PoolAgrees, StartsEmpty, Crashes = FALSE,
         [Next]_vars
  PROVE  PoolAgrees' /\ StartsEmpty'
<1> USE DEF memory, keeper, loop, Others
<1>1. ASSUME UNCHANGED <<portless, vlans, private_nets, kNet>> PROVE PoolAgrees'
  BY <1>1 DEF PoolAgrees
<1>2. ASSUME pc' \notin {"down", "start"} PROVE StartsEmpty'
  BY <1>2 DEF StartsEmpty
<1>0. ASSUME NEW u \in Users, PortRaises(u) PROVE PoolAgrees' /\ StartsEmpty'
  <2>1. PICK v \in Vlans : next(u, v)
    BY <1>0 DEF PortRaises
  <2>2. /\ \A w \in Users : kNet'[w] # None => kNet'[w] = kNet[w]
        /\ \A w \in Users : vlans'[w] = IF w = u THEN v ELSE vlans[w]
    BY <2>1 DEF next, assign_vlan, RemoveFile, Stale, TypeOK
  <2>3. private_nets' = private_nets /\ portless' = portless \cup {u} /\ pc' = "idle"
    BY <1>0 DEF PortRaises, Fail
  <2> QED BY <1>2, <2>2, <2>3, NoneAssumption DEF PoolAgrees
<1>3. ASSUME NEW u \in Users, NoNetwork(u), pc = "idle" PROVE PoolAgrees' /\ StartsEmpty'
  BY <1>0, <1>1, <1>2, <1>3 DEF NoNetwork, Refuse, Fail
<1>4. ASSUME NEW u \in Users, NEW v \in Vlans, pc \notin {"down", "start"},
             \/ AllocateFrom(u, v) \/ CloudpipeFrom(u, v) \/ LookupFrom(u, v)
             \/ VisitFrom(u, v) \/ DeallocateFrom(u, v)
      PROVE  PoolAgrees' /\ StartsEmpty'
  BY <1>2, <1>4, FromStepAgrees
     DEF AllocateFrom, CloudpipeFrom, LookupFrom, VisitFrom, DeallocateFrom, BeginSave, Fail
<1>5. ASSUME NEW u \in Users, CreateUser(u) \/ DeleteUser(u) PROVE PoolAgrees' /\ StartsEmpty'
  BY <1>5 DEF CreateUser, DeleteUser, PoolAgrees, StartsEmpty
<1>6. ASSUME NEW u \in Users, AllocatePrivate(u) \/ GetCloudpipe(u) \/ GetUsersNetwork(u)
      PROVE  PoolAgrees' /\ StartsEmpty'
  BY <1>3, <1>4, <1>6 DEF AllocatePrivate, GetCloudpipe, GetUsersNetwork, Idle
<1>7. ASSUME NEW u \in Users, AllocatePublic(u) PROVE PoolAgrees' /\ StartsEmpty'
  BY <1>1, <1>2, <1>7 DEF AllocatePublic, Refuse, Fail, BeginSave
<1>8. ASSUME NEW p \in PublicAddresses,
             \/ ReleasePublic(p) \/ Disassociate(p)
             \/ \E x \in InstanceIPs : Associate(p, x)
      PROVE  PoolAgrees' /\ StartsEmpty'
  BY <1>1, <1>2, <1>8 DEF ReleasePublic, Disassociate, Associate, Refuse, Fail, BeginSave
<1>9. ASSUME NEW u \in Users, DescribeUser(u) PROVE PoolAgrees' /\ StartsEmpty'
  BY <1>0, <1>1, <1>2, <1>4, <1>9 DEF DescribeUser, Abandon, Fail
<1>10. ASSUME NEW u \in Users, DeallocateUser(u) PROVE PoolAgrees' /\ StartsEmpty'
  BY <1>0, <1>1, <1>2, <1>4, <1>10 DEF DeallocateUser, Abandon, Fail
<1>11. ASSUME NEW u \in Users, SaveNet(u) PROVE PoolAgrees' /\ StartsEmpty'
  <2>1. pc' \in {"idle", "nets"} /\ UNCHANGED <<portless, vlans, private_nets>>
    BY <1>11 DEF SaveNet, Fail
  <2>2. kNet' = kNet \/ kNet' = [kNet EXCEPT ![u] = private_nets[u]]
    BY <1>11 DEF SaveNet
  <2>3. PoolAgrees'
    BY <2>1, <2>2 DEF PoolAgrees, TypeOK
  <2> QED BY <1>2, <2>1, <2>3
<1>12. ASSUME NEW u \in Users, StartUser(u) PROVE FALSE
  BY <1>12 DEF StartUser, StartsEmpty
<1>13. CASE WriteFresh
  <2>1. fresh \in Users /\ pc' = pc /\ pc # "down"
    BY <1>13 DEF WriteFresh, TypeOK, DownIsEmpty
  <2>2. kNet' = [kNet EXCEPT ![fresh] = [vlan |-> vlans[fresh], hosts |-> {}]]
        /\ UNCHANGED <<portless, vlans, private_nets, left>>
    BY <1>13 DEF WriteFresh
  <2>4. /\ \A w \in Users : kNet'[w] = IF w = fresh THEN [vlan |-> vlans[fresh], hosts |-> {}]
                                  ELSE kNet[w]
        /\ vlans[fresh] # None
    BY <1>13, <2>1, <2>2 DEF WriteFresh, TypeOK, Pending
  <2>3. PoolAgrees'
    BY <2>1, <2>2, <2>4 DEF PoolAgrees
  <2> QED BY <2>1, <2>2, <2>3 DEF StartsEmpty
<1>14. CASE \/ Describe \/ DescribeDone \/ DeallocateNotFound
            \/ \E a \in PrivateAddresses : DeallocatePrivate(a)
  BY <1>1, <1>2, <1>14 DEF Describe, DescribeDone, DeallocateNotFound, DeallocatePrivate,
       Abandon, Fail
<1>15. CASE SavePrivate \/ SavePublic \/ SaveVlans
  BY <1>1, <1>2, <1>15 DEF SavePrivate, SavePublic, SaveVlans
<1>16. CASE Start
  BY <1>16 DEF Start, StartsEmpty, PoolAgrees, NoUsers
<1>17. CASE StartDone
  <2>1. CASE "public" \in torn
    BY <2>1 DEF Whole, Shared
  <2>2. CASE "public" \notin torn
    BY <1>1, <1>2, <1>17, <2>2 DEF StartDone
  <2> QED BY <2>1, <2>2
<1>18. CASE StartRaises \/ UNCHANGED vars
  BY <1>18 DEF StartRaises, vars, PoolAgrees, StartsEmpty
<1> QED BY <1>5, <1>6, <1>7, <1>8, <1>9, <1>10, <1>11, <1>12, <1>13, <1>14, <1>15, <1>16,
           <1>17, <1>18 DEF Next, Crash

(* In a process that does not crash, the pool knows every existing user    *)
(* that has a network, and has the VLAN of the network the user's          *)
(* addresses come from unless a call of this user stopped between the two, *)
(* through deletions, re-creations and reclaimed VLANs.                    *)
THEOREM PoolStaysTrue ==
  ASSUME Crashes = FALSE
  PROVE  Spec => []PoolMatchesNetworks
<1>1. Init => PoolAgrees /\ StartsEmpty
  BY DEF Init, NoUsers, PoolAgrees, StartsEmpty
<1>2. TypeOK /\ Pending /\ DownIsEmpty /\ Whole /\ PoolAgrees /\ StartsEmpty /\ [Next]_vars
      => PoolAgrees' /\ StartsEmpty'
  BY AgreesStep
<1>4. Init => Whole
  BY DEF Init, Whole
<1>5. TypeOK /\ Whole /\ [Next]_vars => Whole'
  BY WholeStep
<1>3. TypeOK /\ PoolAgrees => PoolMatchesNetworks
  BY DEF PoolAgrees, PoolMatchesNetworks, TypeOK
<1> QED BY <1>1, <1>2, <1>3, <1>4, <1>5, TypeCorrect, PTL DEF Spec

-----------------------------------------------------------------------------
(* Durability *)

(* A user that cannot be deleted exists as long as it has a network.       *)
StayingExist == \A u \in Users \ Deletable : private_nets[u] # None => u \in ldap

(* The network of such a user is in its file.                              *)
Filed(u) == private_nets[u] # None => kNet[u] = private_nets[u]
Listed(u) == private_nets[u] # None => u \in kPrivate
Staying == ldap \ Deletable

(* What _save has done when it has come to a file: every network is        *)
(* visited after the new one was written; then come the list, the public   *)
(* records and the pool.                                                   *)
NetsSaved ==
  pc = "nets" =>
    /\ fresh # None => \A u \in Users : private_nets[u] # None => u \in left
    /\ \A u \in Staying : private_nets[u] # None =>
         u \in left \/ (u \in listed /\ kNet[u] = private_nets[u])
ListSaved ==
  pc \in {"private", "public"} \/ Acknowledged =>
    fresh = None /\ \A u \in Staying : Filed(u) /\ Listed(u)
PublicSaved == pc = "public" \/ Acknowledged => kPublic = public
PoolSaved == Acknowledged => kVlans = vlans

(* A process that starts has answered nothing.                             *)
StartsSilent == pc \in {"down", "start"} => reply = "none"

Saving == StayingExist /\ NetsSaved /\ ListSaved /\ PublicSaved /\ PoolSaved /\ StartsSilent

LEMMA SavingStep ==
  ASSUME TypeOK, DownIsEmpty, Saving, [Next]_vars
  PROVE  Saving'
<1> USE DEF memory, keeper, loop, Others, Acknowledged, Staying, Filed, Listed
<1>1. ASSUME UNCHANGED <<ldap, private_nets, kNet, kPrivate, kPublic, kVlans>>,
             pc' \notin {"nets", "private", "public", "down", "start"}, reply' # "ok"
      PROVE  Saving'
  BY <1>1 DEF Saving, StayingExist, NetsSaved, ListSaved, PublicSaved, PoolSaved, StartsSilent
<1>0. ASSUME NEW u \in Users, PortRaises(u), pc \notin {"down", "start"} PROVE Saving'
  <2>1. /\ pc' = "idle" /\ reply' = "ValueError"
        /\ UNCHANGED <<ldap, private_nets, kPrivate, kPublic, kVlans>>
    BY <1>0 DEF PortRaises, Fail
  <2> QED BY <2>1 DEF Saving, StayingExist, NetsSaved, ListSaved, PublicSaved, PoolSaved, StartsSilent
<1>2. ASSUME NEW u \in Users, NoNetwork(u), pc = "idle" PROVE Saving'
  BY <1>0, <1>1, <1>2 DEF NoNetwork, Refuse, Fail
<1>3. ASSUME NEW u \in Users, NEW v \in Vlans,
             \/ pc = "idle" /\ (AllocateFrom(u, v) \/ CloudpipeFrom(u, v) \/ LookupFrom(u, v))
             \/ pc \in {"describe", "start"} /\ VisitFrom(u, v)
             \/ pc = "deallocate" /\ DeallocateFrom(u, v)
      PROVE  Saving'
  <2>1. /\ u \in ldap /\ ldap' = ldap
        /\ \A w \in Users \ {u} : private_nets'[w] = private_nets[w]
    BY <1>3 DEF AllocateFrom, CloudpipeFrom, LookupFrom, VisitFrom, DeallocateFrom, Install, TypeOK
  <2>2. StayingExist'
    BY <2>1 DEF Saving, StayingExist
  <2>3. \/ pc' = "nets" /\ left' = {w \in Users : private_nets'[w] # None}
        \/ /\ pc' \in {"idle", "describe", "deallocate", "start"}
           /\ ~(pc' = "idle" /\ reply' = "ok")
           /\ pc' = "start" => pc = "start" /\ reply' = reply
    <3>1. CASE AllocateFrom(u, v) \/ CloudpipeFrom(u, v)
      BY <1>3, <3>1 DEF AllocateFrom, CloudpipeFrom, BeginSave, Fail
    <3>2. CASE pc = "idle" /\ LookupFrom(u, v)
      BY <3>2 DEF LookupFrom
    <3>3. CASE pc \in {"describe", "start"} /\ VisitFrom(u, v)
      BY <3>3 DEF VisitFrom
    <3>4. CASE pc = "deallocate" /\ DeallocateFrom(u, v)
      BY <3>4 DEF DeallocateFrom, BeginSave, Fail
    <3> QED BY <1>3, <3>1, <3>2, <3>3, <3>4
  <2>4. CASE pc' = "nets" /\ left' = {w \in Users : private_nets'[w] # None}
    <3>1. NetsSaved'
      BY <2>1, <2>4 DEF NetsSaved, TypeOK
    <3> QED BY <2>2, <2>4, <3>1 DEF Saving, ListSaved, PublicSaved, PoolSaved, StartsSilent
  <2>5. CASE /\ pc' \in {"idle", "describe", "deallocate", "start"}
             /\ ~(pc' = "idle" /\ reply' = "ok")
             /\ pc' = "start" => pc = "start" /\ reply' = reply
    BY <2>2, <2>5 DEF Saving, NetsSaved, ListSaved, PublicSaved, PoolSaved, StartsSilent
  <2> QED BY <2>3, <2>4, <2>5
<1>4. ASSUME pc' = "nets", left' = {u \in Users : private_nets'[u] # None},
             UNCHANGED <<ldap, private_nets>>
      PROVE  Saving'
  <2>1. NetsSaved'
    BY <1>4 DEF NetsSaved, TypeOK
  <2> QED BY <1>4, <2>1
             DEF Saving, StayingExist, ListSaved, PublicSaved, PoolSaved, StartsSilent
<1>5. ASSUME NEW u \in Users, CreateUser(u) \/ DeleteUser(u) PROVE Saving'
  <2>1. UNCHANGED <<memory, keeper, nat, pc, loop, reply>>
    BY <1>5 DEF CreateUser, DeleteUser
  <2>2. \A w \in Users \ Deletable : w \in ldap => w \in ldap'
    BY <1>5 DEF CreateUser, DeleteUser
  <2>3. StayingExist'
    BY <2>1, <2>2 DEF Saving, StayingExist
  <2>4. \A w \in ldap' \ Deletable : private_nets[w] # None => w \in Staying
    <3>1. ldap' \subseteq Users
      BY <1>5 DEF CreateUser, DeleteUser, TypeOK
    <3> QED BY <3>1 DEF Saving, StayingExist
  <2>5. NetsSaved'
    BY <2>1, <2>4 DEF Saving, NetsSaved
  <2>6. ListSaved'
    BY <2>1, <2>4 DEF Saving, ListSaved
  <2> QED BY <2>1, <2>3, <2>5, <2>6 DEF Saving, PublicSaved, PoolSaved, StartsSilent
<1>6. ASSUME NEW u \in Users, AllocatePrivate(u) \/ GetCloudpipe(u) \/ GetUsersNetwork(u)
      PROVE  Saving'
  BY <1>2, <1>3, <1>6 DEF AllocatePrivate, GetCloudpipe, GetUsersNetwork, Idle
<1>7. ASSUME NEW u \in Users, AllocatePublic(u) PROVE Saving'
  <2>1. CASE Refuse("NoMoreAddresses")
    BY <1>1, <2>1 DEF Refuse, Fail
  <2>2. CASE ~Refuse("NoMoreAddresses")
    BY <1>4, <1>7, <2>2 DEF AllocatePublic, BeginSave
  <2> QED BY <2>1, <2>2
<1>8. ASSUME NEW p \in PublicAddresses, ReleasePublic(p) \/ Disassociate(p) PROVE Saving'
  BY <1>1, <1>8 DEF ReleasePublic, Disassociate, Refuse, Fail
<1>9. ASSUME NEW p \in PublicAddresses, NEW x \in InstanceIPs, Associate(p, x) PROVE Saving'
  <2>1. CASE Refuse("AddressNotAllocated") \/ Refuse("AddressAlreadyAssociated")
    BY <1>1, <2>1 DEF Refuse, Fail
  <2>2. CASE ~(Refuse("AddressNotAllocated") \/ Refuse("AddressAlreadyAssociated"))
    BY <1>4, <1>9, <2>2 DEF Associate, BeginSave
  <2> QED BY <2>1, <2>2
<1>10. ASSUME NEW u \in Users, DescribeUser(u) PROVE Saving'
  BY <1>0, <1>1, <1>3, <1>10 DEF DescribeUser, Abandon, Fail
<1>11. ASSUME NEW u \in Users, DeallocateUser(u) PROVE Saving'
  <2>1. CASE u \notin ldap
    BY <1>1, <1>3, <1>11, <2>1
       DEF DeallocateUser, DeallocateFrom, PortRaises, Saving, StayingExist, NetsSaved, ListSaved,
           PublicSaved, PoolSaved, StartsSilent
  <2>2. CASE u \in ldap
    BY <1>0, <1>1, <1>3, <1>11, <2>2 DEF DeallocateUser, Abandon, Fail
  <2> QED BY <2>1, <2>2
<1>12. ASSUME NEW u \in Users, SaveNet(u) PROVE Saving'
  <2>1. CASE u \notin ldap
    BY <1>12, <2>1 DEF SaveNet, Saving, StayingExist, NetsSaved, ListSaved, PublicSaved,
         PoolSaved, StartsSilent
  <2>2. CASE u \in ldap /\ vlans[u] = None
    BY <1>1, <1>12, <2>2 DEF SaveNet, Fail
  <2>3. CASE u \in ldap /\ vlans[u] # None
    <3>1. /\ pc = "nets" /\ pc' = "nets" /\ fresh = None /\ fresh' = None
          /\ kNet' = [kNet EXCEPT ![u] = private_nets[u]]
          /\ left' = left \ {u} /\ listed' = listed \cup {u}
          /\ UNCHANGED <<ldap, private_nets>>
      BY <1>12, <2>3 DEF SaveNet
    <3>2. NetsSaved'
      BY <3>1 DEF Saving, NetsSaved, TypeOK
    <3> QED BY <3>1, <3>2
               DEF Saving, StayingExist, ListSaved, PublicSaved, PoolSaved, StartsSilent
  <2> QED BY <2>1, <2>2, <2>3
<1>13. ASSUME Stop, ldap' = ldap PROVE Saving'
  BY <1>13, NoneAssumption DEF Stop, NoUsers, Saving, StayingExist, NetsSaved, ListSaved, PublicSaved,
       PoolSaved, StartsSilent
<1>14. ASSUME NEW u \in Users, StartUser(u) PROVE Saving'
  <2>1. CASE u \notin ldap
    BY <1>14, <2>1 DEF StartUser, VisitFrom, Saving, StayingExist, NetsSaved, ListSaved,
         PublicSaved, PoolSaved, StartsSilent
  <2>2. CASE u \in ldap
    BY <1>3, <1>13, <1>14, <2>2 DEF StartUser
  <2> QED BY <2>1, <2>2
<1>15. CASE WriteFresh
  <2>1. /\ fresh # None /\ fresh' = None /\ fresh \in Users
        /\ UNCHANGED <<ldap, private_nets, kPrivate, kPublic, kVlans, vlans, public, pc, left,
                       listed, reply>>
    BY <1>15 DEF WriteFresh, TypeOK
  <2>2. pc \notin {"private", "public"} /\ ~(pc = "idle" /\ reply = "ok")
    BY <2>1 DEF Saving, ListSaved
  <2>3. NetsSaved'
    BY <2>1 DEF Saving, NetsSaved, TypeOK
  <2> QED BY <2>1, <2>2, <2>3
             DEF Saving, StayingExist, ListSaved, PublicSaved, PoolSaved, StartsSilent
<1>16. CASE \/ Describe \/ DescribeDone \/ DeallocateNotFound
            \/ \E a \in PrivateAddresses : DeallocatePrivate(a)
  BY <1>1, <1>16 DEF Describe, DescribeDone, DeallocateNotFound, DeallocatePrivate,
       Abandon, Fail
<1>17. CASE SavePrivate
  BY <1>17 DEF SavePrivate, Saving, StayingExist, NetsSaved, ListSaved, PublicSaved, PoolSaved,
       StartsSilent
<1>18. CASE SavePublic
  BY <1>18 DEF SavePublic, Saving, StayingExist, NetsSaved, ListSaved, PublicSaved, PoolSaved,
       StartsSilent
<1>19. CASE SaveVlans
  BY <1>19 DEF SaveVlans, Saving, StayingExist, NetsSaved, ListSaved, PublicSaved, PoolSaved,
       StartsSilent
<1>20. CASE Crash
  BY <1>13, <1>20 DEF Crash
<1>21. CASE Start
  BY <1>21 DEF Start, Saving, StayingExist, NetsSaved, ListSaved, PublicSaved, PoolSaved,
       StartsSilent
<1>22. CASE StartDone
  <2>1. CASE "public" \in torn
    BY <1>13, <1>22, <2>1 DEF StartDone
  <2>2. CASE "public" \notin torn
    BY <1>22, <2>2 DEF StartDone, Saving, StayingExist, NetsSaved, ListSaved, PublicSaved,
         PoolSaved, StartsSilent
  <2> QED BY <2>1, <2>2
<1>23. CASE StartRaises \/ UNCHANGED vars
  BY <1>23 DEF StartRaises, vars, Saving, StayingExist, NetsSaved, ListSaved, PublicSaved, PoolSaved,
       StartsSilent
<1> QED BY <1>5, <1>6, <1>7, <1>8, <1>9, <1>10, <1>11, <1>12, <1>14, <1>15, <1>16, <1>17,
           <1>18, <1>19, <1>20, <1>21, <1>22, <1>23 DEF Next

(* A call that was answered after its _save is on disk, where a restart    *)
(* can read it: the public records, the pool and the network of every user *)
(* that cannot have been deleted, for any interleaving of deletions and    *)
(* crashes, also in the middle of a write.                                 *)
THEOREM AnsweredIsSaved == Spec => []SavedWhenAcknowledged
<1>1. Init => Saving
  BY DEF Init, NoUsers, Saving, StayingExist, NetsSaved, ListSaved, PublicSaved, PoolSaved,
       StartsSilent, Acknowledged
<1>2. TypeOK /\ DownIsEmpty /\ Saving /\ [Next]_vars => Saving'
  BY SavingStep
<1>3. TypeOK /\ FilesReadable /\ Saving => SavedWhenAcknowledged
  BY DEF TypeOK, FilesReadable, Acknowledged, Saving, ListSaved, PublicSaved, PoolSaved,
         SavedWhenAcknowledged, Staying, Filed, Listed
<1> QED BY <1>1, <1>2, <1>3, TypeCorrect, FilesStayReadable, PTL DEF Spec
=============================================================================
