----------------------------- MODULE Addressing -----------------------------
(***************************************************************************)
(* The address arithmetic of nova/compute/network.py: how a VLAN id names  *)
(* a private subnet, and which addresses of a network are handed out.      *)
(* A private address is its offset in FLAGS.private_range and a public     *)
(* address its offset in FLAGS.public_range.                               *)
(***************************************************************************)
EXTENDS Integers

CONSTANTS
  VlanStart,   \* FLAGS.vlan_start
  VlanEnd,     \* FLAGS.vlan_end
  NetSize,     \* FLAGS.network_size, the addresses in one private subnet
  PublicSize   \* the addresses in FLAGS.public_range

ASSUME VlanAssumption == VlanStart \in Nat /\ VlanEnd \in Nat /\ VlanStart < VlanEnd
ASSUME SizeAssumption ==
  /\ NetSize \in {4, 8, 16, 32, 64, 128, 256, 512, 1024}
  /\ PublicSize \in Nat

(* The ids VlanPool.next can hand out: it counts up from start + 1 and     *)
(* raises at end.                                                          *)
Vlans == (VlanStart + 1) .. (VlanEnd - 1)

(* NetworkPool.get_from_vlan *)
SubnetStart(v) == (v - VlanStart) * NetSize
Subnet(v)      == SubnetStart(v) .. (SubnetStart(v) + NetSize - 1)

(* Network.range: the first three and the last two are never handed out.   *)
Range(size)       == 3 .. (size - 3)
PrivateRange(v)   == {SubnetStart(v) + i : i \in Range(NetSize)}
PublicAddresses   == Range(PublicSize)

(* The .2 address of a subnet is always the CloudPipe's.                   *)
VpnAddress(v) == SubnetStart(v) + 2

(* An address range is scanned upwards for the first one not in use.       *)
IsFirstFree(a, range, used) ==
  /\ a \in range \ used
  /\ \A b \in range \ used : a <= b
=============================================================================
