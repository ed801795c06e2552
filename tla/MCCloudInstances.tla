--------------------------- MODULE MCCloudInstances ---------------------------
EXTENDS CloudInstances, TLC

CONSTANTS i1, v1, v2, u1

(* The VPN of one user may be launched twice; the other ids are ordinary.  *)
Vpns == [i \in Ids |-> IF i \in {v1, v2} THEN u1 ELSE None]
=============================================================================
