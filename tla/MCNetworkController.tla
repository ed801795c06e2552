------------------------ MODULE MCNetworkController ------------------------
EXTENDS NetworkController, TLC

(* A plausible public range of 6, 7 addresses hands out 1, 2 of them.      *)
Instances1 == {NetSize + 2}
Instances2 == Instances1 \cup {2 * NetSize + 2}
NoInstances == {}
=============================================================================
