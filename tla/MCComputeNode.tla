---------------------------- MODULE MCComputeNode ----------------------------
(* The ids of ComputeNode as model values; see the node_*.cfg files.        *)
EXTENDS ComputeNode
=============================================================================
