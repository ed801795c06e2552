---------------------------- MODULE MCCloudVolumes ----------------------------
(* CloudVolumes with an instance that takes a disk by its name or by its path. *)
EXTENDS CloudVolumes

MCPlaces == [instance : {"x"}, mountpoint : {"vdb", "/dev/vdb"}]
MCNameOf == [m \in {"vdb", "/dev/vdb"} |-> "vdb"]
=============================================================================
