----------------------------- MODULE MCBucketStore -----------------------------
EXTENDS BucketStore, TLC

CONSTANTS b1, b1json, manifest, part, u1, u2, root, r1

(* The owner file of bucket b1 has the name of bucket b1.json.             *)
MCBeside == (b1 :> b1json) @@ (b1json :> None)

Symmetry == Permutations({u1, u2})
=============================================================================
