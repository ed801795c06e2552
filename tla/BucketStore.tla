------------------------------ MODULE BucketStore ------------------------------
(***************************************************************************)
(* The buckets of the object store: nova/objectstore/bucket.py, object.py  *)
(* and the handlers of handler.py.  A bucket is a directory, an owner file *)
(* <name>.json beside it and the objects in it.  The server handles one    *)
(* request at a time and may die between two system calls; the processes   *)
(* that register images read objects while it works.  _object_path takes   *)
(* any name whose path begins as the bucket's does, and does not normalise *)
(* it: a key may lead to an object of another bucket or to an owner file.  *)
(* Keys that lead to other files are left out.                             *)
(* A definition that no other one uses is a mutated form of the one below  *)
(* it, with a plausible bug.                                               *)
(***************************************************************************)
EXTENDS Naturals, FiniteSets

CONSTANTS
  Buckets, Keys,
  Beside,          \* bucket -> the bucket named like its owner file, or None
  Manifest,        \* the object that a registration reads first
  Users, Admins,
  Registrations,   \* processes that register images
  MaxStrayed,      \* bound on the buckets that keys lead to which are not meant for them
  None, Torn

VARIABLES
  dir,      \* buckets with a directory
  json,     \* bucket -> content of its owner file: None, Torn or a user id
  objects,  \* bucket -> key -> None, Torn or who put it
  serving,  \* what the handler is doing, or None
  reading,  \* registration -> what it has read, or None
  hurt,     \* history: buckets whose creation, deletion or PUT was cut short
  strayed   \* history: buckets that a key led to which was not meant for them

store == <<dir, json, objects>>
history == <<hurt, strayed>>
vars == <<store, serving, reading, history>>

ASSUME BucketNames ==
  /\ None \notin Users /\ Torn \notin Users \cup {None} /\ Admins \subseteq Users
  /\ Beside \in [Buckets -> Buckets \cup {None}] /\ \A b \in Buckets : Beside[b] # b
  /\ Manifest \in Keys /\ MaxStrayed \in Nat

Requests ==
  [do : {"open", "write", "remove", "owner"}, user : Users, bucket : Buckets]
    \cup [do : {"put"}, user : Users, bucket : Buckets, key : Keys]
Objects == Users \cup {None, Torn}
Readings == [bucket : Buckets, owner : Objects, same : BOOLEAN, got : [Keys -> Objects]]

ASSUME RequestNames == None \notin Requests \cup Readings

Empty(b) == \A k \in Keys : objects[b][k] = None

TypeOK ==
  /\ dir \subseteq Buckets /\ hurt \subseteq Buckets /\ strayed \subseteq Buckets
  /\ json \in [Buckets -> Objects]
  /\ objects \in [Buckets -> [Keys -> Objects]]
  /\ serving \in Requests \cup {None}
  /\ reading \in [Registrations -> Readings \cup {None}]
  /\ \A b \in Buckets \ dir : Empty(b)

Init ==
  /\ dir = {} /\ json = [b \in Buckets |-> None] /\ hurt = {} /\ strayed = {}
  /\ objects = [b \in Buckets |-> [k \in Keys |-> None]]
  /\ serving = None /\ reading = [r \in Registrations |-> None]

(* Bucket(name) raises without a directory; is_authorized takes an owner   *)
(* file that does not parse as nobody's.                                   *)
MayUse(u, b) == b \in dir /\ (u \in Admins \/ json[b] = u)

Does(step) == serving # None /\ serving.do = step

-----------------------------------------------------------------------------
(* Bucket.create *)

TakenByFile(b) == \E c \in Buckets : Beside[c] = b /\ json[c] # None

Taken(b) == b \in dir \/ \E c \in Buckets : Beside[c] = b /\ json[c] # None

CreateDir(u, b) ==
  /\ serving = None
  /\ ~Taken(b)
  /\ dir' = dir \cup {b}
  /\ serving' = [do |-> "open", user |-> u, bucket |-> b]
  /\ UNCHANGED <<json, objects, reading, history>>

(* A directory in the place of the owner file makes open() raise.          *)
CreateOpens ==
  /\ Does("open")
  /\ LET b == serving.bucket
     IN IF Beside[b] \in dir
        THEN serving' = None /\ hurt' = hurt \cup {b} /\ UNCHANGED json
        ELSE /\ json' = [json EXCEPT ![b] = Torn]
             /\ serving' = [serving EXCEPT !.do = "write"]
             /\ UNCHANGED hurt
  /\ UNCHANGED <<dir, objects, reading, strayed>>

CreateWrites ==
  /\ Does("write")
  /\ json' = [json EXCEPT ![serving.bucket] = serving.user]
  /\ serving' = None
  /\ UNCHANGED <<dir, objects, reading, history>>

-----------------------------------------------------------------------------
(* Bucket.delete.  Whatever a registration reads from now on under this    *)
(* name is in another bucket.                                              *)

Doubtful(S) == [r \in Registrations |->
  IF reading[r] # None /\ reading[r].bucket \in S
  THEN [reading[r] EXCEPT !.same = FALSE] ELSE reading[r]]

DeleteUnchecked(u, b) ==
  /\ serving = None
  /\ MayUse(u, b)
  /\ dir' = dir \ {b}
  /\ serving' = [do |-> "remove", user |-> u, bucket |-> b]
  /\ reading' = Doubtful({b})
  /\ UNCHANGED <<json, objects, history>>

DeleteFileFirst(u, b) ==
  /\ serving = None
  /\ MayUse(u, b) /\ Empty(b)
  /\ json' = [json EXCEPT ![b] = None]
  /\ serving' = [do |-> "remove", user |-> u, bucket |-> b]
  /\ UNCHANGED <<dir, objects, reading, history>>

DeleteDir(u, b) ==
  /\ serving = None
  /\ MayUse(u, b) /\ Empty(b)
  /\ dir' = dir \ {b}
  /\ serving' = [do |-> "remove", user |-> u, bucket |-> b]
  /\ reading' = Doubtful({b})
  /\ UNCHANGED <<json, objects, history>>

DeleteKeepsFile ==
  /\ Does("remove")
  /\ serving' = None
  /\ UNCHANGED <<store, reading, history>>

DeleteFile ==
  /\ Does("remove")
  /\ json' = [json EXCEPT ![serving.bucket] = None]
  /\ serving' = None
  /\ UNCHANGED <<dir, objects, reading, history>>

-----------------------------------------------------------------------------
(* Objects *)

Strays(S) ==
  /\ strayed' = strayed \cup S
  /\ Cardinality(strayed') <= MaxStrayed
  /\ reading' = Doubtful(strayed')

LeadsUnchecked(u, b, c) ==
  /\ serving = None
  /\ b \in dir
  /\ Strays(IF c = b \/ MayUse(u, c) THEN {} ELSE {c})

(* A key of a request for b leads to a file of c: the right to c is not    *)
(* looked at.                                                              *)
Leads(u, b, c) ==
  /\ serving = None
  /\ MayUse(u, b)
  /\ Strays(IF c = b \/ MayUse(u, c) THEN {} ELSE {c})

(* __setitem__: the file is emptied and then written.                      *)
PutOpens(u, b, c, k) ==
  /\ Leads(u, b, c)
  /\ c \in dir
  /\ objects' = [objects EXCEPT ![c][k] = Torn]
  /\ serving' = [do |-> "put", user |-> u, bucket |-> c, key |-> k]
  /\ UNCHANGED <<dir, json, hurt>>

PutWrites ==
  /\ Does("put")
  /\ objects' = [objects EXCEPT ![serving.bucket][serving.key] = serving.user]
  /\ serving' = None
  /\ UNCHANGED <<dir, json, reading, history>>

DeleteObject(u, b, c, k) ==
  /\ Leads(u, b, c)
  /\ objects[c][k] # None
  /\ objects' = [objects EXCEPT ![c][k] = None]
  /\ UNCHANGED <<dir, json, serving, hurt>>

(* Owner files: a PUT writes whatever its body says.                       *)
LeadsToOwnerFile(u, b, c) == serving = None /\ MayUse(u, b) /\ Strays({c})

PutOwnerFileOpens(u, b, c) ==
  /\ LeadsToOwnerFile(u, b, c)
  /\ Beside[c] \notin dir
  /\ json' = [json EXCEPT ![c] = Torn]
  /\ serving' = [do |-> "owner", user |-> u, bucket |-> c]
  /\ UNCHANGED <<dir, objects, hurt>>

PutOwnerFileWrites ==
  /\ Does("owner")
  /\ \E o \in Users \cup {Torn} : json' = [json EXCEPT ![serving.bucket] = o]
  /\ serving' = None
  /\ UNCHANGED <<dir, objects, reading, history>>

DeleteOwnerFile(u, b, c) ==
  /\ LeadsToOwnerFile(u, b, c)
  /\ json[c] # None
  /\ json' = [json EXCEPT ![c] = None]
  /\ UNCHANGED <<dir, objects, serving, hurt>>

Crash ==
  /\ serving # None
  /\ serving' = None
  /\ hurt' = hurt \cup {serving.bucket}
  /\ UNCHANGED <<store, reading, strayed>>

-----------------------------------------------------------------------------
(* Registration: the right to the bucket is checked when the request       *)
(* comes, the objects are read by a process, one after the other.          *)

Register(r, u, b) ==
  /\ serving = None /\ reading[r] = None
  /\ MayUse(u, b)
  /\ reading' = [reading EXCEPT ![r] =
       [bucket |-> b, owner |-> json[b], same |-> b \notin strayed, got |-> [k \in Keys |-> None]]]
  /\ UNCHANGED <<store, serving, history>>

(* The location and the manifest name the objects: they may lead into      *)
(* another bucket.  An object that is being written is read as it is; a    *)
(* manifest must parse.                                                    *)
ReadObject(r, c, k) ==
  /\ reading[r] # None
  /\ LET g == reading[r].got
         o == objects[c][k]
     IN /\ g[k] = None /\ o # None
        /\ IF k = Manifest THEN o # Torn ELSE g[Manifest] # None
        /\ reading' = [reading EXCEPT ![r].got[k] = o, ![r].same = @ /\ c = reading[r].bucket]
  /\ UNCHANGED <<store, serving, history>>

(* It has read all, or it fails: an object is missing or does not parse.   *)
EndReading(r) ==
  /\ reading[r] # None
  /\ reading' = [reading EXCEPT ![r] = None]
  /\ UNCHANGED <<store, serving, history>>

-----------------------------------------------------------------------------
Serve == CreateOpens \/ CreateWrites \/ DeleteFile \/ PutWrites \/ PutOwnerFileWrites

Next ==
  \/ \E u \in Users, b \in Buckets :
       \/ CreateDir(u, b) \/ DeleteDir(u, b)
       \/ \E c \in Buckets :
            \/ \E k \in Keys : PutOpens(u, b, c, k) \/ DeleteObject(u, b, c, k)
            \/ PutOwnerFileOpens(u, b, c) \/ DeleteOwnerFile(u, b, c)
       \/ \E r \in Registrations : Register(r, u, b)
  \/ Serve
  \/ Crash
  \/ \E r \in Registrations : EndReading(r) \/ \E c \in Buckets, k \in Keys : ReadObject(r, c, k)

Spec == Init /\ [][Next]_vars

-----------------------------------------------------------------------------
(* Properties *)

(* Every object was put by the user whose bucket it is in, or by an        *)
(* administrator: no death of the server between the directory and the     *)
(* owner file, and no stale owner file, hands objects to another user.     *)
(* Only a key that leads out of its bucket does.                           *)
ObjectsOfOwner ==
  \A b \in Buckets \ strayed, k \in Keys :
    objects[b][k] \in Users => objects[b][k] \in Admins \cup {json[b]}

(* The user whose bucket it is, once the request that makes it is over.    *)
Creating(b) == serving # None /\ serving.do \in {"open", "write"} /\ serving.bucket = b
Holder(b) == IF b \in dir /\ ~Creating(b) THEN json[b] ELSE None

(* A user keeps a bucket until it is deleted, which takes it to be empty,  *)
(* wherever the server dies and whatever keys lead to other buckets, unless*)
(* one led to this one.                                                    *)
OwnerKept ==
  [][\A b \in Buckets : Holder(b) \in Users /\ Holder(b)' # Holder(b) =>
       b \in strayed' \/ (Empty(b) /\ b \notin dir')]_vars

(* A request that is cut short damages no bucket but the one its name or   *)
(* key leads to: the others have a directory and an owner, or neither, and *)
(* whole objects.                                                          *)
OnlyTheCutIsHurt ==
  \A b \in Buckets \ (hurt \cup strayed) :
    serving = None \/ serving.bucket # b =>
      /\ b \in dir <=> json[b] \in Users
      /\ json[b] # Torn /\ \A k \in Keys : objects[b][k] # Torn

(* What an image is made of was put by the owner of the bucket or by an    *)
(* administrator, unless the bucket was deleted after the request, or a    *)
(* name in the manifest led out of it, or another request's key into it.   *)
ImageOfOwner ==
  \A r \in Registrations : reading[r] # None /\ reading[r].same =>
    \A k \in Keys :
      reading[r].got[k] \in Users => reading[r].got[k] \in Admins \cup {reading[r].owner}
=============================================================================
