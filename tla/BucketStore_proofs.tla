-------------------------- MODULE BucketStore_proofs --------------------------
(***************************************************************************)
(* Proofs about BucketStore.  The inductive invariant adds to the          *)
(* properties what a request in progress knows of its bucket, and that a   *)
(* registration's bucket is still the one it was given and no key of       *)
(* another request led into it.                                            *)
(***************************************************************************)
EXTENDS BucketStore, TLAPS

ReadingFrom(r, b) == reading[r] # None /\ reading[r].same /\ reading[r].bucket = b

(* A bucket that is being made is empty and nobody reads it; one that is   *)
(* being removed has no directory any more.                                *)
ServingKnows ==
  serving # None =>
    LET b == serving.bucket
    IN /\ serving.do \in {"open", "write"} => b \in dir /\ Empty(b)
       /\ serving.do = "remove" => b \notin dir
       /\ serving.do # "put" => \A r \in Registrations : ~ReadingFrom(r, b)

(* A PUT is its owner's or an administrator's, and leaves the other        *)
(* objects alone.                                                          *)
PuttingKnows ==
  serving # None /\ serving.do = "put" =>
    LET b == serving.bucket
    IN /\ b \in dir /\ (b \notin strayed => serving.user \in Admins \cup {json[b]})
       /\ b \notin hurt \cup strayed =>
            /\ json[b] \in Users
            /\ \A k \in Keys \ {serving.key} : objects[b][k] # Torn

(* A bucket that was not deleted meanwhile has the owner it had.           *)
SameBucket ==
  \A r \in Registrations : reading[r] # None /\ reading[r].same =>
    /\ reading[r].bucket \in dir \ strayed
    /\ reading[r].owner = json[reading[r].bucket]

(* A PUT of an owner file led out of its bucket.                           *)
OwnerFilesStray == Does("owner") => serving.bucket \in strayed

Kept ==
  /\ TypeOK /\ OwnerFilesStray
  /\ ObjectsOfOwner /\ OnlyTheCutIsHurt /\ ImageOfOwner
  /\ ServingKnows /\ PuttingKnows /\ SameBucket

-----------------------------------------------------------------------------
LEMMA KeptInitially == Init => Kept
BY BucketNames DEF Init, Kept, TypeOK, Objects, Empty, ObjectsOfOwner, OnlyTheCutIsHurt,
  ImageOfOwner, ServingKnows, PuttingKnows, SameBucket, OwnerFilesStray, Does

LEMMA KeptByCreateDir ==
  ASSUME Kept, NEW u \in Users, NEW b \in Buckets, CreateDir(u, b)
  PROVE  Kept'
<1> USE BucketNames, RequestNames DEF Kept, CreateDir, store, history, ServingKnows, PuttingKnows, Taken
<1>1. TypeOK'
  BY DEF TypeOK, Objects, Requests, Readings, Empty
<1>2. ObjectsOfOwner'
  BY DEF TypeOK, Objects, Requests, Empty, ObjectsOfOwner
<1>3. OnlyTheCutIsHurt'
  BY DEF TypeOK, Objects, Requests, Empty, OnlyTheCutIsHurt
<1>4. ImageOfOwner'
  BY DEF TypeOK, Objects, Requests, Readings, ObjectsOfOwner, SameBucket, ImageOfOwner, ReadingFrom
<1>5. ServingKnows'
  BY DEF TypeOK, Objects, Requests, Readings, Empty, SameBucket, ReadingFrom
<1>6. PuttingKnows'
  BY DEF TypeOK, Objects, Requests, Empty, OnlyTheCutIsHurt
<1>7. SameBucket'
  BY DEF TypeOK, Objects, Requests, Readings, SameBucket, ReadingFrom
<1>9. OwnerFilesStray'
  BY DEF OwnerFilesStray, Does
<1> QED
  BY <1>9, <1>1, <1>2, <1>3, <1>4, <1>5, <1>6, <1>7

LEMMA KeptByCreateOpens ==
  ASSUME Kept, CreateOpens
  PROVE  Kept'
<1> USE BucketNames, RequestNames DEF Kept, CreateOpens, store, history, ServingKnows, PuttingKnows, Does
<1>1. TypeOK'
  <2>1. serving \in [do : {"open", "write", "remove"}, user : Users, bucket : Buckets]
    BY DEF TypeOK, Requests
  <2>2. serving' \in Requests \cup {None}
    BY <2>1 DEF Requests
  <2> QED
    BY <2>1, <2>2 DEF TypeOK, Objects, Empty
<1>2. ObjectsOfOwner'
  BY DEF TypeOK, Objects, Requests, Empty, ObjectsOfOwner
<1>3. OnlyTheCutIsHurt'
  BY DEF TypeOK, Objects, Requests, Empty, OnlyTheCutIsHurt
<1>4. ImageOfOwner'
  BY DEF TypeOK, Objects, Requests, Readings, ObjectsOfOwner, SameBucket, ImageOfOwner, ReadingFrom
<1>5. ServingKnows'
  BY DEF TypeOK, Objects, Requests, Readings, Empty, SameBucket, ReadingFrom
<1>6. PuttingKnows'
  BY DEF TypeOK, Objects, Requests, Empty, OnlyTheCutIsHurt
<1>7. SameBucket'
  BY DEF TypeOK, Objects, Requests, Readings, SameBucket, ReadingFrom
<1>9. OwnerFilesStray'
  BY DEF TypeOK, Requests, OwnerFilesStray, Does
<1> QED
  BY <1>9, <1>1, <1>2, <1>3, <1>4, <1>5, <1>6, <1>7

LEMMA KeptByCreateWrites ==
  ASSUME Kept, CreateWrites
  PROVE  Kept'
<1> USE BucketNames, RequestNames DEF Kept, CreateWrites, store, history, ServingKnows, PuttingKnows, Does
<1>1. TypeOK'
  BY DEF TypeOK, Objects, Requests, Readings, Empty
<1>2. ObjectsOfOwner'
  BY DEF TypeOK, Objects, Requests, Empty, ObjectsOfOwner
<1>3. OnlyTheCutIsHurt'
  BY DEF TypeOK, Objects, Requests, Empty, OnlyTheCutIsHurt
<1>4. ImageOfOwner'
  BY DEF TypeOK, Objects, Requests, Readings, ObjectsOfOwner, SameBucket, ImageOfOwner, ReadingFrom
<1>5. ServingKnows'
  BY DEF TypeOK, Objects, Requests, Readings, Empty, SameBucket, ReadingFrom
<1>6. PuttingKnows'
  BY DEF TypeOK, Objects, Requests, Empty, OnlyTheCutIsHurt
<1>7. SameBucket'
  BY DEF TypeOK, Objects, Requests, Readings, SameBucket, ReadingFrom
<1>9. OwnerFilesStray'
  BY DEF OwnerFilesStray, Does
<1> QED
  BY <1>9, <1>1, <1>2, <1>3, <1>4, <1>5, <1>6, <1>7

LEMMA KeptByPutOwnerFileWrites ==
  ASSUME Kept, PutOwnerFileWrites
  PROVE  Kept'
<1> USE BucketNames, RequestNames DEF Kept, PutOwnerFileWrites, OwnerFilesStray, store, history, ServingKnows, PuttingKnows, Does
<1>1. TypeOK'
  BY DEF TypeOK, Objects, Requests, Readings, Empty
<1>2. ObjectsOfOwner'
  BY DEF TypeOK, Objects, Requests, Empty, ObjectsOfOwner
<1>3. OnlyTheCutIsHurt'
  BY DEF TypeOK, Objects, Requests, Empty, OnlyTheCutIsHurt
<1>4. ImageOfOwner'
  BY DEF TypeOK, Objects, Requests, Readings, ObjectsOfOwner, SameBucket, ImageOfOwner, ReadingFrom
<1>5. ServingKnows'
  BY DEF TypeOK, Objects, Requests, Readings, Empty, SameBucket, ReadingFrom
<1>6. PuttingKnows'
  BY DEF TypeOK, Objects, Requests, Empty, OnlyTheCutIsHurt
<1>7. SameBucket'
  BY DEF TypeOK, Objects, Requests, Readings, SameBucket, ReadingFrom
<1>9. OwnerFilesStray'
  BY DEF OwnerFilesStray, Does
<1> QED
  BY <1>9, <1>1, <1>2, <1>3, <1>4, <1>5, <1>6, <1>7

LEMMA MarkedIsReading == \A x \in Readings : [x EXCEPT !.same = FALSE] \in Readings
BY DEF Readings

LEMMA KeptByDeleteDir ==
  ASSUME Kept, NEW u \in Users, NEW b \in Buckets, DeleteDir(u, b)
  PROVE  Kept'
<1> USE BucketNames, RequestNames DEF Kept, DeleteDir, Doubtful, store, history, ServingKnows, PuttingKnows, MayUse
<1>1. TypeOK'
  <2>1. serving' \in Requests
    BY DEF Requests
  <2>2. \A r \in Registrations : reading[r] \in Readings \cup {None}
    BY DEF TypeOK
  <2>3. reading' \in [Registrations -> Readings \cup {None}]
    BY ONLY <2>2, MarkedIsReading, DeleteDir(u, b) DEF DeleteDir, Doubtful
  <2>4. \A c \in Buckets \ dir' : Empty(c)'
    BY DEF TypeOK, Empty
  <2> QED
    BY ONLY <2>1, <2>3, <2>4, TypeOK, DeleteDir(u, b) DEF TypeOK, DeleteDir
<1>2. ObjectsOfOwner'
  BY DEF TypeOK, Objects, Requests, Empty, ObjectsOfOwner
<1>3. OnlyTheCutIsHurt'
  BY DEF TypeOK, Objects, Requests, Empty, OnlyTheCutIsHurt
<1>4. ImageOfOwner'
  BY DEF TypeOK, Objects, Requests, Readings, ObjectsOfOwner, SameBucket, ImageOfOwner, ReadingFrom
<1>5. ServingKnows'
  BY DEF TypeOK, Objects, Requests, Readings, Empty, SameBucket, ReadingFrom
<1>6. PuttingKnows'
  BY DEF TypeOK, Objects, Requests, Empty, OnlyTheCutIsHurt
<1>7. SameBucket'
  BY DEF TypeOK, Objects, Requests, Readings, SameBucket, ReadingFrom
<1>9. OwnerFilesStray'
  BY DEF OwnerFilesStray, Does
<1> QED
  BY <1>9, <1>1, <1>2, <1>3, <1>4, <1>5, <1>6, <1>7

LEMMA KeptByDeleteFile ==
  ASSUME Kept, DeleteFile
  PROVE  Kept'
<1> USE BucketNames, RequestNames DEF Kept, DeleteFile, store, history, ServingKnows, PuttingKnows, Does
<1>1. TypeOK'
  BY DEF TypeOK, Objects, Requests, Readings, Empty
<1>2. ObjectsOfOwner'
  BY DEF TypeOK, Objects, Requests, Empty, ObjectsOfOwner
<1>3. OnlyTheCutIsHurt'
  BY DEF TypeOK, Objects, Requests, Empty, OnlyTheCutIsHurt
<1>4. ImageOfOwner'
  BY DEF TypeOK, Objects, Requests, Readings, ObjectsOfOwner, SameBucket, ImageOfOwner, ReadingFrom
<1>5. ServingKnows'
  BY DEF TypeOK, Objects, Requests, Readings, Empty, SameBucket, ReadingFrom
<1>6. PuttingKnows'
  BY DEF TypeOK, Objects, Requests, Empty, OnlyTheCutIsHurt
<1>7. SameBucket'
  BY DEF TypeOK, Objects, Requests, Readings, SameBucket, ReadingFrom
<1>9. OwnerFilesStray'
  BY DEF OwnerFilesStray, Does
<1> QED
  BY <1>9, <1>1, <1>2, <1>3, <1>4, <1>5, <1>6, <1>7

(* A bucket that a key led into is no registration's any more.             *)
Marked(r) ==
  /\ reading'[r].bucket = reading[r].bucket /\ reading'[r].owner = reading[r].owner
  /\ reading'[r].got = reading[r].got
  /\ reading'[r].same <=> reading[r].same /\ reading[r].bucket \notin strayed'

LEMMA StrayMarks ==
  ASSUME TypeOK, SameBucket, NEW S \in SUBSET Buckets, Strays(S)
  PROVE  /\ strayed \subseteq strayed' /\ strayed' \subseteq Buckets
         /\ reading' \in [Registrations -> Readings \cup {None}]
         /\ \A r \in Registrations : reading'[r] = None <=> reading[r] = None
         /\ \A r \in Registrations : reading[r] # None => Marked(r)
<1>1. strayed \subseteq strayed' /\ strayed' \subseteq Buckets
  BY DEF TypeOK, Strays
<1>2. \A r \in Registrations : reading[r] \in Readings \cup {None}
  BY DEF TypeOK
<1>3. reading' = [r \in Registrations |->
                    IF reading[r] # None /\ reading[r].bucket \in strayed'
                    THEN [reading[r] EXCEPT !.same = FALSE] ELSE reading[r]]
  BY DEF Strays, Doubtful
<1>4. reading' \in [Registrations -> Readings \cup {None}]
  BY ONLY <1>2, <1>3, MarkedIsReading
<1>5. ASSUME NEW r \in Registrations
      PROVE  /\ reading'[r] = None <=> reading[r] = None
             /\ reading[r] # None => Marked(r)
  <2>1. CASE reading[r] = None
    BY <1>3, <2>1
  <2>2. CASE reading[r] \in Readings
    <3>1. [reading[r] EXCEPT !.same = FALSE] \in Readings
      BY <2>2, MarkedIsReading
    <3> QED
      BY <1>3, <2>2, <3>1, RequestNames DEF Readings, Marked
  <2> QED
    BY <1>2, <2>1, <2>2
<1> QED
  BY <1>1, <1>4, <1>5

LEMMA KeptByPutOpens ==
  ASSUME Kept, NEW u \in Users, NEW b \in Buckets, NEW c \in Buckets, NEW k \in Keys, PutOpens(u, b, c, k)
  PROVE  Kept'
<1> USE BucketNames, RequestNames DEF Kept, PutOpens, Leads, store, ServingKnows, PuttingKnows, MayUse
<1>0. PICK S \in SUBSET Buckets : Strays(S)
  OBVIOUS
<1>1. /\ strayed \subseteq strayed' /\ strayed' \subseteq Buckets
      /\ reading' \in [Registrations -> Readings \cup {None}]
      /\ \A r \in Registrations : reading'[r] = None <=> reading[r] = None
      /\ \A r \in Registrations : reading[r] # None => Marked(r)
  BY <1>0, StrayMarks
<1>a. c \in strayed' \/ c = b \/ (c \in dir /\ (u \in Admins \/ json[c] = u))
  BY DEF Strays, TypeOK
<1>2. TypeOK'
  BY <1>1 DEF TypeOK, Objects, Requests, Empty
<1>3. ObjectsOfOwner'
  BY <1>1, <1>a DEF TypeOK, Objects, Requests, Empty, ObjectsOfOwner
<1>4. OnlyTheCutIsHurt'
  BY <1>1, <1>a DEF TypeOK, Objects, Requests, Empty, OnlyTheCutIsHurt
<1>5. ImageOfOwner'
  BY <1>1, <1>a DEF Marked, ImageOfOwner
<1>6. ServingKnows'
  BY <1>1, <1>a DEF Marked, TypeOK, Objects, Requests, Readings, Empty, SameBucket, ReadingFrom
<1>7. PuttingKnows'
  BY <1>1, <1>a DEF TypeOK, Objects, Requests, Empty, OnlyTheCutIsHurt
<1>8. SameBucket'
  BY <1>1, <1>a DEF Marked, TypeOK, SameBucket
<1>9. OwnerFilesStray'
  BY DEF OwnerFilesStray, Does
<1> QED
  BY <1>9, <1>2, <1>3, <1>4, <1>5, <1>6, <1>7, <1>8

LEMMA KeptByPutWrites ==
  ASSUME Kept, PutWrites
  PROVE  Kept'
<1> USE BucketNames, RequestNames DEF Kept, PutWrites, store, history, ServingKnows, PuttingKnows, Does
<1>1. TypeOK'
  BY DEF TypeOK, Objects, Requests, Readings, Empty
<1>2. ObjectsOfOwner'
  BY DEF TypeOK, Objects, Requests, Empty, ObjectsOfOwner
<1>3. OnlyTheCutIsHurt'
  BY DEF TypeOK, Objects, Requests, Empty, OnlyTheCutIsHurt
<1>4. ImageOfOwner'
  BY DEF TypeOK, Objects, Requests, Readings, ObjectsOfOwner, SameBucket, ImageOfOwner, ReadingFrom
<1>5. ServingKnows'
  BY DEF TypeOK, Objects, Requests, Readings, Empty, SameBucket, ReadingFrom
<1>6. PuttingKnows'
  BY DEF TypeOK, Objects, Requests, Empty, OnlyTheCutIsHurt
<1>7. SameBucket'
  BY DEF TypeOK, Objects, Requests, Readings, SameBucket, ReadingFrom
<1>9. OwnerFilesStray'
  BY DEF OwnerFilesStray, Does
<1> QED
  BY <1>9, <1>1, <1>2, <1>3, <1>4, <1>5, <1>6, <1>7

LEMMA KeptByDeleteObject ==
  ASSUME Kept, NEW u \in Users, NEW b \in Buckets, NEW c \in Buckets, NEW k \in Keys, DeleteObject(u, b, c, k)
  PROVE  Kept'
<1> USE BucketNames, RequestNames DEF Kept, DeleteObject, Leads, store, ServingKnows, PuttingKnows, MayUse
<1>0. PICK S \in SUBSET Buckets : Strays(S)
  OBVIOUS
<1>1. /\ strayed \subseteq strayed' /\ strayed' \subseteq Buckets
      /\ reading' \in [Registrations -> Readings \cup {None}]
      /\ \A r \in Registrations : reading'[r] = None <=> reading[r] = None
      /\ \A r \in Registrations : reading[r] # None => Marked(r)
  BY <1>0, StrayMarks
<1>a. c \in strayed' \/ c = b \/ (c \in dir /\ (u \in Admins \/ json[c] = u))
  BY DEF Strays, TypeOK
<1>2. TypeOK'
  BY <1>1 DEF TypeOK, Objects, Requests, Empty
<1>3. ObjectsOfOwner'
  BY <1>1, <1>a DEF TypeOK, Objects, Requests, Empty, ObjectsOfOwner
<1>4. OnlyTheCutIsHurt'
  BY <1>1, <1>a DEF TypeOK, Objects, Requests, Empty, OnlyTheCutIsHurt
<1>5. ImageOfOwner'
  BY <1>1, <1>a DEF Marked, ImageOfOwner
<1>6. ServingKnows'
  BY <1>1, <1>a DEF Marked, TypeOK, Objects, Requests, Readings, Empty, SameBucket, ReadingFrom
<1>7. PuttingKnows'
  BY <1>1, <1>a DEF TypeOK, Objects, Requests, Empty, OnlyTheCutIsHurt
<1>8. SameBucket'
  BY <1>1, <1>a DEF Marked, TypeOK, SameBucket
<1>9. OwnerFilesStray'
  BY <1>1, <1>a DEF OwnerFilesStray, Does
<1> QED
  BY <1>9, <1>2, <1>3, <1>4, <1>5, <1>6, <1>7, <1>8

LEMMA KeptByPutOwnerFileOpens ==
  ASSUME Kept, NEW u \in Users, NEW b \in Buckets, NEW c \in Buckets, PutOwnerFileOpens(u, b, c)
  PROVE  Kept'
<1> USE BucketNames, RequestNames DEF Kept, PutOwnerFileOpens, LeadsToOwnerFile, store, ServingKnows, PuttingKnows, MayUse
<1>0. PICK S \in SUBSET Buckets : Strays(S)
  OBVIOUS
<1>1. /\ strayed \subseteq strayed' /\ strayed' \subseteq Buckets
      /\ reading' \in [Registrations -> Readings \cup {None}]
      /\ \A r \in Registrations : reading'[r] = None <=> reading[r] = None
      /\ \A r \in Registrations : reading[r] # None => Marked(r)
  BY <1>0, StrayMarks
<1>a. c \in strayed'
  BY DEF Strays, TypeOK
<1>2. TypeOK'
  BY <1>1 DEF TypeOK, Objects, Requests, Empty
<1>3. ObjectsOfOwner'
  BY <1>1, <1>a DEF TypeOK, Objects, Requests, Empty, ObjectsOfOwner
<1>4. OnlyTheCutIsHurt'
  BY <1>1, <1>a DEF TypeOK, Objects, Requests, Empty, OnlyTheCutIsHurt
<1>5. ImageOfOwner'
  BY <1>1, <1>a DEF Marked, ImageOfOwner
<1>6. ServingKnows'
  BY <1>1, <1>a DEF Marked, TypeOK, Objects, Requests, Readings, Empty, SameBucket, ReadingFrom
<1>7. PuttingKnows'
  BY <1>1, <1>a DEF TypeOK, Objects, Requests, Empty, OnlyTheCutIsHurt
<1>8. SameBucket'
  BY <1>1, <1>a DEF Marked, TypeOK, SameBucket
<1>9. OwnerFilesStray'
  BY <1>1, <1>a DEF OwnerFilesStray, Does
<1> QED
  BY <1>9, <1>2, <1>3, <1>4, <1>5, <1>6, <1>7, <1>8

LEMMA KeptByDeleteOwnerFile ==
  ASSUME Kept, NEW u \in Users, NEW b \in Buckets, NEW c \in Buckets, DeleteOwnerFile(u, b, c)
  PROVE  Kept'
<1> USE BucketNames, RequestNames DEF Kept, DeleteOwnerFile, LeadsToOwnerFile, store, ServingKnows, PuttingKnows, MayUse
<1>0. PICK S \in SUBSET Buckets : Strays(S)
  OBVIOUS
<1>1. /\ strayed \subseteq strayed' /\ strayed' \subseteq Buckets
      /\ reading' \in [Registrations -> Readings \cup {None}]
      /\ \A r \in Registrations : reading'[r] = None <=> reading[r] = None
      /\ \A r \in Registrations : reading[r] # None => Marked(r)
  BY <1>0, StrayMarks
<1>a. c \in strayed'
  BY DEF Strays, TypeOK
<1>2. TypeOK'
  BY <1>1 DEF TypeOK, Objects, Requests, Empty
<1>3. ObjectsOfOwner'
  BY <1>1, <1>a DEF TypeOK, Objects, Requests, Empty, ObjectsOfOwner
<1>4. OnlyTheCutIsHurt'
  BY <1>1, <1>a DEF TypeOK, Objects, Requests, Empty, OnlyTheCutIsHurt
<1>5. ImageOfOwner'
  BY <1>1, <1>a DEF Marked, ImageOfOwner
<1>6. ServingKnows'
  BY <1>1, <1>a DEF Marked, TypeOK, Objects, Requests, Readings, Empty, SameBucket, ReadingFrom
<1>7. PuttingKnows'
  BY <1>1, <1>a DEF TypeOK, Objects, Requests, Empty, OnlyTheCutIsHurt
<1>8. SameBucket'
  BY <1>1, <1>a DEF Marked, TypeOK, SameBucket
<1>9. OwnerFilesStray'
  BY <1>1, <1>a DEF OwnerFilesStray, Does
<1> QED
  BY <1>9, <1>2, <1>3, <1>4, <1>5, <1>6, <1>7, <1>8

LEMMA KeptByCrash ==
  ASSUME Kept, Crash
  PROVE  Kept'
<1> USE BucketNames, RequestNames DEF Kept, Crash, store, history, ServingKnows, PuttingKnows
<1>1. TypeOK'
  BY DEF TypeOK, Objects, Requests, Readings, Empty
<1>2. ObjectsOfOwner'
  BY DEF TypeOK, Objects, Requests, Empty, ObjectsOfOwner
<1>3. OnlyTheCutIsHurt'
  BY DEF TypeOK, Objects, Requests, Empty, OnlyTheCutIsHurt
<1>4. ImageOfOwner'
  BY DEF TypeOK, Objects, Requests, Readings, ObjectsOfOwner, SameBucket, ImageOfOwner, ReadingFrom
<1>5. ServingKnows'
  BY DEF TypeOK, Objects, Requests, Readings, Empty, SameBucket, ReadingFrom
<1>6. PuttingKnows'
  BY DEF TypeOK, Objects, Requests, Empty, OnlyTheCutIsHurt
<1>7. SameBucket'
  BY DEF TypeOK, Objects, Requests, Readings, SameBucket, ReadingFrom
<1>9. OwnerFilesStray'
  BY DEF OwnerFilesStray, Does
<1> QED
  BY <1>9, <1>1, <1>2, <1>3, <1>4, <1>5, <1>6, <1>7

LEMMA KeptByRegister ==
  ASSUME Kept, NEW r \in Registrations, NEW u \in Users, NEW b \in Buckets, Register(r, u, b)
  PROVE  Kept'
<1> USE BucketNames, RequestNames DEF Kept, Register, store, history, ServingKnows, PuttingKnows, MayUse
<1>1. TypeOK'
  BY DEF TypeOK, Objects, Requests, Readings, Empty
<1>2. ObjectsOfOwner'
  BY DEF TypeOK, Objects, Requests, Empty, ObjectsOfOwner
<1>3. OnlyTheCutIsHurt'
  BY DEF TypeOK, Objects, Requests, Empty, OnlyTheCutIsHurt
<1>4. ImageOfOwner'
  BY DEF TypeOK, Objects, Requests, Readings, ObjectsOfOwner, SameBucket, ImageOfOwner, ReadingFrom
<1>5. ServingKnows'
  BY DEF TypeOK, Objects, Requests, Readings, Empty, SameBucket, ReadingFrom
<1>6. PuttingKnows'
  BY DEF TypeOK, Objects, Requests, Empty, OnlyTheCutIsHurt
<1>7. SameBucket'
  BY DEF TypeOK, Objects, Requests, Readings, SameBucket, ReadingFrom
<1>9. OwnerFilesStray'
  BY DEF OwnerFilesStray, Does
<1> QED
  BY <1>9, <1>1, <1>2, <1>3, <1>4, <1>5, <1>6, <1>7

LEMMA KeptByReadObject ==
  ASSUME Kept, NEW r \in Registrations, NEW c \in Buckets, NEW k \in Keys,
         ReadObject(r, c, k)
  PROVE  Kept'
<1> USE BucketNames, RequestNames DEF Kept, ReadObject, store, history, ServingKnows, PuttingKnows
<1>0. PICK x \in Readings :
        /\ x.bucket = reading[r].bucket /\ x.owner = reading[r].owner
        /\ x.same <=> reading[r].same /\ c = reading[r].bucket
        /\ x.got = [reading[r].got EXCEPT ![k] = objects[c][k]]
        /\ reading' = [reading EXCEPT ![r] = x]
  <2>1. reading[r] \in Readings /\ objects[c][k] \in Objects
    BY DEF TypeOK
  <2> DEFINE x == [reading[r] EXCEPT !.got[k] = objects[c][k],
                                     !.same = reading[r].same /\ c = reading[r].bucket]
  <2>2. x \in Readings
    BY <2>1 DEF Readings
  <2>3. /\ x.bucket = reading[r].bucket /\ x.owner = reading[r].owner
        /\ x.same <=> reading[r].same /\ c = reading[r].bucket
        /\ x.got = [reading[r].got EXCEPT ![k] = objects[c][k]]
    BY <2>1 DEF Readings
  <2>4. reading' = [reading EXCEPT ![r] = x]
    OBVIOUS
  <2> HIDE DEF x
  <2> QED
    BY <2>2, <2>3, <2>4
<1>a. /\ reading'[r] = x /\ \A q \in Registrations \ {r} : reading'[q] = reading[q]
      /\ UNCHANGED <<dir, json, objects, serving, hurt, strayed>>
  BY <1>0 DEF TypeOK
<1>1. TypeOK'
  BY <1>0, <1>a DEF TypeOK, Empty
<1>2. ObjectsOfOwner'
  BY DEF TypeOK, Objects, Requests, Empty, ObjectsOfOwner
<1>3. OnlyTheCutIsHurt'
  BY DEF TypeOK, Objects, Requests, Empty, OnlyTheCutIsHurt
<1>4. ImageOfOwner'
  <2> SUFFICES ASSUME NEW q \in Registrations, reading'[q] # None, reading'[q].same, NEW j \in Keys,
                      reading'[q].got[j] \in Users
               PROVE  reading'[q].got[j] \in Admins \cup {reading'[q].owner}
    BY DEF ImageOfOwner
  <2>1. CASE q # r
    BY <1>a, <2>1 DEF ImageOfOwner
  <2>2. CASE q = r /\ j # k
    BY <1>0, <1>a, <2>2 DEF ImageOfOwner, Readings
  <2>3. CASE q = r /\ j = k
    <3>1. reading[r].same /\ c = reading[r].bucket /\ x.got[k] = objects[c][k]
      BY <1>0, <1>a, <2>3 DEF TypeOK, Readings
    <3>2. c \notin strayed /\ reading[r].owner = json[c]
      BY <3>1 DEF SameBucket
    <3> QED
      BY <1>0, <1>a, <2>3, <3>1, <3>2 DEF ObjectsOfOwner
  <2> QED
    BY <2>1, <2>2, <2>3
<1>b. ASSUME NEW q \in Registrations, reading'[q] # None
      PROVE  /\ reading[q] # None
             /\ reading'[q].same => reading[q].same
             /\ reading'[q].bucket = reading[q].bucket /\ reading'[q].owner = reading[q].owner
  <2>1. CASE q = r
    <3>1. reading[r] # None
      OBVIOUS
    <3> QED
      BY ONLY <1>0, <1>a, <2>1, <3>1
  <2>2. CASE q # r
    BY ONLY <1>a, <1>b, <2>2
  <2> QED
    BY <2>1, <2>2
<1>5. ServingKnows'
  BY ONLY <1>a, <1>b, ServingKnows DEF ServingKnows, Empty, ReadingFrom
<1>6. PuttingKnows'
  BY <1>a
<1>7. SameBucket'
  BY ONLY <1>a, <1>b, SameBucket DEF SameBucket
<1>9. OwnerFilesStray'
  BY <1>a DEF OwnerFilesStray, Does
<1> QED
  BY <1>9, <1>1, <1>2, <1>3, <1>4, <1>5, <1>6, <1>7

LEMMA KeptByEndReading ==
  ASSUME Kept, NEW r \in Registrations, EndReading(r)
  PROVE  Kept'
<1> USE BucketNames, RequestNames DEF Kept, EndReading, store, history, ServingKnows, PuttingKnows
<1>1. TypeOK'
  BY DEF TypeOK, Objects, Requests, Readings, Empty
<1>2. ObjectsOfOwner'
  BY DEF TypeOK, Objects, Requests, Empty, ObjectsOfOwner
<1>3. OnlyTheCutIsHurt'
  BY DEF TypeOK, Objects, Requests, Empty, OnlyTheCutIsHurt
<1>4. ImageOfOwner'
  BY DEF TypeOK, Objects, Requests, Readings, ObjectsOfOwner, SameBucket, ImageOfOwner, ReadingFrom
<1>5. ServingKnows'
  BY DEF TypeOK, Objects, Requests, Readings, Empty, SameBucket, ReadingFrom
<1>6. PuttingKnows'
  BY DEF TypeOK, Objects, Requests, Empty, OnlyTheCutIsHurt
<1>7. SameBucket'
  BY DEF TypeOK, Objects, Requests, Readings, SameBucket, ReadingFrom
<1>9. OwnerFilesStray'
  BY DEF OwnerFilesStray, Does
<1> QED
  BY <1>9, <1>1, <1>2, <1>3, <1>4, <1>5, <1>6, <1>7

LEMMA KeptByNext == Kept /\ [Next]_vars => Kept'
<1> SUFFICES ASSUME Kept, [Next]_vars PROVE Kept'
  OBVIOUS
<1>1. CASE UNCHANGED vars
  BY <1>1 DEF vars, store, history, Kept, TypeOK, Empty, ObjectsOfOwner, OnlyTheCutIsHurt, ImageOfOwner,
    ServingKnows, PuttingKnows, SameBucket, ReadingFrom, OwnerFilesStray, Does
<1>2. CASE Serve
  BY <1>2, KeptByCreateOpens, KeptByCreateWrites, KeptByDeleteFile, KeptByPutWrites, KeptByPutOwnerFileWrites
    DEF Serve
<1>3. CASE Crash
  BY <1>3, KeptByCrash
<1>4. CASE \E r \in Registrations : EndReading(r) \/ \E c \in Buckets, k \in Keys : ReadObject(r, c, k)
  BY <1>4, KeptByEndReading, KeptByReadObject
<1>5. ASSUME NEW u \in Users, NEW b \in Buckets,
             \/ CreateDir(u, b) \/ DeleteDir(u, b)
             \/ \E c \in Buckets :
                  \/ \E k \in Keys : PutOpens(u, b, c, k) \/ DeleteObject(u, b, c, k)
                  \/ PutOwnerFileOpens(u, b, c) \/ DeleteOwnerFile(u, b, c)
             \/ \E r \in Registrations : Register(r, u, b)
      PROVE  Kept'
  BY <1>5, KeptByCreateDir, KeptByDeleteDir, KeptByPutOpens, KeptByDeleteObject,
    KeptByPutOwnerFileOpens, KeptByDeleteOwnerFile, KeptByRegister
<1> QED
  BY <1>1, <1>2, <1>3, <1>4, <1>5 DEF Next

LEMMA AlwaysKept == Spec => []Kept
BY KeptInitially, KeptByNext, PTL DEF Spec

(* No death of the server and no stale owner file gives anybody another    *)
(* user's objects: only a key that leads into the bucket from outside does.*)
THEOREM ObjectsStayWithOwner == Spec => []ObjectsOfOwner
<1>1. Kept => ObjectsOfOwner
  BY DEF Kept
<1> QED
  BY <1>1, AlwaysKept, PTL

(* A request that is cut short damages the bucket that its name or key     *)
(* leads to, and no other.                                                 *)
THEOREM DamageIsConfined == Spec => []OnlyTheCutIsHurt
<1>1. Kept => OnlyTheCutIsHurt
  BY DEF Kept
<1> QED
  BY <1>1, AlwaysKept, PTL

(* A registration reads what the owner of its bucket put there, unless a   *)
(* name in its manifest or the key of another request led elsewhere.       *)
THEOREM ImagesOfOwner == Spec => []ImageOfOwner
<1>1. Kept => ImageOfOwner
  BY DEF Kept
<1> QED
  BY <1>1, AlwaysKept, PTL

(* Directories, owner files and objects keep their types.                  *)
THEOREM BucketTypeCorrect == Spec => []TypeOK
<1>1. Kept => TypeOK
  BY DEF Kept
<1> QED
  BY <1>1, AlwaysKept, PTL

(* A user keeps a bucket until it is deleted, which takes it to be empty,  *)
(* unless a key led to it that was not meant for it.                       *)
THEOREM OwnersKeepBuckets == Spec => OwnerKept
<1> DEFINE Keeps == \A b \in Buckets : Holder(b) \in Users /\ Holder(b)' # Holder(b) =>
                      b \in strayed' \/ (Empty(b) /\ b \notin dir')
<1>1. Kept /\ [Next]_vars => Keeps \/ UNCHANGED vars
  <2> SUFFICES ASSUME Kept, Next, NEW b \in Buckets, Holder(b) \in Users, Holder(b)' # Holder(b)
               PROVE  b \in strayed' \/ (Empty(b) /\ b \notin dir')
    OBVIOUS
  <2> USE BucketNames, RequestNames DEF Kept, TypeOK, Requests, Holder, Creating, store
  <2>1. CASE Serve
    BY <2>1 DEF Serve, CreateOpens, CreateWrites, DeleteFile, PutWrites, PutOwnerFileWrites, Does,
      ServingKnows, OwnerFilesStray, history
  <2>2. CASE Crash
    BY <2>2 DEF Crash
  <2>3. CASE \E r \in Registrations : EndReading(r) \/ \E c \in Buckets, k \in Keys : ReadObject(r, c, k)
    BY <2>3 DEF EndReading, ReadObject
  <2>4. ASSUME NEW u \in Users, NEW c \in Buckets, CreateDir(u, c)
        PROVE  FALSE
    BY <2>4 DEF CreateDir, Taken
  <2>5. ASSUME NEW u \in Users, NEW c \in Buckets, DeleteDir(u, c)
        PROVE  Empty(b) /\ b \notin dir'
    BY <2>5 DEF DeleteDir
  <2>6. ASSUME NEW u \in Users, NEW d \in Buckets, NEW c \in Buckets,
               \/ \E k \in Keys : PutOpens(u, d, c, k) \/ DeleteObject(u, d, c, k)
               \/ PutOwnerFileOpens(u, d, c) \/ DeleteOwnerFile(u, d, c)
        PROVE  b \in strayed'
    BY <2>6 DEF PutOpens, DeleteObject, PutOwnerFileOpens, DeleteOwnerFile, Leads, LeadsToOwnerFile,
      Strays
  <2>7. ASSUME NEW u \in Users, NEW c \in Buckets, NEW r \in Registrations, Register(r, u, c)
        PROVE  FALSE
    BY <2>7 DEF Register
  <2> QED
    BY <2>1, <2>2, <2>3, <2>4, <2>5, <2>6, <2>7 DEF Next
<1> QED
  BY <1>1, AlwaysKept, PTL DEF Spec, OwnerKept
=============================================================================
