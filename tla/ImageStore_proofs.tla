-------------------------- MODULE ImageStore_proofs --------------------------
(***************************************************************************)
(* Proofs about ImageStore.  The inductive invariant adds to the           *)
(* properties what the handler and the creating processes know of the      *)
(* files between two of their steps.                                       *)
(***************************************************************************)
EXTENDS ImageStore, TLAPS

(* What a request in progress knows: a DELETE is recorded, a POST is about *)
(* an image that has not been deleted, and the text it will write back     *)
(* does not claim more than the files hold.                                *)
HasImage(i) == "image" \in files[i] \/ i \in deleted

ServingKnows ==
  serving # None =>
    /\ serving.id \in named \cap dir
    /\ serving.do \in {"info", "image", "rmdir"} => serving.id \in deleted
    /\ serving.do \in {"truncate", "write"} =>
         /\ serving.id \notin gone
         /\ serving.op = "add" => serving.id \in allowed
         /\ serving.md.state = "available" => HasImage(serving.id)

(* What a creating process knows.                                          *)
CreatorKnows ==
  \A c \in Creators :
    /\ at[c] \in {<<4, "ready">>, <<4, "open">>} => HasImage(c[1])
    /\ Writing(c) /\ c[1] \notin deleted => c[1] \in dir

(* No process creates an image that is gone, and none will.                *)
GoneIsOver ==
  /\ gone \subseteq named /\ gone \subseteq deleted
  /\ \A c \in Creators : c[1] \in gone => at[c] \notin Running

(* Nobody writes, or is about to write, an image that was made public once *)
(* it was created, but for the requests that take it out of granted.       *)
GrantedIsOver ==
  /\ granted \subseteq named /\ granted \subseteq dir
  /\ serving # None => serving.id \notin granted
  /\ \A c \in Creators : c[1] \in granted => ~Writing(c)

Kept ==
  /\ TypeOK
  /\ PublicOnlyIfAsked /\ AvailableHasImage /\ OneCreator /\ DeletedStaysDeleted
  /\ ServingKnows /\ CreatorKnows /\ GoneIsOver
  /\ MadePublic /\ GrantedIsOver

-----------------------------------------------------------------------------
(* The last of the four states, and no other, is "available".              *)
LEMMA StatesFour ==
  /\ \A k \in 1..4 : States[k] \in {States[j] : j \in 1..4}
  /\ \A k \in 1..4 : States[k] = "available" => k = 4
BY DEF States

LEMMA KeptInitially == Init => Kept
BY ImageNames DEF Init, Kept, TypeOK, PublicOnlyIfAsked, AvailableHasImage, OneCreator,
  DeletedStaysDeleted, ServingKnows, CreatorKnows, GoneIsOver, MadePublic, GrantedIsOver,
  Writing, Running, Idle, Creators, Of, Infos, HasImage

LEMMA KeptByPut ==
  ASSUME Kept, NEW c \in Creators, Put(c)
  PROVE  Kept'
<1> USE ImageNames DEF Put, Kept, store, history
<1>1. TypeOK'
  BY DEF TypeOK, Running
<1>2. PublicOnlyIfAsked' /\ AvailableHasImage' /\ DeletedStaysDeleted' /\ ServingKnows'
  BY DEF PublicOnlyIfAsked, AvailableHasImage, DeletedStaysDeleted, ServingKnows, HasImage
<1>3. OneCreator'
  BY DEF TypeOK, OneCreator, Writing, Of, Creators
<1>4. CreatorKnows'
  BY DEF TypeOK, CreatorKnows, Writing, HasImage
<1>5. GoneIsOver'
  BY DEF TypeOK, GoneIsOver
<1>6. MadePublic' /\ GrantedIsOver'
  BY DEF TypeOK, MadePublic, GrantedIsOver, ServingKnows, Writing, Running, Creators, Of, Over,
    Requests, Idle, Done, Dead
<1> QED
  BY <1>1, <1>2, <1>3, <1>4, <1>5, <1>6

LEMMA KeptByCreateWorks ==
  ASSUME Kept, NEW c \in Creators, CreateWorks(c)
  PROVE  Kept'
<1> USE ImageNames DEF CreateWorks, Work, Makedirs, Kept, history
<1>1. TypeOK'
  BY DEF TypeOK, Running, Creators
<1>2. PublicOnlyIfAsked' /\ DeletedStaysDeleted'
  BY DEF PublicOnlyIfAsked, DeletedStaysDeleted
<1>3. AvailableHasImage'
  BY DEF TypeOK, AvailableHasImage
<1>4. OneCreator'
  BY DEF TypeOK, OneCreator, CreatorKnows, Writing, Of, Creators, Running
<1>5. CreatorKnows'
  BY DEF TypeOK, CreatorKnows, Writing, HasImage, Running, Creators
<1>6. ServingKnows'
  BY DEF TypeOK, ServingKnows, HasImage
<1>7. GoneIsOver'
  BY DEF TypeOK, GoneIsOver, Running, Creators
<1>8. MadePublic' /\ GrantedIsOver'
  BY DEF TypeOK, MadePublic, GrantedIsOver, ServingKnows, Writing, Running, Creators, Of, Over,
    Requests, Idle, Done, Dead
<1> QED
  BY <1>1, <1>2, <1>3, <1>4, <1>5, <1>6, <1>7, <1>8

LEMMA KeptByCreateOpens ==
  ASSUME Kept, NEW c \in Creators, CreateOpens(c)
  PROVE  Kept'
<1> USE ImageNames DEF CreateOpens, Kept, history
<1>1. TypeOK'
  BY DEF TypeOK, Running, Creators
<1>2. PublicOnlyIfAsked' /\ AvailableHasImage'
  BY DEF TypeOK, PublicOnlyIfAsked, AvailableHasImage
<1>3. DeletedStaysDeleted'
  BY DEF TypeOK, DeletedStaysDeleted, GoneIsOver, Running
<1>4. OneCreator'
  BY DEF TypeOK, OneCreator, Writing, Of, Creators, Running
<1>5. CreatorKnows'
  BY DEF TypeOK, CreatorKnows, Writing, HasImage, Running, Creators
<1>6. ServingKnows'
  BY DEF TypeOK, ServingKnows, HasImage
<1>7. GoneIsOver'
  BY DEF TypeOK, GoneIsOver, Running, Creators
<1>8. MadePublic' /\ GrantedIsOver'
  BY DEF TypeOK, MadePublic, GrantedIsOver, ServingKnows, Writing, Running, Creators, Of, Over,
    Requests, Idle, Done, Dead
<1> QED
  BY <1>1, <1>2, <1>3, <1>4, <1>5, <1>6, <1>7, <1>8

LEMMA KeptByCreateWrites ==
  ASSUME Kept, NEW c \in Creators, CreateWrites(c)
  PROVE  Kept'
<1> USE ImageNames DEF CreateWrites, Kept, history
<1>1. TypeOK'
  BY StatesFour DEF TypeOK, Running, Creators, Over, Infos
<1>2. PublicOnlyIfAsked'
  BY DEF TypeOK, PublicOnlyIfAsked, Over, Infos
<1>3. AvailableHasImage'
  <2>1. PICK k \in 1..4 :
          /\ at[c] = <<k, "open">>
          /\ info' = [info EXCEPT ![c[1]] =
                        Over(@, [state |-> States[k], public |-> FALSE])]
    OBVIOUS
  <2>2. info'[c[1]] \in Infos /\ info'[c[1]].state = "available" => k = 4
    BY <2>1, StatesFour DEF TypeOK, Over, Creators
  <2>3. k = 4 => HasImage(c[1])
    BY <2>1 DEF CreatorKnows
  <2> QED
    BY <2>1, <2>2, <2>3 DEF TypeOK, AvailableHasImage, HasImage, Creators
<1>4. DeletedStaysDeleted'
  BY DEF TypeOK, DeletedStaysDeleted, Over
<1>5. OneCreator'
  <2>1. \A d \in Creators : Writing(d)' => Writing(d)
    BY DEF TypeOK, Writing, Creators, Running, Done
  <2> QED
    BY <2>1 DEF OneCreator, Of, Creators
<1>6. CreatorKnows'
  BY DEF TypeOK, CreatorKnows, Writing, HasImage, Running, Creators, Done
<1>7. ServingKnows'
  BY DEF TypeOK, ServingKnows, HasImage
<1>8. GoneIsOver'
  BY DEF TypeOK, GoneIsOver, Running, Creators, Done
<1>9. MadePublic' /\ GrantedIsOver'
  BY DEF TypeOK, MadePublic, GrantedIsOver, ServingKnows, Writing, Running, Creators, Of, Over,
    Requests, Idle, Done, Dead
<1> QED
  BY <1>1, <1>2, <1>3, <1>4, <1>5, <1>6, <1>7, <1>8, <1>9

LEMMA KeptByCreateFails ==
  ASSUME Kept, NEW c \in Creators, CreateFails(c)
  PROVE  Kept'
<1> USE ImageNames DEF CreateFails, Kept, store, history
<1>1. TypeOK'
  BY DEF TypeOK
<1>2. PublicOnlyIfAsked' /\ AvailableHasImage' /\ DeletedStaysDeleted' /\ ServingKnows'
  BY DEF PublicOnlyIfAsked, AvailableHasImage, DeletedStaysDeleted, ServingKnows, HasImage
<1>3. OneCreator'
  BY DEF TypeOK, OneCreator, Writing, Of, Creators, Running, Dead
<1>4. CreatorKnows'
  BY DEF TypeOK, CreatorKnows, Writing, HasImage, Running, Creators, Dead
<1>5. GoneIsOver'
  BY DEF TypeOK, GoneIsOver, Running, Creators, Dead
<1>6. MadePublic' /\ GrantedIsOver'
  BY DEF TypeOK, MadePublic, GrantedIsOver, ServingKnows, Writing, Running, Creators, Of, Over,
    Requests, Idle, Done, Dead
<1> QED
  BY <1>1, <1>2, <1>3, <1>4, <1>5, <1>6

LEMMA KeptByPostReads ==
  ASSUME Kept, NEW i \in Ids, NEW op \in {"add", "remove"}, PostReads(i, op)
  PROVE  Kept'
<1> USE ImageNames DEF PostReads, Kept, store
<1>1. TypeOK'
  BY DEF TypeOK, Requests
<1>2. PublicOnlyIfAsked' /\ AvailableHasImage' /\ DeletedStaysDeleted'
  BY DEF PublicOnlyIfAsked, AvailableHasImage, DeletedStaysDeleted, ServingKnows, HasImage
<1>3. ServingKnows'
  BY DEF TypeOK, ServingKnows, AvailableHasImage, DeletedStaysDeleted, HasImage
<1>4. OneCreator'
  BY DEF OneCreator, Writing
<1>5. CreatorKnows'
  BY DEF CreatorKnows, Writing, HasImage
<1>6. GoneIsOver'
  BY DEF GoneIsOver
<1>7. MadePublic' /\ GrantedIsOver'
  BY DEF TypeOK, MadePublic, GrantedIsOver, ServingKnows, Writing, Running, Creators, Of, Over,
    Requests, Idle, Done, Dead
<1> QED
  BY <1>1, <1>2, <1>3, <1>4, <1>5, <1>6, <1>7

LEMMA KeptByPostTruncates ==
  ASSUME Kept, PostTruncates
  PROVE  Kept'
<1> USE ImageNames DEF PostTruncates, Kept, history
<1>1. TypeOK'
  BY DEF TypeOK, Requests, ServingKnows
<1>2. PublicOnlyIfAsked' /\ AvailableHasImage'
  BY DEF TypeOK, PublicOnlyIfAsked, AvailableHasImage
<1>3. DeletedStaysDeleted'
  BY DEF TypeOK, DeletedStaysDeleted, ServingKnows
<1>4. ServingKnows'
  BY DEF TypeOK, ServingKnows, HasImage, Requests
<1>5. OneCreator'
  BY DEF OneCreator, Writing
<1>6. CreatorKnows'
  BY DEF CreatorKnows, Writing, HasImage
<1>7. GoneIsOver'
  BY DEF GoneIsOver
<1>8. MadePublic' /\ GrantedIsOver'
  BY DEF TypeOK, MadePublic, GrantedIsOver, ServingKnows, Writing, Running, Creators, Of, Over,
    Requests, Idle, Done, Dead
<1> QED
  BY <1>1, <1>2, <1>3, <1>4, <1>5, <1>6, <1>7, <1>8

LEMMA KeptByPostWrites ==
  ASSUME Kept, PostWrites
  PROVE  Kept'
<1> USE ImageNames DEF PostWrites, Kept
<1>1. /\ serving.id \in Ids
      /\ NewPublic(serving.md, serving.op) \in Infos
      /\ NewPublic(serving.md, serving.op).public = (serving.op = "add")
      /\ NewPublic(serving.md, serving.op).state = serving.md.state
  BY DEF TypeOK, Requests, Infos, NewPublic
<1>2. TypeOK'
  BY <1>1 DEF TypeOK, Over, ServingKnows
<1>a. info'[serving.id] \in {None, Torn, NewPublic(serving.md, serving.op)}
  BY <1>1 DEF TypeOK, Over
<1>b. \A i \in Ids \ {serving.id} : info'[i] = info[i]
  BY DEF TypeOK
<1>c. None \notin Infos /\ Torn \notin Infos
  OBVIOUS
<1>3. PublicOnlyIfAsked'
  <2>1. \A i \in Ids \ {serving.id} : i \in allowed => i \in allowed'
    OBVIOUS
  <2>2. serving.op = "add" => serving.id \in allowed'
    BY DEF ServingKnows
  <2> QED
    BY ONLY <1>1, <1>a, <1>b, <1>c, <2>1, <2>2, PublicOnlyIfAsked DEF PublicOnlyIfAsked
<1>4. AvailableHasImage'
  BY <1>1 DEF TypeOK, AvailableHasImage, Over, ServingKnows, HasImage
<1>5. DeletedStaysDeleted'
  BY <1>1 DEF TypeOK, DeletedStaysDeleted, Over
<1>6. ServingKnows'
  BY DEF ServingKnows
<1>7. OneCreator'
  BY DEF OneCreator, Writing
<1>8. CreatorKnows'
  BY DEF CreatorKnows, Writing, HasImage
<1>9. GoneIsOver'
  BY DEF GoneIsOver
<1>10. MadePublic'
  <2>1. serving.id \in granted' => serving.op = "add"
    BY DEF GrantedIsOver
  <2>2. \A i \in granted' : i \in granted \/ i = serving.id
    OBVIOUS
  <2>3. granted \subseteq Ids
    BY DEF TypeOK
  <2> QED
    BY ONLY <1>1, <1>a, <1>b, <1>c, <2>1, <2>2, <2>3, MadePublic DEF MadePublic
<1>11. GrantedIsOver'
  <2>1. \A c \in Creators : c[1] = serving.id => c \in Of(serving.id)
    BY DEF Creators, Of
  <2> QED
    BY <1>1, <2>1 DEF GrantedIsOver, ServingKnows, Writing
<1> QED
  BY <1>1, <1>2, <1>3, <1>4, <1>5, <1>6, <1>7, <1>8, <1>9, <1>10, <1>11

LEMMA KeptByDeleteReads ==
  ASSUME Kept, NEW i \in Ids, DeleteReads(i)
  PROVE  Kept'
<1> USE ImageNames DEF DeleteReads, Kept, store
<1>1. TypeOK'
  BY DEF TypeOK, Requests
<1>2. PublicOnlyIfAsked' /\ AvailableHasImage' /\ DeletedStaysDeleted'
  BY DEF PublicOnlyIfAsked, AvailableHasImage, DeletedStaysDeleted, ServingKnows, HasImage
<1>3. ServingKnows'
  BY DEF TypeOK, ServingKnows
<1>4. OneCreator'
  BY DEF OneCreator, Writing
<1>5. CreatorKnows'
  BY DEF CreatorKnows, Writing, HasImage
<1>6. GoneIsOver'
  BY DEF GoneIsOver
<1>7. MadePublic' /\ GrantedIsOver'
  BY DEF TypeOK, MadePublic, GrantedIsOver, ServingKnows, Writing, Running, Creators, Of, Over,
    Requests, Idle, Done, Dead
<1> QED
  BY <1>1, <1>2, <1>3, <1>4, <1>5, <1>6, <1>7

LEMMA KeptByDeleteInfo ==
  ASSUME Kept, DeleteInfo
  PROVE  Kept'
<1> USE ImageNames DEF DeleteInfo, Kept
<1>1. TypeOK'
  BY DEF TypeOK, Requests
<1>2. PublicOnlyIfAsked' /\ AvailableHasImage' /\ DeletedStaysDeleted'
  BY DEF TypeOK, PublicOnlyIfAsked, AvailableHasImage, DeletedStaysDeleted,
    ServingKnows, HasImage
<1>3. ServingKnows'
  BY DEF TypeOK, ServingKnows, Requests
<1>4. OneCreator'
  BY DEF OneCreator, Writing
<1>5. CreatorKnows'
  BY DEF CreatorKnows, Writing, HasImage
<1>6. GoneIsOver'
  BY DEF TypeOK, GoneIsOver, ServingKnows, Of, Creators
<1>7. MadePublic' /\ GrantedIsOver'
  BY DEF TypeOK, MadePublic, GrantedIsOver, ServingKnows, Writing, Running, Creators, Of, Over,
    Requests, Idle, Done, Dead
<1> QED
  BY <1>1, <1>2, <1>3, <1>4, <1>5, <1>6, <1>7

LEMMA KeptByDeleteImage ==
  ASSUME Kept, DeleteImage
  PROVE  Kept'
<1> USE ImageNames DEF DeleteImage, Kept, history
<1>1. TypeOK'
  BY DEF TypeOK, Requests
<1>2. PublicOnlyIfAsked' /\ DeletedStaysDeleted'
  BY DEF TypeOK, PublicOnlyIfAsked, AvailableHasImage, DeletedStaysDeleted,
    ServingKnows, HasImage
<1>3. AvailableHasImage'
  BY DEF TypeOK, AvailableHasImage, ServingKnows
<1>4. ServingKnows'
  BY DEF TypeOK, ServingKnows, Requests
<1>5. OneCreator'
  BY DEF OneCreator, Writing
<1>6. CreatorKnows'
  BY DEF TypeOK, CreatorKnows, ServingKnows, Writing, HasImage
<1>7. GoneIsOver'
  BY DEF GoneIsOver
<1>8. MadePublic' /\ GrantedIsOver'
  BY DEF TypeOK, MadePublic, GrantedIsOver, ServingKnows, Writing, Running, Creators, Of, Over,
    Requests, Idle, Done, Dead
<1> QED
  BY <1>1, <1>2, <1>3, <1>4, <1>5, <1>6, <1>7, <1>8

LEMMA KeptByDeleteDir ==
  ASSUME Kept, DeleteDir
  PROVE  Kept'
<1> USE ImageNames DEF DeleteDir, Kept, history
<1>1. TypeOK'
  BY DEF TypeOK, Requests
<1>2. PublicOnlyIfAsked' /\ AvailableHasImage' /\ DeletedStaysDeleted'
  BY DEF TypeOK, PublicOnlyIfAsked, AvailableHasImage, DeletedStaysDeleted,
    ServingKnows, HasImage
<1>3. ServingKnows'
  BY DEF ServingKnows
<1>4. OneCreator'
  BY DEF OneCreator, Writing
<1>5. CreatorKnows'
  BY DEF TypeOK, CreatorKnows, ServingKnows, Writing, HasImage
<1>6. GoneIsOver'
  BY DEF GoneIsOver
<1>7. MadePublic' /\ GrantedIsOver'
  BY DEF TypeOK, MadePublic, GrantedIsOver, ServingKnows, Writing, Running, Creators, Of, Over,
    Requests, Idle, Done, Dead
<1> QED
  BY <1>1, <1>2, <1>3, <1>4, <1>5, <1>6, <1>7

LEMMA KeptByCrashServer ==
  ASSUME Kept, CrashServer
  PROVE  Kept'
<1> USE ImageNames DEF CrashServer, Kept, store, history
<1>1. TypeOK'
  BY DEF TypeOK
<1>2. PublicOnlyIfAsked' /\ AvailableHasImage' /\ DeletedStaysDeleted' /\ ServingKnows'
  BY DEF PublicOnlyIfAsked, AvailableHasImage, DeletedStaysDeleted, ServingKnows, HasImage
<1>3. OneCreator'
  BY DEF OneCreator, Writing
<1>4. CreatorKnows'
  BY DEF CreatorKnows, Writing, HasImage
<1>5. GoneIsOver'
  BY DEF GoneIsOver
<1>6. MadePublic' /\ GrantedIsOver'
  BY DEF TypeOK, MadePublic, GrantedIsOver, ServingKnows, Writing, Running, Creators, Of, Over,
    Requests, Idle, Done, Dead
<1> QED
  BY <1>1, <1>2, <1>3, <1>4, <1>5, <1>6

LEMMA KeptByStuttering == Kept /\ UNCHANGED vars => Kept'
BY DEF Kept, vars, store, history, TypeOK, PublicOnlyIfAsked, AvailableHasImage, OneCreator,
  DeletedStaysDeleted, ServingKnows, CreatorKnows, GoneIsOver, MadePublic, GrantedIsOver,
  Writing, HasImage

LEMMA KeptByNext == Kept /\ [Next]_vars => Kept'
<1> SUFFICES ASSUME Kept, [Next]_vars PROVE Kept'
  OBVIOUS
<1>1. CASE \E c \in Creators : Put(c) \/ Create(c)
  BY <1>1, KeptByPut, KeptByCreateWorks, KeptByCreateOpens, KeptByCreateWrites,
    KeptByCreateFails DEF Create
<1>2. CASE \E i \in Ids : DeleteReads(i) \/ \E op \in {"add", "remove"} : PostReads(i, op)
  BY <1>2, KeptByDeleteReads, KeptByPostReads
<1>3. CASE Serve
  BY <1>3, KeptByPostTruncates, KeptByPostWrites, KeptByDeleteInfo, KeptByDeleteImage,
    KeptByDeleteDir DEF Serve
<1>4. CASE CrashServer
  BY <1>4, KeptByCrashServer
<1>5. CASE UNCHANGED vars
  BY <1>5, KeptByStuttering
<1> QED
  BY <1>1, <1>2, <1>3, <1>4, <1>5 DEF Next

LEMMA AlwaysKept == Spec => []Kept
BY KeptInitially, KeptByNext, PTL DEF Spec

(* Whatever creating processes and requests do in between, nobody but its  *)
(* owner's wish makes an image visible to others.                          *)
THEOREM PrivateByDefault == Spec => []PublicOnlyIfAsked
<1>1. Kept => PublicOnlyIfAsked
  BY DEF Kept
<1> QED
  BY <1>1, AlwaysKept, PTL

(* An image that reads as available can be launched.                       *)
THEOREM AvailableIsLaunchable == Spec => []AvailableHasImage
<1>1. Kept => AvailableHasImage
  BY DEF Kept
<1> QED
  BY <1>1, AlwaysKept, PTL

(* A repeated PUT never starts a second writer of the same files.          *)
THEOREM CreatedOnce == Spec => []OneCreator
<1>1. Kept => OneCreator
  BY DEF Kept
<1> QED
  BY <1>1, AlwaysKept, PTL

(* A DELETE that no registration overlaps is final.                        *)
THEOREM DeleteIsFinal == Spec => []DeletedStaysDeleted
<1>1. Kept => DeletedStaysDeleted
  BY DEF Kept
<1> QED
  BY <1>1, AlwaysKept, PTL

(* An image made public after its creation stays so.                       *)
THEOREM PublicStaysPublic == Spec => []MadePublic
<1>1. Kept => MadePublic
  BY DEF Kept
<1> QED
  BY <1>1, AlwaysKept, PTL

(* Files and requests keep their types.                                    *)
THEOREM ImageTypeCorrect == Spec => []TypeOK
<1>1. Kept => TypeOK
  BY DEF Kept
<1> QED
  BY <1>1, AlwaysKept, PTL

-----------------------------------------------------------------------------
(* What a registration leaves behind, as long as nobody names the image.   *)

Wrote(c) == Writing(c) \/ at[c] = Done
Registered(c) ==
  /\ Wrote(c) => c[1] \in dir /\ \A d \in Of(c[1]) : Wrote(d) => d = c
  /\ (\E k \in 1..4 : at[c] = <<k, "open">>) => info[c[1]] = Torn
  /\ at[c] \in {<<4, "ready">>, <<4, "open">>, Done} => "image" \in files[c[1]]
  /\ at[c] = Done => info[c[1]] \in Infos /\ info[c[1]].state = "available"

Registrations == \A c \in Creators : c[1] \notin named => Registered(c)

LEMMA CreatorsOfId ==
  \A c \in Creators : c[1] \in Ids /\ \A d \in Of(c[1]) : d \in Creators /\ d[1] = c[1]
BY DEF Creators, Of

(* A handler works on an image that was named.                             *)
LEMMA RegisteredByServing ==
  ASSUME Kept, Registrations, NEW c \in Creators, c[1] \notin named',
         \/ \E i \in Ids : DeleteReads(i) \/ \E op \in {"add", "remove"} : PostReads(i, op)
         \/ Serve \/ CrashServer \/ UNCHANGED vars
  PROVE  Registered(c)'
<1>1. named \subseteq named' /\ at' = at
  BY DEF DeleteReads, PostReads, Serve, PostTruncates, PostWrites, DeleteInfo, DeleteImage, DeleteDir,
    CrashServer, history, vars
<1>2. c[1] \in Ids /\ c[1] \notin named /\ Registered(c)
  BY <1>1, CreatorsOfId DEF Registrations
<1>3. serving # None => serving.id # c[1]
  BY <1>2 DEF Kept, ServingKnows
<1>4. /\ info'[c[1]] = info[c[1]] /\ files'[c[1]] = files[c[1]]
      /\ c[1] \in dir => c[1] \in dir'
  BY <1>2, <1>3 DEF Kept, TypeOK, DeleteReads, PostReads, Serve, PostTruncates, PostWrites,
    DeleteInfo, DeleteImage, DeleteDir, CrashServer, store, vars
<1> QED
  BY <1>1, <1>2, <1>4 DEF Registered, Wrote, Writing

(* Another creating process of the image has not come as far as to write.  *)
LEMMA RegisteredByCreating ==
  ASSUME Kept, Registrations, NEW e \in Creators, Put(e) \/ Create(e),
         NEW c \in Creators, c[1] \notin named
  PROVE  Registered(c)'
<1> USE DEF Kept, TypeOK
<1>1. /\ Registered(c) /\ c[1] \in Ids /\ e[1] \in Ids
      /\ \A d \in Of(c[1]) : d \in Creators /\ d[1] = c[1] /\ Registered(d)
  BY CreatorsOfId DEF Registrations
<1>2. /\ <<1, "work">> \in Running /\ Idle \notin Running /\ Done \notin Running /\ Dead \notin Running
      /\ Dead # Done /\ Idle # Done
      /\ \A k \in 1..4, s \in {"ready", "open"} : <<k, s>> \in Running /\ <<k, s>> # <<1, "work">>
  BY DEF Running, Idle, Done, Dead
<1>3. CASE Put(e) \/ CreateFails(e)
  <2>1. /\ UNCHANGED <<dir, info, files>> /\ at' = [at EXCEPT ![e] = at'[e]]
        /\ at'[e] \in {<<1, "work">>, Dead}
    BY <1>3 DEF Put, CreateFails, store
  <2>2. \A d \in Creators : at'[d] = at[d] \/ at'[d] \in {<<1, "work">>, Dead}
    BY <2>1
  <2>3. \A d \in Creators : Wrote(d)' => Wrote(d)
    BY <1>2, <2>2 DEF Wrote, Writing
  <2>4. <<1, "work">> # Done /\ \A k \in 1..4 : Dead # <<k, "open">> /\ Dead # <<4, "ready">>
    BY DEF Dead, Done
  <2> QED
    BY <1>1, <1>2, <2>1, <2>2, <2>3, <2>4 DEF Registered
<1>4. CASE CreateWorks(e)
  <2>1. PICK k \in 1..4 :
          at[e] = <<k, "work">> /\ Work(e[1], k) /\ at' = [at EXCEPT ![e] = <<k, "ready">>]
    BY <1>4 DEF CreateWorks
  <2>2. /\ info' = info /\ dir \subseteq dir' /\ \A i \in Ids : files[i] \subseteq files'[i]
        /\ \A d \in Creators : d # e => at'[d] = at[d]
        /\ at'[e] = <<k, "ready">>
    BY <1>4, <2>1 DEF CreateWorks, Work, Makedirs
  <2>3. \A d \in Creators : d # e => (Wrote(d)' <=> Wrote(d))
    BY <2>2 DEF Wrote, Writing
  <2>4. k # 1 => Wrote(e)
    BY <2>1 DEF Wrote, Writing, Running
  <2>5. k = 1 => e[1] \notin dir /\ e[1] \in dir'
    BY <2>1 DEF Work, Makedirs
  <2>6. k = 4 => "image" \in files'[e[1]]
    BY <1>1, <2>1 DEF Work
  <2>7. Wrote(c)' => c[1] \in dir' /\ \A d \in Of(c[1]) : Wrote(d)' => d = c
    BY <1>1, <2>2, <2>3, <2>4, <2>5 DEF Registered
  <2>8. CASE c = e
    BY <2>2, <2>6, <2>7, <2>8 DEF Registered, Done
  <2>9. CASE c # e
    BY <1>1, <2>2, <2>7, <2>9 DEF Registered
  <2> QED
    BY <2>8, <2>9
<1>5. CASE CreateOpens(e) \/ CreateWrites(e)
  <2>1. PICK k \in 1..4 :
          \/ /\ at[e] = <<k, "ready">> /\ at' = [at EXCEPT ![e] = <<k, "open">>]
             /\ info' = [info EXCEPT ![e[1]] = Torn]
          \/ /\ at[e] = <<k, "open">>
             /\ info' = [info EXCEPT ![e[1]] = Over(@, [state |-> States[k], public |-> FALSE])]
             /\ at' = [at EXCEPT ![e] = IF k < 4 THEN <<k + 1, "work">> ELSE Done]
    BY <1>5 DEF CreateOpens, CreateWrites
  <2>2. /\ UNCHANGED <<dir, files>> /\ \A d \in Creators : d # e => at'[d] = at[d]
        /\ \A i \in Ids : i # e[1] => info'[i] = info[i]
    BY <1>5, <2>1 DEF CreateOpens, CreateWrites
  <2>3. Wrote(e) /\ \A d \in Creators : Wrote(d)' => Wrote(d)
    <3>1. Wrote(e)
      BY <1>2, <2>1 DEF Wrote, Writing
    <3> QED
      BY <2>2, <3>1 DEF Wrote, Writing
  <2>4. Wrote(c)' => c[1] \in dir' /\ \A d \in Of(c[1]) : Wrote(d)' => d = c
    BY <1>1, <2>2, <2>3 DEF Registered
  <2>5. CASE c = e
    <3>1. CASE at[e] = <<k, "ready">>
      <4>1. at'[c] = <<k, "open">> /\ info'[c[1]] = Torn
        BY <1>1, <2>1, <2>5, <3>1
      <4> QED
        BY <1>1, <2>2, <2>4, <2>5, <3>1, <4>1 DEF Registered, Done
    <3>2. CASE at[e] = <<k, "open">>
      <4>1. info[c[1]] = Torn
        BY <1>1, <2>5, <3>2 DEF Registered
      <4>2. info'[c[1]] = [state |-> States[k], public |-> FALSE]
        BY <1>1, <2>1, <2>5, <3>2, <4>1, ImageNames DEF Over
      <4>3. CASE k = 4
        <5>1. at'[c] = Done /\ States[k] = "available"
          BY <2>1, <2>5, <3>2, <4>3 DEF States
        <5>2. info'[c[1]] \in Infos /\ info'[c[1]].state = "available"
          BY <4>2, <5>1, StatesFour DEF Infos
        <5>3. "image" \in files'[c[1]]
          BY <1>1, <2>2, <2>5, <3>2, <4>3 DEF Registered
        <5>4. \A k1 \in 1..4 : Done # <<k1, "open">>
          BY DEF Done
        <5> QED
          BY ONLY <2>4, <5>1, <5>2, <5>3, <5>4 DEF Registered
      <4>4. CASE k # 4
        <5>1. at'[c] = <<k + 1, "work">>
          BY <2>1, <2>5, <3>2, <4>4
        <5> QED
          BY <2>4, <5>1 DEF Registered, Done
      <4> QED
        BY <4>3, <4>4
    <3> QED
      BY <2>1, <3>1, <3>2
  <2>6. CASE c # e /\ Wrote(c)
    <3>1. c[1] # e[1]
      BY <1>1, <2>3, <2>6 DEF Registered, Of, Creators
    <3> QED
      BY <1>1, <2>2, <2>4, <2>6, <3>1 DEF Registered
  <2>7. CASE c # e /\ ~Wrote(c)
    <3>1. at'[c] = at[c] /\ at[c] # Done /\ \A k1 \in 1..4 : at[c] # <<k1, "open">>
      BY <1>2, <2>2, <2>7 DEF Wrote, Writing
    <3>2. at[c] # <<4, "ready">>
      BY <1>2, <2>7 DEF Wrote, Writing
    <3> QED
      BY <2>4, <3>1, <3>2 DEF Registered
  <2> QED
    BY <2>5, <2>6, <2>7
<1> QED
  BY <1>3, <1>4, <1>5 DEF Create

LEMMA RegistrationsByNext == Kept /\ Registrations /\ [Next]_vars => Registrations'
<1> SUFFICES ASSUME Kept, Registrations, [Next]_vars, NEW c \in Creators, c[1] \notin named'
             PROVE  Registered(c)'
  BY DEF Registrations
<1>1. CASE \E e \in Creators : Put(e) \/ Create(e)
  <2>1. named' = named
    BY <1>1 DEF Put, Create, CreateWorks, CreateOpens, CreateWrites, CreateFails
  <2> QED
    BY <1>1, <2>1, RegisteredByCreating
<1> QED
  BY <1>1, RegisteredByServing DEF Next

(* A registration that came to its end has made the image available, with  *)
(* its file, and it stays so until somebody names the image: neither a     *)
(* repeated PUT nor a process that failed on the way can spoil it.         *)
THEOREM RegisteredIsAvailable ==
  Spec => [](\A c \in Creators : at[c] = Done /\ c[1] \notin named =>
               /\ info[c[1]] \in Infos /\ info[c[1]].state = "available"
               /\ "image" \in files[c[1]])
<1>1. Init => Registrations
  BY DEF Init, Registrations, Registered, Wrote, Writing, Running, Idle, Done
<1>2. Spec => []Registrations
  BY <1>1, AlwaysKept, RegistrationsByNext, PTL DEF Spec
<1>3. Registrations =>
        \A c \in Creators : at[c] = Done /\ c[1] \notin named =>
          /\ info[c[1]] \in Infos /\ info[c[1]].state = "available"
          /\ "image" \in files[c[1]]
  BY DEF Registrations, Registered
<1> QED
  BY <1>2, <1>3, PTL
=============================================================================
