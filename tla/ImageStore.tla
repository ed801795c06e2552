------------------------------ MODULE ImageStore ------------------------------
(***************************************************************************)
(* The image registry of the object store: nova/objectstore/image.py and   *)
(* the ImageHandler of handler.py.  The handler serves one request at a    *)
(* time; a registration is finished by a process of its own, and both      *)
(* write the image's info.json: open(..., 'w') empties the file, the new   *)
(* text appears when it is closed.                                         *)
(* A definition that no other one uses is a mutated form of the one below  *)
(* it, with a plausible bug.                                               *)
(***************************************************************************)
EXTENDS Naturals, Sequences

CONSTANTS
  Ids,      \* image ids
  None, Torn,
  MaxPuts   \* bound on the PUT requests that name one id

VARIABLES
  dir,      \* ids with a directory
  info,     \* id -> content of info.json: None, Torn or a record
  files,    \* id -> the other files in the directory
  at,       \* where the creating processes are
  serving,  \* what the handler is doing, or None
  named,    \* ids that a caller has named in a POST or DELETE
  allowed,  \* history: ids that may be public, by the POSTs so far
  granted,  \* history: ids made public by a POST answered after their creation
  deleted,  \* history: ids that a DELETE was begun for
  gone      \* history: ids deleted when no process was creating them

store == <<dir, info, files>>
history == <<allowed, granted, deleted, gone>>
vars == <<store, at, serving, named, history>>

StatesSwapped == <<"pending", "decrypting", "available", "untarring">>

States == <<"pending", "decrypting", "untarring", "available">>
Infos == [state : {States[k] : k \in 1..4}, public : BOOLEAN]

(* Length of the text, as far as it varies.                                *)
Length(md) ==
  (CASE md.state = "pending" -> 7
     [] md.state = "decrypting" -> 10
     [] OTHER -> 9) + (IF md.public THEN 4 ELSE 5)

(* The file after md is written from its start: unlinked, it stays so; a   *)
(* longer text that someone else wrote meanwhile sticks out at the end.    *)
Over(old, md) ==
  IF old = None THEN None
  ELSE IF old = Torn \/ Length(md) >= Length(old) THEN md
  ELSE Torn

Creators == Ids \X (1..MaxPuts)
Of(i) == {i} \X (1..MaxPuts)
Running == (1..4) \X {"work", "ready", "open"}
Idle == <<0, "idle">>
Done == <<5, "done">>
Dead == <<5, "dead">>
Writing(c) == at[c] \in Running /\ at[c] # <<1, "work">>

Requests ==
  [do : {"truncate", "write"}, id : Ids, op : {"add", "remove"}, md : Infos]
    \cup [do : {"info", "image", "rmdir"}, id : Ids]

ASSUME ImageNames == Torn # None /\ {Torn, None} \cap Infos = {} /\ None \notin Requests
ASSUME ImageParameters == MaxPuts \in Nat \ {0}

TypeOK ==
  /\ dir \subseteq Ids
  /\ info \in [Ids -> Infos \cup {None, Torn}]
  /\ files \in [Ids -> SUBSET {"image.tar.gz", "image"}]
  /\ at \in [Creators -> Running \cup {Idle, Done, Dead}]
  /\ serving \in Requests \cup {None}
  /\ named \subseteq Ids /\ allowed \subseteq Ids /\ granted \subseteq Ids
  /\ deleted \subseteq Ids /\ gone \subseteq Ids
  /\ \A i \in Ids : i \notin dir => info[i] = None /\ files[i] = {}

Init ==
  /\ dir = {} /\ info = [i \in Ids |-> None] /\ files = [i \in Ids |-> {}]
  /\ at = [c \in Creators |-> Idle]
  /\ serving = None /\ named = {}
  /\ allowed = {} /\ granted = {} /\ deleted = {} /\ gone = {}

-----------------------------------------------------------------------------
(* Registration *)

(* PUT: an id that has no directory yet gets a creating process.  A client *)
(* that got no answer may repeat it; once answered, the id is in use.      *)
Put(c) ==
  /\ serving = None
  /\ at[c] = Idle /\ c[1] \notin named
  /\ c[1] \notin dir
  /\ at' = [at EXCEPT ![c] = <<1, "work">>]
  /\ UNCHANGED <<store, serving, named, history>>

MakedirsIfMissing(i) ==
  /\ dir' = dir \cup {i}
  /\ UNCHANGED files

Makedirs(i) ==
  /\ i \notin dir
  /\ dir' = dir \cup {i}
  /\ UNCHANGED files

(* The work before the k-th write_state: the directory, the encrypted      *)
(* parts, the decrypted archive, the image.                                *)
Work(i, k) ==
  \/ k = 1 /\ Makedirs(i)
  \/ k = 2 /\ UNCHANGED <<dir, files>>
  \/ /\ k = 3 /\ i \in dir
     /\ files' = [files EXCEPT ![i] = @ \cup {"image.tar.gz"}]
     /\ UNCHANGED dir
  \/ /\ k = 4 /\ i \in dir
     /\ files' = [files EXCEPT ![i] = @ \cup {"image"}]
     /\ UNCHANGED dir

CreateWorks(c) ==
  \E k \in 1..4 :
    /\ at[c] = <<k, "work">>
    /\ Work(c[1], k)
    /\ at' = [at EXCEPT ![c] = <<k, "ready">>]
    /\ UNCHANGED <<info, serving, named, history>>

(* write_state *)
CreateOpens(c) ==
  \E k \in 1..4 :
    /\ at[c] = <<k, "ready">>
    /\ c[1] \in dir
    /\ info' = [info EXCEPT ![c[1]] = Torn]
    /\ at' = [at EXCEPT ![c] = <<k, "open">>]
    /\ UNCHANGED <<dir, files, serving, named, history>>

CreateWritesShort(c) ==
  \E k \in 1..4 :
    /\ at[c] = <<k, "open">>
    /\ info' = [info EXCEPT ![c[1]] = Over(@, [state |-> States[k], public |-> FALSE])]
    /\ at' = [at EXCEPT ![c] = IF k < 3 THEN <<k + 1, "work">> ELSE Done]
    /\ UNCHANGED <<dir, files, serving, named, history>>

CreateWrites(c) ==
  \E k \in 1..4 :
    /\ at[c] = <<k, "open">>
    /\ info' = [info EXCEPT ![c[1]] = Over(@, [state |-> States[k], public |-> FALSE])]
    /\ at' = [at EXCEPT ![c] = IF k < 4 THEN <<k + 1, "work">> ELSE Done]
    /\ UNCHANGED <<dir, files, serving, named, history>>

(* The process is killed or a step raises: no such bucket, a bad manifest, *)
(* the directory is there already, or it is there no more.                 *)
CreateFails(c) ==
  /\ at[c] \in Running
  /\ at' = [at EXCEPT ![c] = Dead]
  /\ UNCHANGED <<store, serving, named, history>>

-----------------------------------------------------------------------------
(* The other requests *)

(* POST: owner_id and set_public read the file, which must parse.          *)
PostReads(i, op) ==
  /\ serving = None
  /\ i \in dir /\ info[i] \in Infos
  /\ serving' = [do |-> "truncate", id |-> i, op |-> op, md |-> info[i]]
  /\ named' = named \cup {i}
  /\ allowed' = IF op = "add" THEN allowed \cup {i} ELSE allowed
  /\ granted' = granted \ {i}
  /\ UNCHANGED <<store, at, deleted, gone>>

PostTruncates ==
  /\ serving # None /\ serving.do = "truncate"
  /\ info' = [info EXCEPT ![serving.id] = Torn]
  /\ serving' = [serving EXCEPT !.do = "write"]
  /\ UNCHANGED <<dir, files, at, named, history>>

NewPublicOnlyAdds(md, op) == [md EXCEPT !.public = @ \/ op = "add"]

NewPublic(md, op) == [md EXCEPT !.public = (op = "add")]

PostWrites ==
  /\ serving # None /\ serving.do = "write"
  /\ LET i == serving.id
     IN /\ info' = [info EXCEPT ![i] = Over(@, NewPublic(serving.md, serving.op))]
        /\ allowed' = IF serving.op = "add" THEN allowed ELSE allowed \ {i}
        /\ granted' = IF serving.op = "add" /\ \A c \in Of(i) : ~Writing(c)
                      THEN granted \cup {i} ELSE granted
  /\ serving' = None
  /\ UNCHANGED <<dir, files, at, named, deleted, gone>>

(* DELETE: info.json, image and then the directory, each if it can be.     *)
DeleteReads(i) ==
  /\ serving = None
  /\ i \in dir /\ info[i] \in Infos
  /\ serving' = [do |-> "info", id |-> i]
  /\ named' = named \cup {i}
  /\ granted' = granted \ {i}
  /\ deleted' = deleted \cup {i}
  /\ UNCHANGED <<store, at, allowed, gone>>

DeleteInfoKept ==
  /\ serving # None /\ serving.do = "info"
  /\ serving' = [serving EXCEPT !.do = "image"]
  /\ gone' = IF \A c \in Of(serving.id) : at[c] \notin Running
             THEN gone \cup {serving.id} ELSE gone
  /\ UNCHANGED <<store, at, named, allowed, granted, deleted>>

DeleteInfo ==
  /\ serving # None /\ serving.do = "info"
  /\ info' = [info EXCEPT ![serving.id] = None]
  /\ serving' = [serving EXCEPT !.do = "image"]
  /\ gone' = IF \A c \in Of(serving.id) : at[c] \notin Running
             THEN gone \cup {serving.id} ELSE gone
  /\ UNCHANGED <<dir, files, at, named, allowed, granted, deleted>>

DeleteImage ==
  /\ serving # None /\ serving.do = "image"
  /\ files' = [files EXCEPT ![serving.id] = @ \ {"image"}]
  /\ serving' = [serving EXCEPT !.do = "rmdir"]
  /\ UNCHANGED <<dir, info, at, named, history>>

DeleteDirAssumed ==
  /\ serving # None /\ serving.do = "rmdir"
  /\ dir' = dir \ {serving.id}
  /\ serving' = None
  /\ UNCHANGED <<info, files, at, named, history>>

DeleteDir ==
  /\ serving # None /\ serving.do = "rmdir"
  /\ dir' = IF info[serving.id] = None /\ files[serving.id] = {}
            THEN dir \ {serving.id} ELSE dir
  /\ serving' = None
  /\ UNCHANGED <<info, files, at, named, history>>

(* The server dies in the middle of a request.  The creating processes are *)
(* its children, not its threads.                                          *)
CrashServer ==
  /\ serving # None
  /\ serving' = None
  /\ UNCHANGED <<store, at, named, history>>

-----------------------------------------------------------------------------
Create(c) == CreateWorks(c) \/ CreateOpens(c) \/ CreateWrites(c) \/ CreateFails(c)
Serve == PostTruncates \/ PostWrites \/ DeleteInfo \/ DeleteImage \/ DeleteDir

Next ==
  \/ \E c \in Creators : Put(c) \/ Create(c)
  \/ \E i \in Ids : DeleteReads(i) \/ \E op \in {"add", "remove"} : PostReads(i, op)
  \/ Serve
  \/ CrashServer

Spec == Init /\ [][Next]_vars

(* A process that creates an image, and one that serves a request, runs.   *)
FairSpec == Spec /\ WF_vars(Serve) /\ \A c \in Creators : WF_vars(Create(c))

-----------------------------------------------------------------------------
(* Properties *)

(* Others see an image only if its owner last asked for that: no write of  *)
(* the creating process or of a POST overtaken by it shows an image whose  *)
(* owner has taken it back, or one never made public.                      *)
PublicOnlyIfAsked ==
  \A i \in Ids : info[i] \in Infos => (info[i].public => i \in allowed)

(* An image reads as available only when its file is there, unless a       *)
(* DELETE was begun.                                                       *)
AvailableHasImage ==
  \A i \in Ids :
    info[i] \in Infos /\ info[i].state = "available" =>
      "image" \in files[i] \/ i \in deleted

(* One process at most writes an image, however often the PUT arrives.     *)
OneCreator ==
  \A i \in Ids \ deleted : \A c, d \in Of(i) : Writing(c) /\ Writing(d) => c = d

(* A deregistered image is listed no more, if no process was creating it.  *)
DeletedStaysDeleted == \A i \in gone : info[i] = None

(* A registration whose processes do not fail, and that nobody names       *)
(* meanwhile, makes the image available.                                   *)
RegistrationEnds ==
  \A i \in Ids :
    (\E c \in Of(i) : at[c] \in Running) ~>
      \/ info[i] \in Infos /\ info[i].state = "available"
      \/ i \in named
      \/ \E c \in Of(i) : at[c] = Dead

(* An image made public once it is created stays so until its owner says   *)
(* otherwise: no process that still holds its first info writes it back.   *)
MadePublic ==
  \A i \in granted : info[i] \in Infos => info[i].public
=============================================================================
