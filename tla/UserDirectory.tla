----------------------------- MODULE UserDirectory -----------------------------
(***************************************************************************)
(* nova/auth/users.py: users and key pairs in LDAP, VPN ports in one       *)
(* keeper file, used at the same time by the API server, the worker        *)
(* processes that generate its key pairs, and nova-manage.  Each process   *)
(* makes one call at a time and may die in it.  LDAP adds an entry that is *)
(* not there under a parent that is, and deletes one that has no children. *)
(* A definition that no other one uses is a mutated form of the one below  *)
(* it, with a plausible bug.                                               *)
(***************************************************************************)
EXTENDS Naturals, FiniteSets, FiniteSetsExt

CONSTANTS
  Users, Names,   \* user ids, names of key pairs
  Procs,
  None, Torn,
  FirstPort,      \* 8000
  MaxPort,        \* bound on the ports
  MaxKeys         \* bound on the key pairs that are generated

VARIABLES
  users,      \* users in the directory
  keys,       \* user -> name -> number of the key pair, or 0
  ports,      \* the file: Torn, or user -> port, or 0
  call,       \* process -> the call it makes, or None
  made,       \* key pairs generated
  spoiled,    \* history: two calls for a port overlapped, or one died in its write
  given,      \* history: user -> the port last answered, or 0; until then
  answered,   \* history: key pairs answered
  removed,    \* history: numbers of key pairs deleted
  disturbed   \* history: users whose deletion others interfered with

ldap == <<users, keys>>
portHistory == <<given, spoiled>>
keyHistory == <<answered, removed, disturbed>>
vars == <<ldap, ports, call, made, portHistory, keyHistory>>

ASSUME DirectoryParameters ==
  /\ FirstPort \in Nat \ {0} /\ MaxPort \in Nat /\ FirstPort < MaxPort
  /\ MaxKeys \in Nat

Maps == [Users -> 0..MaxPort]
NoPorts == [u \in Users |-> 0]
KeyPairs == [user : Users, name : Names, key : 1..MaxKeys]
Calls ==
  [do : {"open", "write"}, user : Users, map : Maps]
    \cup [do : {"reread"}, user : Users]
    \cup [do : {"add", "answer"}, pair : KeyPairs]
    \cup [do : {"delete"}, user : Users, left : SUBSET Names]

ASSUME DirectoryNames == None \notin Calls /\ Torn \notin Maps

TypeOK ==
  /\ users \subseteq Users /\ disturbed \subseteq Users
  /\ keys \in [Users -> [Names -> 0..MaxKeys]]
  /\ ports \in Maps \cup {Torn} /\ given \in Maps
  /\ call \in [Procs -> Calls \cup {None}]
  /\ made \in 0..MaxKeys /\ removed \subseteq 1..MaxKeys
  /\ answered \subseteq KeyPairs
  /\ spoiled \in BOOLEAN
  /\ \A u \in Users \ users, n \in Names : keys[u][n] = 0

Init ==
  /\ users = {} /\ keys = [u \in Users |-> [n \in Names |-> 0]]
  /\ ports = NoPorts /\ given = NoPorts /\ spoiled = FALSE
  /\ call = [p \in Procs |-> None] /\ made = 0
  /\ answered = {} /\ removed = {} /\ disturbed = {}

Does(p, step) == call[p] # None /\ call[p].do = step
Begins(p, c) == call[p] = None /\ call' = [call EXCEPT ![p] = c]
Goes(p, step) == call' = [call EXCEPT ![p].do = step]
Returns(p) == call' = [call EXCEPT ![p] = None]

-----------------------------------------------------------------------------
(* User.vpn_port *)

Taken(map) == {map[u] : u \in Users} \ {0}

NextPortOfMax(map) == IF Taken(map) = {} THEN FirstPort ELSE Max(Taken(map))

NextPort(map) == IF Taken(map) = {} THEN FirstPort ELSE Max(Taken(map)) + 1

(* A process has read the file and will write what it made of it.          *)
Holds(p) == Does(p, "open") \/ Does(p, "write")

Spoils(if) ==
  /\ spoiled' = (spoiled \/ if)
  /\ given' = IF spoiled' THEN NoPorts ELSE given

(* Without a file that parses the call raises.                             *)
PortReads(p, u) ==
  /\ u \in users
  /\ ports # Torn
  /\ ports[u] # 0 \/ NextPort(ports) <= MaxPort
  /\ Begins(p, [do |-> "open", user |-> u,
       map |-> IF ports[u] # 0 THEN ports ELSE [ports EXCEPT ![u] = NextPort(ports)]])
  /\ Spoils(\E q \in Procs : Holds(q))
  /\ UNCHANGED <<ldap, ports, made, keyHistory>>

PortOpens(p) ==
  /\ Does(p, "open")
  /\ ports' = Torn
  /\ Goes(p, "write")
  /\ UNCHANGED <<ldap, made, portHistory, keyHistory>>

PortWrites(p) ==
  /\ Does(p, "write")
  /\ ports' = call[p].map
  /\ call' = [call EXCEPT ![p] = [do |-> "reread", user |-> call[p].user]]
  /\ UNCHANGED <<ldap, made, portHistory, keyHistory>>

(* The answer is read from the file once more.                             *)
PortAnswers(p) ==
  /\ Does(p, "reread")
  /\ given' = IF ports # Torn /\ ~spoiled
              THEN [given EXCEPT ![call[p].user] = ports[call[p].user]] ELSE given
  /\ Returns(p)
  /\ UNCHANGED <<ldap, ports, made, spoiled, keyHistory>>

-----------------------------------------------------------------------------
(* Key pairs *)

(* Others may disturb a deletion: they add a key pair of the user's, or    *)
(* delete one, which then cannot be deleted any more.                      *)
BeingDeleted(p, u) ==
  \E q \in Procs \ {p} : Does(q, "delete") /\ call[q].user = u
Disturbs(p, u) ==
  disturbed' = IF BeingDeleted(p, u) THEN disturbed \cup {u} ELSE disturbed

(* generate_key_pair: user and name are looked up, then it takes its time. *)
KeyChecks(p, u, n) ==
  /\ u \in users /\ keys[u][n] = 0 /\ made < MaxKeys
  /\ Begins(p, [do |-> "add", pair |-> [user |-> u, name |-> n, key |-> made + 1]])
  /\ made' = made + 1
  /\ UNCHANGED <<ldap, ports, portHistory, keyHistory>>

CanAddOver(u, n) == u \in users

CanAdd(u, n) == u \in users /\ keys[u][n] = 0

KeyAdds(p) ==
  /\ Does(p, "add")
  /\ LET k == call[p].pair
     IN IF CanAdd(k.user, k.name)
        THEN /\ keys' = [keys EXCEPT ![k.user][k.name] = k.key]
             /\ Goes(p, "answer") /\ Disturbs(p, k.user)
        ELSE Returns(p) /\ UNCHANGED <<keys, disturbed>>
  /\ UNCHANGED <<users, ports, made, portHistory, answered, removed>>

(* The worker's result reaches the caller of the API.                      *)
KeyAnswers(p) ==
  /\ Does(p, "answer")
  /\ answered' = answered \cup {call[p].pair}
  /\ Returns(p)
  /\ UNCHANGED <<ldap, ports, made, portHistory, removed, disturbed>>

RemoveKey(u, n) ==
  /\ keys' = [keys EXCEPT ![u][n] = 0]
  /\ removed' = removed \cup {keys[u][n]}

KeyDelete(p, u, n) ==
  /\ call[p] = None
  /\ keys[u][n] # 0
  /\ RemoveKey(u, n) /\ Disturbs(p, u)
  /\ UNCHANGED <<users, ports, call, made, portHistory, answered>>

-----------------------------------------------------------------------------
(* Users *)

UserCreate(p, u) ==
  /\ call[p] = None
  /\ u \notin users
  /\ users' = users \cup {u}
  /\ UNCHANGED <<keys, ports, call, made, portHistory, keyHistory>>

UserDeleteSkipsKeys(p, u) ==
  /\ u \in users
  /\ Begins(p, [do |-> "delete", user |-> u, left |-> {}])
  /\ disturbed' = IF BeingDeleted(p, u) THEN disturbed \cup {u} ELSE disturbed \ {u}
  /\ UNCHANGED <<ldap, ports, made, portHistory, answered, removed>>

(* delete_user: the key pairs that a search finds, one by one, then the    *)
(* user.  One that is gone by then ends it.                                *)
UserDelete(p, u) ==
  /\ u \in users
  /\ Begins(p, [do |-> "delete", user |-> u, left |-> {n \in Names : keys[u][n] # 0}])
  /\ disturbed' = IF BeingDeleted(p, u) THEN disturbed \cup {u} ELSE disturbed \ {u}
  /\ UNCHANGED <<ldap, ports, made, portHistory, answered, removed>>

UserDeleteKey(p) ==
  /\ Does(p, "delete")
  /\ \E n \in call[p].left :
       IF keys[call[p].user][n] # 0
       THEN /\ RemoveKey(call[p].user, n) /\ Disturbs(p, call[p].user)
            /\ call' = [call EXCEPT ![p].left = @ \ {n}]
       ELSE Returns(p) /\ UNCHANGED <<keys, removed, disturbed>>
  /\ UNCHANGED <<users, ports, made, portHistory, answered>>

UserDeleteSubtree(p) ==
  /\ Does(p, "delete") /\ call[p].left = {}
  /\ users' = users \ {call[p].user}
  /\ Returns(p)
  /\ UNCHANGED <<keys, ports, made, portHistory, keyHistory>>

UserDeleteEntry(p) ==
  /\ Does(p, "delete") /\ call[p].left = {}
  /\ users' = IF \A n \in Names : keys[call[p].user][n] = 0
              THEN users \ {call[p].user} ELSE users
  /\ Returns(p)
  /\ UNCHANGED <<keys, ports, made, portHistory, keyHistory>>

Die(p) ==
  /\ call[p] # None
  /\ Returns(p)
  /\ Spoils(Does(p, "write"))
  /\ disturbed' = IF Does(p, "delete") THEN disturbed \cup {call[p].user} ELSE disturbed
  /\ UNCHANGED <<ldap, ports, made, answered, removed>>

-----------------------------------------------------------------------------
Runs(p) ==
  \/ PortOpens(p) \/ PortWrites(p) \/ PortAnswers(p)
  \/ KeyAdds(p) \/ KeyAnswers(p)
  \/ UserDeleteKey(p) \/ UserDeleteEntry(p)

Next == \E p \in Procs :
  \/ \E u \in Users :
       \/ PortReads(p, u) \/ UserCreate(p, u) \/ UserDelete(p, u)
       \/ \E n \in Names : KeyChecks(p, u, n) \/ KeyDelete(p, u, n)
  \/ Runs(p)
  \/ Die(p)

Spec == Init /\ [][Next]_vars

(* A process that makes a call runs.                                       *)
FairSpec == Spec /\ \A p \in Procs : WF_vars(Runs(p))

-----------------------------------------------------------------------------
(* Properties *)

Distinct(map) == \A u, v \in Users : u # v /\ map[u] # 0 => map[u] # map[v]

(* The file never gives two users one port, and the port that a user was   *)
(* told stays the user's, as long as no two calls overlap and no process   *)
(* dies with the file open.                                                *)
OnePortEach ==
  /\ ports # Torn => Distinct(ports)
  /\ \A u \in Users : given[u] # 0 =>
       /\ ports # Torn => ports[u] = given[u]
       /\ \A p \in Procs : Holds(p) => call[p].map[u] = given[u]

(* A key pair that a caller was answered is the one in the directory until *)
(* it is deleted, whatever workers generated for the same name.            *)
KeysAsAnswered ==
  \A k \in answered : keys[k.user][k.name] = k.key \/ k.key \in removed

(* A deletion that nobody disturbs, and whose process lives, leaves no     *)
(* user behind.                                                            *)
DeletionEnds ==
  \A u \in Users :
    (\E p \in Procs : Does(p, "delete") /\ call[p].user = u) ~> u \notin users \/ u \in disturbed
=============================================================================
