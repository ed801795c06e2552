------------------------- MODULE UserDirectory_proofs -------------------------
(***************************************************************************)
(* Proofs about UserDirectory.  The inductive invariant adds to the        *)
(* properties what a process knows of the file of the ports while it       *)
(* changes it, and that the key pair a process is about to answer is the   *)
(* one in the directory.                                                   *)
(***************************************************************************)
EXTENDS UserDirectory, NaturalsInduction, WellFoundedInduction, TLAPS

(* No two users share a port, neither in the file nor in a change of it.   *)
PortsDiffer ==
  /\ ports # Torn => Distinct(ports)
  /\ \A p \in Procs : Holds(p) => Distinct(call[p].map)

(* One process changes the file, and keeps the ports that are in it.       *)
HoldersExtend ==
  ~spoiled =>
    /\ \A p, q \in Procs : Holds(p) /\ Holds(q) => p = q
    /\ \A p \in Procs : Holds(p) /\ ports # Torn =>
         \A u \in Users : ports[u] # 0 => call[p].map[u] = ports[u]

GivenKept ==
  /\ spoiled => given = NoPorts
  /\ \A u \in Users : given[u] # 0 =>
       /\ ports # Torn => ports[u] = given[u]
       /\ \A p \in Procs : Holds(p) => call[p].map[u] = given[u]

Stored(k) == keys[k.user][k.name] = k.key \/ k.key \in removed

AnswersStored ==
  /\ \A k \in answered : Stored(k)
  /\ \A p \in Procs : Does(p, "answer") => Stored(call[p].pair)

Kept ==
  /\ TypeOK
  /\ PortsDiffer /\ HoldersExtend /\ GivenKept
  /\ AnswersStored

-----------------------------------------------------------------------------
(* The next port is no user's.                                             *)
LEMMA MaxOfPorts ==
  ASSUME NEW S \in SUBSET (0..MaxPort), S # {}
  PROVE  Max(S) \in S /\ \A x \in S : Max(S) >= x
<1> USE DirectoryParameters
<1> DEFINE Below == {MaxPort - x : x \in S}
<1>1. Below \subseteq Nat /\ Below # {}
  <2>1. \A x \in S : MaxPort - x \in Nat
    OBVIOUS
  <2> QED
    BY <2>1
<1>2. PICK m \in Below : \A b \in Below : ~ (<<b, m>> \in OpToRel(<, Nat))
  BY <1>1, NatLessThanWellFounded, WFMin
<1>3. \A b \in Below : ~ (b < m)
  BY <1>1, <1>2 DEF OpToRel
<1>4. PICK g \in S : m = MaxPort - g
  OBVIOUS
<1>5. \A x \in S : g >= x
  <2> TAKE x \in S
  <2>1. ~ (MaxPort - x < MaxPort - g)
    BY <1>3, <1>4
  <2>2. MaxPort \in Int /\ x \in Int /\ g \in Int
    BY <1>4
  <2> HIDE DEF Below
  <2> QED
    BY <2>1, <2>2, SMT
<1> QED
  BY <1>5 DEF Max

LEMMA NextPortIsFree ==
  ASSUME NEW map \in Maps
  PROVE  /\ NextPort(map) \in Nat \ {0}
         /\ \A u \in Users : map[u] # NextPort(map)
<1> USE DirectoryParameters
<1>1. Taken(map) \subseteq 0..MaxPort /\ \A u \in Users : map[u] # 0 => map[u] \in Taken(map)
  BY DEF Taken, Maps
<1>2. CASE Taken(map) = {}
  BY <1>1, <1>2 DEF NextPort
<1>3. CASE Taken(map) # {}
  <2>1. Max(Taken(map)) \in Taken(map) /\ \A x \in Taken(map) : Max(Taken(map)) >= x
    BY <1>1, <1>3, MaxOfPorts
  <2>2. Max(Taken(map)) \in Nat /\ NextPort(map) = Max(Taken(map)) + 1
    BY <1>1, <1>3, <2>1 DEF NextPort
  <2>3. \A u \in Users : map[u] \in Nat
    BY DEF Maps
  <2> QED
    BY <1>1, <2>1, <2>2, <2>3
<1> QED
  BY <1>2, <1>3

LEMMA CallTypes ==
  ASSUME TypeOK, NEW p \in Procs
  PROVE  /\ Does(p, "open") \/ Does(p, "write") =>
              call[p] \in [do : {"open", "write"}, user : Users, map : Maps]
         /\ Does(p, "reread") => call[p] \in [do : {"reread"}, user : Users]
         /\ Does(p, "add") \/ Does(p, "answer") =>
              call[p] \in [do : {"add", "answer"}, pair : KeyPairs]
         /\ Does(p, "delete") =>
              call[p] \in [do : {"delete"}, user : Users, left : SUBSET Names]
BY DirectoryNames DEF TypeOK, Calls, Does

-----------------------------------------------------------------------------
LEMMA KeptInitially == Init => Kept
<1> USE DirectoryParameters, DirectoryNames
<1>1. ASSUME Init PROVE TypeOK
  <2>1. 0 \in 0..MaxPort /\ 0 \in 0..MaxKeys
    OBVIOUS
  <2>2. NoPorts \in Maps
    BY <2>1 DEF NoPorts, Maps
  <2>3. keys \in [Users -> [Names -> 0..MaxKeys]] /\ \A u \in Users, n \in Names : keys[u][n] = 0
    BY <1>1, <2>1 DEF Init
  <2>4. call \in [Procs -> Calls \cup {None}]
    BY <1>1 DEF Init
  <2> QED
    BY <1>1, <2>1, <2>2, <2>3, <2>4 DEF Init, TypeOK
<1>2. Init => PortsDiffer /\ HoldersExtend /\ GivenKept /\ AnswersStored
  BY DEF Init, PortsDiffer, HoldersExtend, GivenKept, AnswersStored, NoPorts, Distinct, Holds, Does
<1> QED
  BY <1>1, <1>2 DEF Kept

LEMMA KeptByPortReads ==
  ASSUME Kept, NEW p \in Procs, NEW u \in Users, PortReads(p, u)
  PROVE  Kept'
<1> USE DirectoryParameters, DirectoryNames DEF Kept, PortReads, ldap, portHistory, keyHistory, Begins, Spoils
<1> DEFINE new == IF ports[u] # 0 THEN ports ELSE [ports EXCEPT ![u] = NextPort(ports)]
<1>a. ports \in Maps /\ NextPort(ports) \in Nat \ {0} /\ \A v \in Users : ports[v] # NextPort(ports)
  BY NextPortIsFree DEF TypeOK
<1>b. new \in Maps /\ \A v \in Users : ports[v] # 0 => new[v] = ports[v]
  BY <1>a DEF Maps
<1>c. call' = [call EXCEPT ![p] = [do |-> "open", user |-> u, map |-> new]] /\ call[p] = None
  OBVIOUS
<1>d. Distinct(ports) => Distinct(new)
  BY <1>a DEF Distinct, Maps
<1> HIDE DEF new
<1>1. TypeOK'
  BY <1>b, <1>c DEF TypeOK, Calls, NoPorts, Maps
<1>2. PortsDiffer'
  BY <1>b, <1>c, <1>d DEF TypeOK, PortsDiffer, Holds, Does
<1>3. HoldersExtend'
  <2>1. ~spoiled' => ~spoiled /\ \A q \in Procs : ~Holds(q)
    BY DEF TypeOK
  <2>2. \A q \in Procs : Holds(q)' => q = p \/ Holds(q)
    BY <1>c DEF TypeOK, Holds, Does
  <2>3. call'[p].map = new /\ ports' = ports
    BY <1>c DEF TypeOK
  <2> QED
    BY <1>b, <2>1, <2>2, <2>3 DEF HoldersExtend
<1>4. GivenKept'
  BY <1>b, <1>c, <1>d DEF TypeOK, GivenKept, HoldersExtend, Holds, Does, NoPorts
<1>5. AnswersStored'
  BY <1>b, <1>c, <1>d DEF TypeOK, AnswersStored, Stored, Does
<1> QED
  BY <1>1, <1>2, <1>3, <1>4, <1>5

LEMMA KeptByPortOpens ==
  ASSUME Kept, NEW p \in Procs, PortOpens(p)
  PROVE  Kept'
<1> USE DirectoryParameters, DirectoryNames DEF Kept, PortOpens, ldap, portHistory, keyHistory, Does, Goes
<1>1. TypeOK'
  <2>1. [call[p] EXCEPT !.do = "write"] \in Calls
    BY CallTypes DEF Calls
  <2>2. call' = [call EXCEPT ![p] = [call[p] EXCEPT !.do = "write"]]
    BY <2>1 DEF TypeOK
  <2> QED
    BY <2>1, <2>2 DEF TypeOK
<1>2. PortsDiffer'
  BY CallTypes DEF TypeOK, PortsDiffer, Holds, Does
<1>3. HoldersExtend'
  BY CallTypes DEF TypeOK, HoldersExtend, Holds, Does
<1>4. GivenKept'
  BY CallTypes DEF TypeOK, GivenKept, HoldersExtend, Holds, Does, NoPorts
<1>5. AnswersStored'
  BY CallTypes DEF TypeOK, AnswersStored, Stored, Does
<1> QED
  BY <1>1, <1>2, <1>3, <1>4, <1>5

LEMMA KeptByPortWrites ==
  ASSUME Kept, NEW p \in Procs, PortWrites(p)
  PROVE  Kept'
<1> USE DirectoryParameters, DirectoryNames DEF Kept, PortWrites, ldap, portHistory, keyHistory, Does
<1>1. TypeOK'
  <2>1. [do |-> "reread", user |-> call[p].user] \in Calls /\ call[p].map \in Maps
    BY CallTypes DEF Calls
  <2>2. call' = [call EXCEPT ![p] = [do |-> "reread", user |-> call[p].user]]
    BY <2>1 DEF TypeOK
  <2> QED
    BY <2>1, <2>2 DEF TypeOK
<1>2. PortsDiffer'
  BY CallTypes DEF TypeOK, PortsDiffer, Holds, Does
<1>3. HoldersExtend'
  BY CallTypes DEF TypeOK, HoldersExtend, Holds, Does
<1>4. GivenKept'
  BY CallTypes DEF TypeOK, GivenKept, HoldersExtend, Holds, Does, NoPorts
<1>5. AnswersStored'
  BY CallTypes DEF TypeOK, AnswersStored, Stored, Does
<1> QED
  BY <1>1, <1>2, <1>3, <1>4, <1>5

LEMMA KeptByPortAnswers ==
  ASSUME Kept, NEW p \in Procs, PortAnswers(p)
  PROVE  Kept'
<1> USE DirectoryParameters, DirectoryNames DEF Kept, PortAnswers, ldap, portHistory, keyHistory, Does, Returns
<1>1. TypeOK'
  <2>1. call[p].user \in Users
    BY CallTypes
  <2>2. call' = [call EXCEPT ![p] = None]
    BY <2>1 DEF TypeOK
  <2> QED
    BY <2>1, <2>2 DEF TypeOK, Maps
<1>2. PortsDiffer'
  BY CallTypes DEF TypeOK, PortsDiffer, Holds, Does
<1>3. HoldersExtend'
  BY CallTypes DEF TypeOK, HoldersExtend, Holds, Does
<1>4. GivenKept'
  BY CallTypes DEF TypeOK, GivenKept, HoldersExtend, Holds, Does, NoPorts, Maps
<1>5. AnswersStored'
  BY CallTypes DEF TypeOK, AnswersStored, Stored, Does
<1> QED
  BY <1>1, <1>2, <1>3, <1>4, <1>5

LEMMA KeptByKeyChecks ==
  ASSUME Kept, NEW p \in Procs, NEW u \in Users, NEW n \in Names, KeyChecks(p, u, n)
  PROVE  Kept'
<1> USE DirectoryParameters, DirectoryNames DEF Kept, KeyChecks, ldap, portHistory, keyHistory, Begins
<1>1. TypeOK'
  <2> DEFINE k == [user |-> u, name |-> n, key |-> made + 1]
  <2>1. made + 1 \in 1..MaxKeys
    BY DEF TypeOK
  <2>2. k \in KeyPairs
    BY <2>1 DEF KeyPairs
  <2>3. [do |-> "add", pair |-> k] \in Calls
    BY <2>2 DEF Calls
  <2>4. call' = [call EXCEPT ![p] = [do |-> "add", pair |-> k]]
    OBVIOUS
  <2> HIDE DEF k
  <2> QED
    BY <2>1, <2>3, <2>4 DEF TypeOK
<1>2. PortsDiffer'
  BY DEF TypeOK, PortsDiffer, Holds, Does
<1>3. HoldersExtend'
  BY DEF TypeOK, HoldersExtend, Holds, Does
<1>4. GivenKept'
  BY DEF TypeOK, GivenKept, HoldersExtend, Holds, Does, NoPorts
<1>5. AnswersStored'
  BY DEF TypeOK, AnswersStored, Stored, Does
<1> QED
  BY <1>1, <1>2, <1>3, <1>4, <1>5

(* A step that leaves the file of ports and its users alone.               *)
LEMMA PortsUntouched ==
  ASSUME PortsDiffer, HoldersExtend, GivenKept, UNCHANGED <<ports, given, spoiled>>,
         \A q \in Procs : Holds(q)' => Holds(q) /\ call'[q] = call[q]
  PROVE  PortsDiffer' /\ HoldersExtend' /\ GivenKept'
<1>1. PortsDiffer'
  BY DEF PortsDiffer
<1>2. HoldersExtend'
  BY DEF HoldersExtend
<1>3. GivenKept'
  BY DEF GivenKept, NoPorts
<1> QED
  BY <1>1, <1>2, <1>3

LEMMA KeptByKeyAdds ==
  ASSUME Kept, NEW p \in Procs, KeyAdds(p)
  PROVE  Kept'
<1> USE DirectoryParameters, DirectoryNames DEF Kept, KeyAdds, ldap, portHistory, keyHistory, Does, Goes, Returns, CanAdd, Disturbs
<1> DEFINE k == call[p].pair
<1>a. k \in KeyPairs /\ [call[p] EXCEPT !.do = "answer"] \in Calls
  BY CallTypes DEF Calls
<1>b. k.user \in Users /\ k.name \in Names /\ k.key \in 1..MaxKeys
  BY <1>a DEF KeyPairs
<1>1. TypeOK'
  <2>1. CASE CanAdd(k.user, k.name)
    <3>1. /\ keys' = [keys EXCEPT ![k.user][k.name] = k.key]
          /\ call' = [call EXCEPT ![p] = [call[p] EXCEPT !.do = "answer"]]
          /\ disturbed' \in {disturbed, disturbed \cup {k.user}}
      BY <2>1 DEF TypeOK
    <3>2. k.user \in users
      BY <2>1
    <3> HIDE DEF k
    <3> QED
      BY <1>a, <1>b, <3>1, <3>2 DEF TypeOK
  <2>2. CASE ~CanAdd(k.user, k.name)
    BY <2>2 DEF TypeOK
  <2> QED
    BY <2>1, <2>2
<1>2. \A q \in Procs : Holds(q)' => Holds(q) /\ call'[q] = call[q]
  BY CallTypes DEF TypeOK, Holds
<1>3. PortsDiffer' /\ HoldersExtend' /\ GivenKept'
  BY ONLY <1>2, Kept, PortsUntouched, KeyAdds(p) DEF Kept, portHistory, KeyAdds
<1>5. AnswersStored'
  <2>1. CASE CanAdd(k.user, k.name)
    <3>1. /\ keys' = [keys EXCEPT ![k.user][k.name] = k.key]
          /\ removed' = removed /\ answered' = answered
          /\ call' = [call EXCEPT ![p] = [call[p] EXCEPT !.do = "answer"]]
          /\ keys[k.user][k.name] = 0
      BY <2>1 DEF TypeOK
    <3>2. ASSUME NEW l \in KeyPairs, Stored(l) PROVE Stored(l)'
      <4>1. l.user \in Users /\ l.name \in Names /\ l.key # 0
        BY DEF KeyPairs
      <4>2. l.user = k.user /\ l.name = k.name => keys[l.user][l.name] # l.key
        BY <3>1, <4>1
      <4>3. l.user # k.user \/ l.name # k.name => keys'[l.user][l.name] = keys[l.user][l.name]
        BY <1>b, <3>1, <4>1 DEF TypeOK
      <4> QED
        BY <3>1, <3>2, <4>2, <4>3 DEF Stored
    <3>3. \A q \in Procs \ {p} : call'[q] = call[q]
      BY <3>1 DEF TypeOK
    <3>4. \A q \in Procs \ {p} : Does(q, "answer")' => Stored(call[q].pair)'
      BY <3>2, <3>3, CallTypes DEF AnswersStored
    <3>5. call'[p].pair = k /\ Stored(k)'
      BY <1>b, <3>1 DEF Stored, TypeOK
    <3>6. \A l \in answered : Stored(l)'
      BY <3>2 DEF TypeOK, AnswersStored
    <3> QED
      BY <3>1, <3>3, <3>4, <3>5, <3>6 DEF AnswersStored
  <2>2. CASE ~CanAdd(k.user, k.name)
    BY <2>2 DEF TypeOK, AnswersStored, Stored
  <2> QED
    BY <2>1, <2>2
<1> QED
  BY <1>1, <1>3, <1>5

LEMMA KeptByKeyAnswers ==
  ASSUME Kept, NEW p \in Procs, KeyAnswers(p)
  PROVE  Kept'
<1> USE DirectoryParameters, DirectoryNames DEF Kept, KeyAnswers, ldap, portHistory, keyHistory, Does, Returns
<1>1. TypeOK'
  BY CallTypes DEF TypeOK
<1>2. PortsDiffer'
  BY CallTypes DEF TypeOK, PortsDiffer, Holds, Does
<1>3. HoldersExtend'
  BY CallTypes DEF TypeOK, HoldersExtend, Holds, Does
<1>4. GivenKept'
  BY CallTypes DEF TypeOK, GivenKept, HoldersExtend, Holds, Does, NoPorts
<1>5. AnswersStored'
  BY CallTypes DEF TypeOK, AnswersStored, Stored, Does
<1> QED
  BY <1>1, <1>2, <1>3, <1>4, <1>5

LEMMA KeptByKeyDelete ==
  ASSUME Kept, NEW p \in Procs, NEW u \in Users, NEW n \in Names, KeyDelete(p, u, n)
  PROVE  Kept'
<1> USE DirectoryParameters, DirectoryNames DEF Kept, KeyDelete, ldap, portHistory, keyHistory, RemoveKey, Disturbs
<1>1. TypeOK'
  <2>1. keys[u][n] \in 1..MaxKeys
    BY DEF TypeOK
  <2>2. removed' \subseteq 1..MaxKeys /\ disturbed' \subseteq Users
    BY <2>1 DEF TypeOK
  <2>3. keys' = [keys EXCEPT ![u][n] = 0]
    OBVIOUS
  <2>4. keys' \in [Users -> [Names -> 0..MaxKeys]]
    BY <2>3 DEF TypeOK
  <2>5. \A v \in Users \ users, i \in Names : keys'[v][i] = 0
    BY <2>3 DEF TypeOK
  <2> QED
    BY <2>2, <2>4, <2>5 DEF TypeOK
<1>2. PortsDiffer'
  BY DEF TypeOK, PortsDiffer, Holds, Does
<1>3. HoldersExtend'
  BY DEF TypeOK, HoldersExtend, Holds, Does
<1>4. GivenKept'
  BY DEF TypeOK, GivenKept, HoldersExtend, Holds, Does, NoPorts
<1>5. AnswersStored'
  BY DEF TypeOK, AnswersStored, Stored, Does
<1> QED
  BY <1>1, <1>2, <1>3, <1>4, <1>5

LEMMA KeptByUserCreate ==
  ASSUME Kept, NEW p \in Procs, NEW u \in Users, UserCreate(p, u)
  PROVE  Kept'
<1> USE DirectoryParameters, DirectoryNames DEF Kept, UserCreate, ldap, portHistory, keyHistory
<1>1. TypeOK'
  BY DEF TypeOK
<1>2. PortsDiffer'
  BY DEF TypeOK, PortsDiffer, Holds, Does
<1>3. HoldersExtend'
  BY DEF TypeOK, HoldersExtend, Holds, Does
<1>4. GivenKept'
  BY DEF TypeOK, GivenKept, HoldersExtend, Holds, Does, NoPorts
<1>5. AnswersStored'
  BY DEF TypeOK, AnswersStored, Stored, Does
<1> QED
  BY <1>1, <1>2, <1>3, <1>4, <1>5

LEMMA KeptByUserDelete ==
  ASSUME Kept, NEW p \in Procs, NEW u \in Users, UserDelete(p, u)
  PROVE  Kept'
<1> USE DirectoryParameters, DirectoryNames DEF Kept, UserDelete, ldap, portHistory, keyHistory, Begins
<1>1. TypeOK'
  <2>1. [do |-> "delete", user |-> u, left |-> {n \in Names : keys[u][n] # 0}] \in Calls
    BY DEF Calls
  <2>2. call' = [call EXCEPT ![p] = [do |-> "delete", user |-> u, left |-> {n \in Names : keys[u][n] # 0}]]
    BY <2>1 DEF TypeOK
  <2> QED
    BY <2>1, <2>2 DEF TypeOK
<1>2. PortsDiffer'
  BY DEF TypeOK, PortsDiffer, Holds, Does
<1>3. HoldersExtend'
  BY DEF TypeOK, HoldersExtend, Holds, Does
<1>4. GivenKept'
  BY DEF TypeOK, GivenKept, HoldersExtend, Holds, Does, NoPorts
<1>5. AnswersStored'
  BY DEF TypeOK, AnswersStored, Stored, Does
<1> QED
  BY <1>1, <1>2, <1>3, <1>4, <1>5

LEMMA KeptByUserDeleteKey ==
  ASSUME Kept, NEW p \in Procs, UserDeleteKey(p)
  PROVE  Kept'
<1> USE DirectoryParameters, DirectoryNames DEF Kept, UserDeleteKey, ldap, portHistory, keyHistory, Does, RemoveKey, Disturbs, Returns
<1> DEFINE u == call[p].user
<1>a. u \in Users /\ call[p].left \in SUBSET Names
  BY CallTypes
<1>b. PICK n \in call[p].left :
        IF keys[u][n] # 0
        THEN /\ RemoveKey(u, n) /\ Disturbs(p, u)
             /\ call' = [call EXCEPT ![p].left = @ \ {n}]
        ELSE Returns(p) /\ UNCHANGED <<keys, removed, disturbed>>
  OBVIOUS
<1>1. TypeOK'
  <2>1. CASE keys[u][n] # 0
    <3>1. keys[u][n] \in 1..MaxKeys
      BY <1>a, <2>1 DEF TypeOK
    <3>2. [call[p] EXCEPT !.left = call[p].left \ {n}] \in Calls
      BY CallTypes DEF Calls
    <3>3. call' = [call EXCEPT ![p] = [call[p] EXCEPT !.left = call[p].left \ {n}]]
      BY <1>b, <2>1
    <3>4. /\ keys' = [keys EXCEPT ![u][n] = 0] /\ removed' = removed \cup {keys[u][n]}
          /\ disturbed' \in {disturbed, disturbed \cup {u}}
      BY <1>b, <2>1
    <3> HIDE DEF u
    <3> QED
      BY <1>a, <3>1, <3>2, <3>3, <3>4 DEF TypeOK
  <2>2. CASE keys[u][n] = 0
    BY <1>b, <2>2 DEF TypeOK
  <2> QED
    BY <2>1, <2>2
<1>2. \A q \in Procs : Holds(q)' => Holds(q) /\ call'[q] = call[q]
  BY CallTypes DEF TypeOK, Holds
<1>3. PortsDiffer' /\ HoldersExtend' /\ GivenKept'
  BY ONLY <1>2, Kept, PortsUntouched, UserDeleteKey(p) DEF Kept, portHistory, UserDeleteKey
<1>5. AnswersStored'
  <2>1. \A q \in Procs : Does(q, "answer")' => Does(q, "answer") /\ call'[q] = call[q]
    BY <1>b, CallTypes DEF TypeOK, Does
  <2>2. \A l \in KeyPairs : Stored(l) => Stored(l)'
    BY <1>a, <1>b DEF TypeOK, Stored, KeyPairs
  <2>3. \A q \in Procs : Does(q, "answer") => call[q].pair \in KeyPairs
    BY CallTypes
  <2> QED
    BY <2>1, <2>2, <2>3 DEF TypeOK, AnswersStored
<1> QED
  BY <1>1, <1>3, <1>5

LEMMA KeptByUserDeleteEntry ==
  ASSUME Kept, NEW p \in Procs, UserDeleteEntry(p)
  PROVE  Kept'
<1> USE DirectoryParameters, DirectoryNames DEF Kept, UserDeleteEntry, ldap, portHistory, keyHistory, Does, Returns
<1>1. TypeOK'
  BY CallTypes DEF TypeOK
<1>2. PortsDiffer'
  BY CallTypes DEF TypeOK, PortsDiffer, Holds, Does
<1>3. HoldersExtend'
  BY CallTypes DEF TypeOK, HoldersExtend, Holds, Does
<1>4. GivenKept'
  BY CallTypes DEF TypeOK, GivenKept, HoldersExtend, Holds, Does, NoPorts
<1>5. AnswersStored'
  BY CallTypes DEF TypeOK, AnswersStored, Stored, Does
<1> QED
  BY <1>1, <1>2, <1>3, <1>4, <1>5

LEMMA KeptByDie ==
  ASSUME Kept, NEW p \in Procs, Die(p)
  PROVE  Kept'
<1> USE DirectoryParameters, DirectoryNames DEF Kept, Die, ldap, portHistory, keyHistory, Returns, Spoils, Does
<1>1. TypeOK'
  <2>1. Does(p, "delete") => call[p].user \in Users
    BY CallTypes
  <2> QED
    BY <2>1 DEF TypeOK, NoPorts, Maps
<1>2. PortsDiffer'
  BY CallTypes DEF TypeOK, PortsDiffer, Holds, Does
<1>3. HoldersExtend'
  BY CallTypes DEF TypeOK, HoldersExtend, Holds, Does
<1>4. GivenKept'
  BY CallTypes DEF TypeOK, GivenKept, HoldersExtend, Holds, Does, NoPorts
<1>5. AnswersStored'
  BY CallTypes DEF TypeOK, AnswersStored, Stored, Does
<1> QED
  BY <1>1, <1>2, <1>3, <1>4, <1>5

LEMMA KeptByNext == Kept /\ [Next]_vars => Kept'
<1> SUFFICES ASSUME Kept, [Next]_vars PROVE Kept'
  OBVIOUS
<1>1. CASE UNCHANGED vars
  BY <1>1 DEF vars, ldap, portHistory, keyHistory, Kept, TypeOK, PortsDiffer, HoldersExtend,
    GivenKept, AnswersStored, Stored, Holds, Does
<1>2. ASSUME NEW p \in Procs, Runs(p) PROVE Kept'
  BY <1>2, KeptByPortOpens, KeptByPortWrites, KeptByPortAnswers, KeptByKeyAdds, KeptByKeyAnswers,
    KeptByUserDeleteKey, KeptByUserDeleteEntry DEF Runs
<1>3. ASSUME NEW p \in Procs, Die(p) PROVE Kept'
  BY <1>3, KeptByDie
<1>4. ASSUME NEW p \in Procs, NEW u \in Users,
             \/ PortReads(p, u) \/ UserCreate(p, u) \/ UserDelete(p, u)
             \/ \E n \in Names : KeyChecks(p, u, n) \/ KeyDelete(p, u, n)
      PROVE  Kept'
  BY <1>4, KeptByPortReads, KeptByUserCreate, KeptByUserDelete, KeptByKeyChecks, KeptByKeyDelete
<1> QED
  BY <1>1, <1>2, <1>3, <1>4 DEF Next

LEMMA AlwaysKept == Spec => []Kept
BY KeptInitially, KeptByNext, PTL DEF Spec

(* The port that a user was told is the user's alone and stays so, as long *)
(* as calls for ports do not overlap or die in their write.                *)
THEOREM PortsAreOwn == Spec => []OnePortEach
<1>1. Kept => OnePortEach
  BY DEF Kept, PortsDiffer, GivenKept, OnePortEach
<1> QED
  BY <1>1, AlwaysKept, PTL

(* Of two workers with one name the slower one loses: an answered key pair *)
(* is the stored one until it is deleted.                                  *)
THEOREM AnsweredKeysStay == Spec => []KeysAsAnswered
<1>1. Kept => KeysAsAnswered
  BY DEF Kept, AnswersStored, Stored, KeysAsAnswered
<1> QED
  BY <1>1, AlwaysKept, PTL

(* The directory keeps its types: no key pair is there without its user.   *)
THEOREM DirectoryTypeCorrect == Spec => []TypeOK
<1>1. Kept => TypeOK
  BY DEF Kept
<1> QED
  BY <1>1, AlwaysKept, PTL

-----------------------------------------------------------------------------
(* Deletions *)

Deletes(p, u) == Does(p, "delete") /\ call[p].user = u

(* What is left to a deletion that nobody disturbed are the key pairs.     *)
DeletionsKnow ==
  \A p \in Procs, u \in Users : Deletes(p, u) /\ u \notin disturbed =>
    \A n \in Names : keys[u][n] # 0 <=> n \in call[p].left

DeletionsFinish ==
  \A p \in Procs, u \in Users : Deletes(p, u) /\ ~Deletes(p, u)' => u \notin users' \/ u \in disturbed'

LEMMA DeletionsUntouched ==
  ASSUME Kept, DeletionsKnow, UNCHANGED <<keys, disturbed>>,
         \A p \in Procs, u \in Users :
           Deletes(p, u)' => Deletes(p, u) /\ call'[p].left = call[p].left
  PROVE  DeletionsKnow'
BY DEF DeletionsKnow

LEMMA DeletionsByCall ==
  ASSUME Kept, DeletionsKnow, NEW q \in Procs,
         \/ PortOpens(q) \/ PortWrites(q) \/ PortAnswers(q) \/ KeyAnswers(q)
         \/ \E u \in Users :
              PortReads(q, u) \/ UserCreate(q, u) \/ \E n \in Names : KeyChecks(q, u, n)
  PROVE  DeletionsKnow' /\ DeletionsFinish
<1> USE DirectoryNames DEF Kept, TypeOK
<1>1. UNCHANGED <<keys, disturbed>>
  BY DEF PortOpens, PortWrites, PortAnswers, KeyAnswers, PortReads, UserCreate, KeyChecks,
    ldap, keyHistory
<1>2. \A p \in Procs \ {q} : call'[p] = call[p]
  BY DEF PortOpens, PortWrites, PortAnswers, KeyAnswers, PortReads, UserCreate, KeyChecks, Begins,
    Goes, Returns
<1>3. ~Does(q, "delete") /\ ~Does(q, "delete")'
  <2>1. CASE PortOpens(q)
    <3>1. call[q] \in [do : {"open", "write"}, user : Users, map : Maps]
      BY <2>1, CallTypes DEF PortOpens
    <3> QED
      BY <2>1, <3>1 DEF PortOpens, Goes, Does
  <2>2. CASE PortWrites(q) \/ PortAnswers(q) \/ KeyAnswers(q)
    BY <2>2 DEF PortWrites, PortAnswers, KeyAnswers, Returns, Does
  <2>3. call \in [Procs -> Calls \cup {None}]
    OBVIOUS
  <2>4. CASE \E u \in Users : PortReads(q, u) \/ \E n \in Names : KeyChecks(q, u, n)
    <3>1. ASSUME NEW c, Begins(q, c), c.do # "delete"
          PROVE  ~Does(q, "delete") /\ ~Does(q, "delete")'
      <4>1. call[q] = None /\ call'[q] = c
        BY <2>3, <3>1 DEF Begins
      <4> QED
        BY ONLY <3>1, <4>1 DEF Does
    <3>2. PICK u \in Users : PortReads(q, u) \/ \E n \in Names : KeyChecks(q, u, n)
      BY <2>4
    <3> QED
      BY ONLY <3>1, <3>2 DEF PortReads, KeyChecks
  <2>5. CASE \E u \in Users : UserCreate(q, u)
    BY <2>5 DEF UserCreate, Does
  <2> QED
    BY <2>1, <2>2, <2>4, <2>5
<1> QED
  BY <1>1, <1>2, <1>3, DeletionsUntouched DEF Deletes, DeletionsFinish, Does

(* A process that changes a key pair of the user's disturbs the deletion   *)
(* of another process.                                                     *)
LEMMA DeletionsByOther ==
  ASSUME Kept, DeletionsKnow, NEW q \in Procs, NEW v \in Users, Disturbs(q, v),
         \A u \in Users \ {v} : keys'[u] = keys[u],
         \A p \in Procs \ {q} : call'[p] = call[p]
  PROVE  /\ \A p \in Procs \ {q}, u \in Users : Deletes(p, u)' /\ u \notin disturbed' =>
              \A n \in Names : keys'[u][n] # 0 <=> n \in call'[p].left
         /\ disturbed \subseteq disturbed'
<1>1. disturbed \subseteq disturbed'
  BY DEF Disturbs
<1>2. ASSUME NEW p \in Procs \ {q}, NEW u \in Users, Deletes(p, u)', u \notin disturbed'
      PROVE  \A n \in Names : keys'[u][n] # 0 <=> n \in call'[p].left
  <2>1. Deletes(p, u) /\ u \notin disturbed
    BY <1>1, <1>2 DEF Deletes, Does
  <2>2. u # v
    BY <1>2, <2>1 DEF Disturbs, BeingDeleted, Deletes
  <2> QED
    BY <2>1, <2>2 DEF DeletionsKnow
<1> QED
  BY <1>1, <1>2

LEMMA DeletionsByKey ==
  ASSUME Kept, DeletionsKnow, NEW q \in Procs,
         KeyAdds(q) \/ \E u \in Users, n \in Names : KeyDelete(q, u, n)
  PROVE  DeletionsKnow' /\ DeletionsFinish
<1> USE DirectoryNames DEF Kept, TypeOK
<1>1. \A u \in Users : ~Deletes(q, u) /\ ~Deletes(q, u)'
  <2>1. CASE KeyAdds(q)
    <3>1. call[q] \in [do : {"add", "answer"}, pair : KeyPairs]
      BY <2>1, CallTypes DEF KeyAdds
    <3>2. call'[q] \in {[call[q] EXCEPT !.do = "answer"], None}
      BY <2>1 DEF KeyAdds, Goes, Returns
    <3> QED
      BY <2>1, <3>1, <3>2 DEF KeyAdds, Deletes, Does
  <2>2. CASE \E u \in Users, n \in Names : KeyDelete(q, u, n)
    BY <2>2 DEF KeyDelete, Deletes, Does
  <2> QED
    BY <2>1, <2>2
<1>2. \A p \in Procs \ {q} : call'[p] = call[p]
  BY DEF KeyAdds, KeyDelete, Goes, Returns
<1>3. \A p \in Procs \ {q}, u \in Users : Deletes(p, u)' <=> Deletes(p, u)
  BY <1>2 DEF Deletes, Does
<1>4. DeletionsFinish
  BY <1>1, <1>3 DEF DeletionsFinish
<1>5. CASE UNCHANGED <<keys, disturbed>>
  <2>1. \A p \in Procs, u \in Users :
          Deletes(p, u)' => Deletes(p, u) /\ call'[p].left = call[p].left
    BY ONLY <1>1, <1>2, <1>3
  <2> QED
    BY <1>4, <1>5, <2>1, DeletionsUntouched
<1>6. ASSUME NEW v \in Users, Disturbs(q, v), \A u \in Users \ {v} : keys'[u] = keys[u]
      PROVE  DeletionsKnow'
  BY <1>1, <1>2, <1>6, DeletionsByOther DEF DeletionsKnow
<1>7. CASE \E u \in Users, n \in Names : KeyDelete(q, u, n)
  BY <1>4, <1>6, <1>7 DEF KeyDelete, RemoveKey
<1>8. CASE KeyAdds(q)
  <2>1. call[q].pair.user \in Users
    BY <1>8, CallTypes DEF KeyAdds, KeyPairs
  <2>2. PICK k : k = call[q].pair
    OBVIOUS
  <2>3. \/ /\ Disturbs(q, k.user)
           /\ keys' = [keys EXCEPT ![k.user][k.name] = k.key]
        \/ UNCHANGED <<keys, disturbed>>
    BY ONLY <1>8, <2>2 DEF KeyAdds
  <2>4. \A u \in Users \ {k.user} : keys'[u] = keys[u]
    BY <2>3
  <2> QED
    BY ONLY <1>4, <1>5, <1>6, <2>1, <2>2, <2>3, <2>4
<1> QED
  BY <1>7, <1>8

LEMMA DeletionsByDeletion ==
  ASSUME Kept, DeletionsKnow, NEW q \in Procs,
         UserDeleteKey(q) \/ UserDeleteEntry(q) \/ \E u \in Users : UserDelete(q, u)
  PROVE  DeletionsKnow' /\ DeletionsFinish
<1> USE DirectoryNames DEF Kept, TypeOK
<1>1. \A p \in Procs \ {q} : call'[p] = call[p]
  BY DEF UserDeleteKey, UserDeleteEntry, UserDelete, Begins, Returns
<1>2. \A p \in Procs \ {q}, u \in Users : Deletes(p, u)' <=> Deletes(p, u)
  BY <1>1 DEF Deletes, Does
<1>3. CASE \E u \in Users : UserDelete(q, u)
  <2>1. PICK v \in Users : UserDelete(q, v)
    BY <1>3
  <2>2. /\ keys' = keys /\ call[q] = None
        /\ call'[q] = [do |-> "delete", user |-> v, left |-> {n \in Names : keys[v][n] # 0}]
        /\ \A u \in Users \ {v} : u \in disturbed' <=> u \in disturbed
        /\ v \notin disturbed' => ~BeingDeleted(q, v)
    BY <2>1 DEF UserDelete, Begins, ldap
  <2>3. DeletionsFinish
    BY <1>2, <2>2 DEF DeletionsFinish, Deletes, Does
  <2>4. ASSUME NEW p \in Procs, NEW u \in Users, Deletes(p, u)', u \notin disturbed'
        PROVE  \A n \in Names : keys'[u][n] # 0 <=> n \in call'[p].left
    <3>1. CASE p = q
      BY <2>2, <2>4, <3>1 DEF Deletes
    <3>2. CASE p # q
      <4>1. u # v
        BY <1>2, <2>2, <2>4, <3>2 DEF BeingDeleted, Deletes
      <4> QED
        BY <1>1, <1>2, <2>2, <2>4, <3>2, <4>1 DEF DeletionsKnow
    <3> QED
      BY <3>1, <3>2
  <2> QED
    BY <2>3, <2>4 DEF DeletionsKnow
<1>4. CASE UserDeleteEntry(q)
  <2>1. PICK v \in Users : v = call[q].user /\ Deletes(q, v)
    BY <1>4, CallTypes DEF UserDeleteEntry, Deletes
  <2>2. UNCHANGED <<keys, disturbed>> /\ call'[q] = None /\ call[q].left = {}
    BY <1>4 DEF UserDeleteEntry, Returns, keyHistory
  <2>3. v \notin disturbed => v \notin users'
    <3>1. v \notin disturbed => \A n \in Names : keys[v][n] = 0
      BY <2>1, <2>2 DEF DeletionsKnow
    <3> QED
      BY <1>4, <2>1, <3>1 DEF UserDeleteEntry
  <2>4. \A u \in Users : Deletes(q, u) => u = v
    BY <2>1 DEF Deletes
  <2>5. DeletionsFinish
    BY <1>2, <2>2, <2>3, <2>4 DEF DeletionsFinish
  <2>6. DeletionsKnow'
    BY <1>1, <1>2, <2>2, DeletionsUntouched DEF Deletes, Does
  <2> QED
    BY <2>5, <2>6
<1>5. CASE UserDeleteKey(q)
  <2>1. PICK v \in Users : v = call[q].user /\ Deletes(q, v)
    BY <1>5, CallTypes DEF UserDeleteKey, Deletes
  <2>2. PICK n \in call[q].left :
          IF keys[v][n] # 0
          THEN /\ RemoveKey(v, n) /\ Disturbs(q, v)
               /\ call' = [call EXCEPT ![q].left = @ \ {n}]
          ELSE Returns(q) /\ UNCHANGED <<keys, removed, disturbed>>
    BY <1>5, <2>1 DEF UserDeleteKey
  <2>3. n \in Names
    BY <1>5, CallTypes DEF UserDeleteKey
  <2>4. \A u \in Users : Deletes(q, u) => u = v
    BY <2>1 DEF Deletes
  <2>5. CASE keys[v][n] = 0
    <3>1. v \in disturbed
      BY <2>1, <2>2, <2>3, <2>5 DEF DeletionsKnow
    <3>2. UNCHANGED <<keys, disturbed>> /\ call'[q] = None
      BY <2>2, <2>5 DEF Returns
    <3>3. DeletionsFinish
      BY <1>2, <2>4, <3>1, <3>2 DEF DeletionsFinish
    <3>4. DeletionsKnow'
      BY <1>1, <1>2, <3>2, DeletionsUntouched DEF Deletes, Does
    <3> QED
      BY <3>3, <3>4
  <2>6. CASE keys[v][n] # 0
    <3>1. /\ keys' = [keys EXCEPT ![v][n] = 0] /\ Disturbs(q, v)
          /\ call' = [call EXCEPT ![q].left = @ \ {n}]
      BY <2>2, <2>6 DEF RemoveKey
    <3>2. call'[q] = [call[q] EXCEPT !.left = @ \ {n}] /\ \A u \in Users \ {v} : keys'[u] = keys[u]
      BY <3>1
    <3>3. call'[q] \in [do : {"delete"}, user : Users, left : SUBSET Names]
          /\ call'[q].user = v /\ call'[q].left = call[q].left \ {n}
      <4>1. call[q] \in [do : {"delete"}, user : Users, left : SUBSET Names]
        BY <2>1, CallTypes DEF Deletes
      <4> QED
        BY <2>1, <3>2, <4>1
    <3>4. \A u \in Users : Deletes(q, u)' <=> u = v
      BY <3>3 DEF Deletes, Does, Calls
    <3>5. DeletionsFinish
      BY <1>2, <2>4, <3>4 DEF DeletionsFinish
    <3>6. ASSUME NEW p \in Procs, NEW u \in Users, Deletes(p, u)', u \notin disturbed'
          PROVE  \A m \in Names : keys'[u][m] # 0 <=> m \in call'[p].left
      <4>1. CASE p = q
        <5>1. u = v /\ v \notin disturbed
          BY <3>1, <3>4, <3>6, <4>1 DEF Disturbs
        <5>2. \A m \in Names : keys[v][m] # 0 <=> m \in call[q].left
          BY <2>1, <5>1 DEF DeletionsKnow
        <5>3. \A m \in Names : keys'[v][m] = IF m = n THEN 0 ELSE keys[v][m]
          BY <2>3, <3>1
        <5> QED
          BY <3>3, <4>1, <5>1, <5>2, <5>3
      <4>2. CASE p # q
        BY <1>1, <3>1, <3>2, <3>6, <4>2, DeletionsByOther
      <4> QED
        BY <4>1, <4>2
    <3> QED
      BY <3>5, <3>6 DEF DeletionsKnow
  <2> QED
    BY <2>5, <2>6
<1> QED
  BY <1>3, <1>4, <1>5

LEMMA DeletionsByDie ==
  ASSUME Kept, DeletionsKnow, NEW q \in Procs, Die(q)
  PROVE  DeletionsKnow' /\ DeletionsFinish
<1> USE DirectoryNames DEF Kept, TypeOK
<1>1. /\ keys' = keys /\ disturbed \subseteq disturbed' /\ call' = [call EXCEPT ![q] = None]
      /\ Does(q, "delete") => call[q].user \in disturbed'
  BY DEF Die, Returns, ldap
<1>2. \A p \in Procs, u \in Users :
        Deletes(p, u)' => p # q /\ Deletes(p, u) /\ call'[p] = call[p]
  BY <1>1 DEF Deletes, Does
<1>3. DeletionsKnow'
  BY <1>1, <1>2 DEF DeletionsKnow
<1>4. DeletionsFinish
  BY <1>1 DEF DeletionsFinish, Deletes, Does
<1> QED
  BY <1>3, <1>4

LEMMA DeletionsByNext == Kept /\ DeletionsKnow /\ [Next]_vars => DeletionsKnow' /\ DeletionsFinish
<1> SUFFICES ASSUME Kept, DeletionsKnow, [Next]_vars PROVE DeletionsKnow' /\ DeletionsFinish
  OBVIOUS
<1>1. CASE UNCHANGED vars
  <2>1. UNCHANGED <<keys, disturbed, call>>
    BY <1>1 DEF vars, ldap, keyHistory
  <2> QED
    BY <2>1, DeletionsUntouched DEF DeletionsFinish, Deletes, Does
<1> QED
  BY <1>1, DeletionsByCall, DeletionsByKey, DeletionsByDeletion, DeletionsByDie DEF Next, Runs

(* The call that deletes a user ends with the user gone, unless another    *)
(* caller added or deleted a key pair of the user's meanwhile or the       *)
(* process died: it neither stops at a key pair nor leaves one behind.     *)
THEOREM DeletionsAreWhole == Spec => [][DeletionsFinish]_vars
<1>1. Init => DeletionsKnow
  BY DEF Init, DeletionsKnow, Deletes, Does
<1>2. Spec => []DeletionsKnow
  BY <1>1, AlwaysKept, DeletionsByNext, PTL DEF Spec
<1> QED
  BY <1>2, AlwaysKept, DeletionsByNext, PTL DEF Spec
===============================================================================
