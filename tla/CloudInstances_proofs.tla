------------------------ MODULE CloudInstances_proofs ------------------------
(* Proofs about CloudInstances: its listing implements InstanceRegistry,    *)
(* for any number of instances, nodes, crashes, delayed reports and run     *)
(* messages that come back.                                                 *)
EXTENDS CloudInstances, TLAPS, SequenceTheorems, FiniteSetTheorems

(* Whatever mentions an instance and a node mentions the node that took    *)
(* its run message, unless the instance may be on two.                     *)
Homes ==
  /\ \A n \in Nodes, i \in Ids \ twice :
       /\ table[n][i] # None => ran[i] = n
       /\ view[n][i] # None => ran[i] = n
       /\ i \in domains[n] \cup building[n] => ran[i] = n
  /\ \A k \in DOMAIN cloudq : \A i \in Ids \ twice :
       cloudq[k].items[i] # None => ran[i] = cloudq[k].node
  /\ \A n \in Nodes : \A k \in DOMAIN nodeq[n] :
       nodeq[n][k] \in twice \/ ran[nodeq[n][k]] = n

(* A run message is out at most once, for an instance that no node has.    *)
Queued ==
  /\ \A k \in DOMAIN runq :
       runq[k] \in used /\ (runq[k] \in twice \/ ran[runq[k]] = None)
  /\ \A j, k \in DOMAIN runq : runq[j] = runq[k] => j = k

(* The controller has not heard of the instance from a node.               *)
Unheard(i) ==
  /\ \A n \in Nodes : view[n][i] = None /\ \A k \in DOMAIN nodeq[n] : nodeq[n][k] # i
  /\ \A k \in DOMAIN cloudq : cloudq[k].items[i] = None

(* What a node has not acknowledged is with that node only, which has not  *)
(* told anybody.                                                           *)
Held ==
  \A n \in Nodes : unacked[n] # None =>
    /\ unacked[n] \in used
    /\ \A k \in DOMAIN runq : runq[k] # unacked[n]
    /\ \A m \in Nodes : unacked[m] = unacked[n] => m = n
    /\ unacked[n] \in twice \/ (ran[unacked[n]] = n /\ Unheard(unacked[n]))

(* An id that was not given out is nowhere.                                *)
Known == \A i \in Ids : i \notin used => i \notin pending /\ ran[i] = None

Placed == TypeOK /\ Homes /\ Queued /\ Held /\ Known

(* A reservation is a sequence of distinct ids.                            *)
LEMMA ReservationSeq ==
  ASSUME NEW s \in Reservations
  PROVE  /\ s \in Seq(Ids)
         /\ \A j, k \in DOMAIN s : s[j] = s[k] => j = k
<1>1. CASE \E i \in Ids : s = <<i>>
  BY <1>1
<1>2. CASE s \in Ids \X Ids /\ s[1] # s[2]
  <2>1. PICK i, j \in Ids : s = <<i, j>>
    BY <1>2
  <2>2. QED
    BY <1>2, <2>1
<1>3. QED
  BY <1>1, <1>2 DEF Reservations

(* What appending a reservation to the queue does.                         *)
LEMMA ReservationQueued ==
  ASSUME NEW s \in Reservations, NEW q \in Seq(Ids)
  PROVE  /\ q \o s \in Seq(Ids)
         /\ DOMAIN (q \o s) = 1 .. (Len(q) + Len(s))
         /\ \A k \in DOMAIN (q \o s) :
              \/ k \in DOMAIN q /\ (q \o s)[k] = q[k]
              \/ k - Len(q) \in DOMAIN s /\ (q \o s)[k] = s[k - Len(q)]
<1>1. s \in Seq(Ids)
  BY ReservationSeq
<1>2. QED
  BY <1>1, ConcatProperties

(* What the head and the tail of a queue are.                              *)
LEMMA QueueTaken ==
  ASSUME NEW S, NEW q \in Seq(S), q # <<>>
  PROVE  /\ Head(q) \in S /\ Head(q) = q[1] /\ 1 \in DOMAIN q
         /\ Len(Tail(q)) = Len(q) - 1 /\ DOMAIN Tail(q) \subseteq Nat
         /\ \A k \in DOMAIN Tail(q) :
              k + 1 \in DOMAIN q /\ 1 < k + 1 /\ Tail(q)[k] = q[k + 1]
<1>1. /\ Head(q) \in S /\ Tail(q) \in Seq(S) /\ Len(Tail(q)) = Len(q) - 1
      /\ \A k \in 1 .. Len(Tail(q)) : Tail(q)[k] = q[k + 1]
  BY HeadTailProperties
<1>2. Head(q) = q[1] /\ 1 \in DOMAIN q
  OBVIOUS
<1>3. QED
  BY <1>1, <1>2

(* The queue's next instance is not met again.                             *)
LEMMA TailKeepsQueued ==
  ASSUME NEW q \in Seq(Ids), q # <<>>,
         \A j, k \in DOMAIN q : q[j] = q[k] => j = k
  PROVE  /\ \A k \in DOMAIN Tail(q) : /\ Tail(q)[k] \in Ids /\ Tail(q)[k] # Head(q)
                                      /\ k + 1 \in DOMAIN q /\ Tail(q)[k] = q[k + 1]
         /\ \A j, k \in DOMAIN Tail(q) : Tail(q)[j] = Tail(q)[k] => j = k
<1>1. /\ Head(q) = q[1] /\ 1 \in DOMAIN q /\ DOMAIN Tail(q) \subseteq Nat
      /\ \A k \in DOMAIN Tail(q) : k + 1 \in DOMAIN q /\ 1 < k + 1 /\ Tail(q)[k] = q[k + 1]
  BY QueueTaken
<1>2. \A k \in DOMAIN q : q[k] \in Ids
  OBVIOUS
<1>3. \A k \in DOMAIN Tail(q) : q[k + 1] # q[1]
  BY <1>1
<1>4. \A j, k \in DOMAIN Tail(q) : j + 1 = k + 1 => j = k
  BY <1>1
<1> QED
  BY <1>1, <1>2, <1>3, <1>4

LEMMA InitPlaced == Init => Placed
<1> SUFFICES ASSUME Init PROVE Placed
  OBVIOUS
<1> USE CloudNames DEF Init
<1>1. TypeOK
  <2>1. /\ runq \in Seq(Ids) /\ cloudq \in Seq(Reports)
        /\ nodeq \in [Nodes -> Seq(Ids)]
    BY EmptySeq
  <2>2. view \in [Nodes -> Tables] /\ table \in [Nodes -> Tables]
    BY DEF Tables, NoInstances
  <2>3. QED
    BY <2>1, <2>2 DEF TypeOK
<1>2. Homes
  BY DEF Homes, NoInstances
<1>3. Queued /\ Held /\ Known
  BY DEF Queued, Held, Known
<1>4. QED
  BY <1>1, <1>2, <1>3 DEF Placed

(* What is not on record, or on its way to a node, nobody has heard of.    *)
LEMMA QueuedUnheard ==
  ASSUME Placed, NEW i \in Ids \ twice, ran[i] = None
  PROVE  Unheard(i) /\ \A n \in Nodes : table[n][i] = None /\ i \notin domains[n] \cup building[n]
<1>1. \A n \in Nodes : ran[i] # n
  BY CloudNames
<1>2. \A k \in DOMAIN cloudq : cloudq[k].node \in Nodes
  <2>1. cloudq \in Seq(Reports)
    BY DEF Placed, TypeOK
  <2>2. \A k \in DOMAIN cloudq : cloudq[k] \in Reports
    BY ONLY <2>1
  <2> QED
    BY ONLY <2>2 DEF Reports
<1>3. Homes /\ i \in Ids \ twice
  BY DEF Placed
<1> QED
  BY ONLY <1>1, <1>2, <1>3, ran[i] = None DEF Homes, Unheard

(* A node takes a run message.                                             *)
LEMMA RunTaken ==
  ASSUME Placed, NEW n \in Nodes, TakesRun(n)
  PROVE  LET a == Head(runq)
         IN  /\ a \in Ids \cap used /\ a = runq[1] /\ 1 \in DOMAIN runq
             /\ a \in twice \/ ran[a] = None
             /\ \A m \in Nodes : unacked[m] # a
             /\ n \in up /\ unacked[n] = None
             /\ runq' \in Seq(Ids)
             /\ \A k \in DOMAIN runq' : /\ runq'[k] # a /\ k + 1 \in DOMAIN runq
                                        /\ runq'[k] = runq[k + 1]
             /\ \A j, k \in DOMAIN runq' : runq'[j] = runq'[k] => j = k
             /\ unacked' \in [Nodes -> Ids \cup {None}] /\ ran' \in [Ids -> Nodes \cup {None}]
             /\ \A m \in Nodes : unacked'[m] = IF m = n THEN a ELSE unacked[m]
             /\ \A i \in Ids : ran'[i] = IF i = a THEN n ELSE ran[i]
<1> DEFINE a == Head(runq)
<1>1. /\ runq \in Seq(Ids) /\ runq # <<>> /\ runq' = Tail(runq) /\ Free(n)
      /\ unacked' = [unacked EXCEPT ![n] = a] /\ ran' = [ran EXCEPT ![a] = n]
      /\ unacked \in [Nodes -> Ids \cup {None}] /\ ran \in [Ids -> Nodes \cup {None}]
  BY DEF TakesRun, Placed, TypeOK
<1>2. a \in Ids /\ a = runq[1] /\ 1 \in DOMAIN runq /\ runq' \in Seq(Ids)
  BY <1>1, QueueTaken, HeadTailProperties
<1>3. a \in used /\ (a \in twice \/ ran[a] = None)
  BY <1>2 DEF Placed, Queued
<1>4. \A m \in Nodes : unacked[m] # a
  BY <1>2, CloudNames DEF Placed, Held
<1>5. /\ \A k \in DOMAIN runq' : /\ runq'[k] # a /\ k + 1 \in DOMAIN runq
                                 /\ runq'[k] = runq[k + 1]
      /\ \A j, k \in DOMAIN runq' : runq'[j] = runq'[k] => j = k
  BY ONLY <1>1, Placed, TailKeepsQueued DEF Placed, Queued
<1>6. n \in up /\ unacked[n] = None
  BY <1>1 DEF Free
<1> HIDE DEF a
<1>7. /\ unacked' \in [Nodes -> Ids \cup {None}] /\ ran' \in [Ids -> Nodes \cup {None}]
      /\ \A m \in Nodes : unacked'[m] = IF m = n THEN a ELSE unacked[m]
      /\ \A i \in Ids : ran'[i] = IF i = a THEN n ELSE ran[i]
  BY ONLY <1>1, <1>2, n \in Nodes
<1> QED
  BY <1>2, <1>3, <1>4, <1>5, <1>6, <1>7 DEF a

(* A node dies.                                                            *)
LEMMA Crashed ==
  ASSUME Placed, NEW n \in Nodes, CrashNode(n)
  PROVE  LET b == unacked[n]
         IN  /\ n \in up /\ up' = up \ {n}
             /\ domains' \in [Nodes -> SUBSET Ids]
             /\ \A m \in Nodes :
                  /\ table'[m] = IF m = n THEN NoInstances ELSE table[m]
                  /\ domains'[m] \subseteq domains[m] /\ (m # n => domains'[m] = domains[m])
                  /\ building'[m] = IF m = n THEN {} ELSE building[m]
                  /\ dying'[m] = IF m = n THEN {} ELSE dying[m]
                  /\ unacked'[m] = IF m = n THEN None ELSE unacked[m]
             /\ twice \subseteq twice' /\ twice' \subseteq twice \cup ({b} \ {None})
             /\ b \in domains'[n] => b \in twice'
             /\ b # None /\ b \notin domains'[n] /\ b \notin twice => b \notin twice'
             /\ ran' \in [Ids -> Nodes \cup {None}]
             /\ \A i \in Ids : ran'[i] = IF i = b /\ i \notin twice' THEN None ELSE ran[i]
             /\ runq' \in Seq(Ids) /\ \A k \in DOMAIN runq : k \in DOMAIN runq' /\ runq'[k] = runq[k]
             /\ \A k \in DOMAIN runq' : \/ k \in DOMAIN runq
                                        \/ b # None /\ k = Len(runq) + 1 /\ runq'[k] = b
             /\ b # None => Len(runq) + 1 \in DOMAIN runq' /\ runq'[Len(runq) + 1] = b
             /\ failed' = (failed \cup (Has(table[n]) \ domains'[n])) \ {b}
<1> DEFINE b == unacked[n]
<1>1. TypeOK
  BY DEF Placed
<1>2. Back(n) = {b} \ {None} /\ b \in Ids \cup {None}
  BY <1>1 DEF Back, TypeOK
<1>3. domains' = domains \/ domains' = [domains EXCEPT ![n] = {}]
  BY DEF CrashNode
<1>4. /\ domains' \in [Nodes -> SUBSET Ids]
      /\ \A m \in Nodes : domains'[m] \subseteq domains[m] /\ (m # n => domains'[m] = domains[m])
  BY ONLY <1>1, <1>3, n \in Nodes DEF TypeOK
<1>5. /\ n \in up /\ up' = up \ {n}
      /\ table' = [table EXCEPT ![n] = NoInstances]
      /\ building' = [building EXCEPT ![n] = {}] /\ dying' = [dying EXCEPT ![n] = {}]
      /\ unacked' = [unacked EXCEPT ![n] = None]
      /\ twice' = twice \cup (Back(n) \cap domains'[n])
      /\ ran' = [i \in Ids |-> IF i \in Back(n) \ twice' THEN None ELSE ran[i]]
      /\ failed' = (failed \cup (Has(table[n]) \ domains'[n])) \ Back(n)
      /\ runq' = IF b = None THEN runq ELSE Append(runq, b)
  BY DEF CrashNode
<1>6. \A m \in Nodes :
        /\ table'[m] = IF m = n THEN NoInstances ELSE table[m]
        /\ building'[m] = IF m = n THEN {} ELSE building[m]
        /\ dying'[m] = IF m = n THEN {} ELSE dying[m]
        /\ unacked'[m] = IF m = n THEN None ELSE unacked[m]
  BY ONLY <1>1, <1>5, n \in Nodes DEF TypeOK
<1> HIDE DEF b
<1>7. /\ twice \subseteq twice' /\ twice' \subseteq twice \cup ({b} \ {None})
      /\ b \in domains'[n] => b \in twice'
      /\ b # None /\ b \notin domains'[n] /\ b \notin twice => b \notin twice'
  <2>1. None \notin domains'[n]
    BY ONLY <1>4, CloudNames, n \in Nodes
  <2> QED
    BY ONLY <1>2, <1>5, <2>1
<1>8. /\ ran' \in [Ids -> Nodes \cup {None}]
      /\ \A i \in Ids : ran'[i] = IF i = b /\ i \notin twice' THEN None ELSE ran[i]
  <2>1. ran \in [Ids -> Nodes \cup {None}]
    BY <1>1 DEF TypeOK
  <2>2. \A i \in Ids : ran'[i] = IF i \in Back(n) \ twice' THEN None ELSE ran[i]
    BY <1>5
  <2>3. \A i \in Ids : i \in Back(n) \ twice' <=> i = b /\ i \notin twice'
    BY <1>2, CloudNames
  <2>4. ran' \in [Ids -> Nodes \cup {None}]
    BY ONLY <1>5, <2>1
  <2> QED
    BY ONLY <2>2, <2>3, <2>4
<1>9. /\ runq' \in Seq(Ids) /\ \A k \in DOMAIN runq : k \in DOMAIN runq' /\ runq'[k] = runq[k]
      /\ \A k \in DOMAIN runq' : \/ k \in DOMAIN runq
                                 \/ b # None /\ k = Len(runq) + 1 /\ runq'[k] = b
      /\ b # None => Len(runq) + 1 \in DOMAIN runq' /\ runq'[Len(runq) + 1] = b
  <2>1. runq \in Seq(Ids)
    BY <1>1 DEF TypeOK
  <2>2. CASE b = None
    BY ONLY <1>5, <2>1, <2>2
  <2>3. CASE b # None
    <3>1. b \in Ids /\ runq' = Append(runq, b)
      BY ONLY <1>2, <1>5, <2>3
    <3> QED
      BY ONLY <2>1, <2>3, <3>1
  <2> QED
    BY <2>2, <2>3
<1>10. failed' = (failed \cup (Has(table[n]) \ domains'[n])) \ {b}
  <2>1. None \notin failed /\ None \notin Has(table[n])
    BY <1>1, CloudNames DEF TypeOK, Has
  <2> QED
    BY ONLY <1>2, <1>5, <2>1
<1> QED
  BY <1>4, <1>5, <1>6, <1>7, <1>8, <1>9, <1>10 DEF b

LEMMA NextPlaced == Placed /\ [Next]_vars => Placed'
<1> SUFFICES ASSUME Placed, [Next]_vars PROVE Placed'
  OBVIOUS
<1> USE CloudNames, CloudParameters DEF TypeOK, Homes, Queued, Held, Unheard, Known, Placed, Tables, States, Reports, NoInstances, cloud, queues, nodes, history
<1>1. CASE \E s \in Reservations : RunInstances(s)
  <2>1. TypeOK'
    <3>1. PICK s \in Reservations : RunInstances(s)
      BY <1>1
    <3>2. s \in Seq(Ids) /\ runq \o s \in Seq(Ids)
      BY ReservationSeq, ReservationQueued
    <3>3. {s[k] : k \in DOMAIN s} \subseteq Ids
      BY <3>2
    <3>4. QED
      BY <3>1, <3>2, <3>3 DEF RunInstances
  <2>2. Homes'
    BY <1>1 DEF RunInstances, Fresh
  <2>3. Queued'
    <3>1. PICK s \in Reservations : RunInstances(s)
      BY <1>1
    <3> DEFINE q == runq \o s
    <3>2. /\ \A j, k \in DOMAIN s : s[j] = s[k] => j = k
          /\ s \in Seq(Ids)
          /\ \A k \in DOMAIN s : s[k] \in Ids \ used
      BY <3>1, ReservationSeq DEF RunInstances, Fresh
    <3>3. /\ DOMAIN q = 1 .. (Len(runq) + Len(s))
          /\ \A k \in DOMAIN q :
               \/ k \in DOMAIN runq /\ q[k] = runq[k]
               \/ k - Len(runq) \in DOMAIN s /\ q[k] = s[k - Len(runq)]
      BY ReservationQueued
    <3>4. /\ runq' = q /\ used' = used \cup {s[k] : k \in DOMAIN s}
          /\ UNCHANGED <<ran, twice>>
      BY <3>1 DEF RunInstances
    <3>5. \A k \in DOMAIN q : q[k] \in used' /\ (q[k] \in twice \/ ran[q[k]] = None)
      BY <3>2, <3>3, <3>4
    <3>6. \A j, k \in DOMAIN q : q[j] = q[k] => j = k
      BY <3>2, <3>3
    <3>7. QED
      BY <3>4, <3>5, <3>6
  <2>4. Held'
    <3>1. PICK s \in Reservations : RunInstances(s)
      BY <1>1
    <3>2. \A k \in DOMAIN s : s[k] \in Ids \ used
      BY <3>1, ReservationSeq DEF RunInstances, Fresh
    <3>3. \A k \in DOMAIN (runq \o s) :
             \/ k \in DOMAIN runq /\ (runq \o s)[k] = runq[k]
             \/ k - Len(runq) \in DOMAIN s /\ (runq \o s)[k] = s[k - Len(runq)]
      BY ReservationQueued
    <3>4. /\ runq' = runq \o s /\ used \subseteq used'
          /\ UNCHANGED <<unacked, ran, twice, view, nodeq, cloudq>>
      BY <3>1 DEF RunInstances
    <3>5. \A n \in Nodes : unacked[n] # None => \A k \in DOMAIN runq' : runq'[k] # unacked[n]
      BY ONLY <3>2, <3>3, <3>4, Held DEF Held
    <3> QED
      BY ONLY <3>4, <3>5, Held DEF Held, Unheard
  <2>5. Known'
    BY <1>1 DEF RunInstances, Fresh
  <2> QED
    BY <2>1, <2>2, <2>3, <2>4, <2>5
<1>2. CASE \E s \in Reservations : RunInstancesFails(s)
  <2>1. TypeOK'
    <3>1. PICK s \in Reservations : RunInstancesFails(s)
      BY <1>2
    <3>2. s \in Seq(Ids) /\ runq \o s \in Seq(Ids)
      BY ReservationSeq, ReservationQueued
    <3>3. {s[k] : k \in DOMAIN s} \subseteq Ids
      BY <3>2
    <3>4. QED
      BY <3>1, <3>2, <3>3 DEF RunInstancesFails
  <2>2. Homes'
    BY <1>2 DEF RunInstancesFails, Fresh
  <2>3. Queued'
    <3>1. PICK s \in Reservations : RunInstancesFails(s)
      BY <1>2
    <3> DEFINE q == runq \o s
    <3>2. /\ \A j, k \in DOMAIN s : s[j] = s[k] => j = k
          /\ s \in Seq(Ids)
          /\ \A k \in DOMAIN s : s[k] \in Ids \ used
      BY <3>1, ReservationSeq DEF RunInstancesFails, Fresh
    <3>3. /\ DOMAIN q = 1 .. (Len(runq) + Len(s))
          /\ \A k \in DOMAIN q :
               \/ k \in DOMAIN runq /\ q[k] = runq[k]
               \/ k - Len(runq) \in DOMAIN s /\ q[k] = s[k - Len(runq)]
      BY ReservationQueued
    <3>4. /\ runq' = q /\ used' = used \cup {s[k] : k \in DOMAIN s}
          /\ UNCHANGED <<ran, twice>>
      BY <3>1 DEF RunInstancesFails
    <3>5. \A k \in DOMAIN q : q[k] \in used' /\ (q[k] \in twice \/ ran[q[k]] = None)
      BY <3>2, <3>3, <3>4
    <3>6. \A j, k \in DOMAIN q : q[j] = q[k] => j = k
      BY <3>2, <3>3
    <3>7. QED
      BY <3>4, <3>5, <3>6
  <2>4. Held'
    <3>1. PICK s \in Reservations : RunInstancesFails(s)
      BY <1>2
    <3>2. \A k \in DOMAIN s : s[k] \in Ids \ used
      BY <3>1, ReservationSeq DEF RunInstancesFails, Fresh
    <3>3. \A k \in DOMAIN (runq \o s) :
             \/ k \in DOMAIN runq /\ (runq \o s)[k] = runq[k]
             \/ k - Len(runq) \in DOMAIN s /\ (runq \o s)[k] = s[k - Len(runq)]
      BY ReservationQueued
    <3>4. /\ runq' = runq \o s /\ used \subseteq used'
          /\ UNCHANGED <<unacked, ran, twice, view, nodeq, cloudq>>
      BY <3>1 DEF RunInstancesFails
    <3>5. \A n \in Nodes : unacked[n] # None => \A k \in DOMAIN runq' : runq'[k] # unacked[n]
      BY ONLY <3>2, <3>3, <3>4, Held DEF Held
    <3> QED
      BY ONLY <3>4, <3>5, Held DEF Held, Unheard
  <2>5. Known'
    BY <1>2 DEF RunInstancesFails, Fresh
  <2> QED
    BY <2>1, <2>2, <2>3, <2>4, <2>5
<1>3. CASE \E u \in Users : EnsureVpn(u)
  <2>1. TypeOK'
    BY <1>3 DEF EnsureVpn, Fresh
  <2>2. Homes'
    BY <1>3 DEF EnsureVpn, Fresh
  <2>3. Queued'
    BY <1>3 DEF EnsureVpn, Fresh
  <2>4. Held'
    BY <1>3 DEF EnsureVpn, Fresh
  <2>5. Known'
    BY <1>3 DEF EnsureVpn, Fresh
  <2> QED
    BY <2>1, <2>2, <2>3, <2>4, <2>5
<1>4. CASE \E i \in Ids : Terminate(i)
  <2>1. TypeOK'
    BY <1>4 DEF Terminate
  <2>2. Homes'
    BY <1>4 DEF Terminate
  <2>3. Queued'
    BY <1>4 DEF Terminate
  <2>4. Held'
    <3>1. PICK i \in Ids, n \in Nodes : /\ view[n][i] # None
                                        /\ nodeq' = [nodeq EXCEPT ![n] = Append(@, i)]
      BY <1>4 DEF Terminate
    <3>2. UNCHANGED <<used, runq, unacked, twice, ran, view, cloudq>>
      BY <1>4 DEF Terminate
    <3>3. \A m \in Nodes : \A k \in DOMAIN nodeq'[m] :
            \/ k \in DOMAIN nodeq[m] /\ nodeq'[m][k] = nodeq[m][k]
            \/ nodeq'[m][k] = i
      BY <3>1
    <3> QED
      BY ONLY <3>1, <3>2, <3>3, Held DEF Held, Unheard
  <2>5. Known'
    BY <1>4 DEF Terminate
  <2> QED
    BY <2>1, <2>2, <2>3, <2>4, <2>5
<1>5. CASE \E n \in Nodes, i \in Ids : Launch(n, i)
  <2> PICK n \in Nodes, i \in Ids : Launch(n, i)
    BY <1>5
  <2>1. UNCHANGED <<pending, view, runq, nodeq, cloudq, dying, up, unacked, used, ran,
                    orphans, failed, twice, restarted>>
    BY DEF Launch
  <2>2. i \in building[n] /\ building' = [building EXCEPT ![n] = @ \ {i}]
    BY DEF Launch
  <2>3. \/ UNCHANGED <<domains, table>>
        \/ /\ domains' = [domains EXCEPT ![n] = @ \cup {i}]
           /\ table' = [table EXCEPT ![n][i] = "RUNNING"]
    BY DEF Launch
  <2>4. /\ table' \in [Nodes -> Tables] /\ domains' \in [Nodes -> SUBSET Ids]
        /\ building' \in [Nodes -> SUBSET Ids]
    <3>1. table \in [Nodes -> [Ids -> States \cup {None}]] /\ "RUNNING" \in States
      BY ONLY TypeOK DEF TypeOK, Tables, States
    <3>2. domains \in [Nodes -> SUBSET Ids] /\ building \in [Nodes -> SUBSET Ids]
      BY ONLY TypeOK DEF TypeOK
    <3>3. building' \in [Nodes -> SUBSET Ids]
      BY ONLY <2>2, <3>2, n \in Nodes
    <3>4. CASE UNCHANGED <<domains, table>>
      BY ONLY <3>1, <3>2, <3>3, <3>4 DEF Tables
    <3>5. CASE /\ domains' = [domains EXCEPT ![n] = @ \cup {i}]
               /\ table' = [table EXCEPT ![n][i] = "RUNNING"]
      BY ONLY <3>1, <3>2, <3>3, <3>5, n \in Nodes, i \in Ids DEF Tables
    <3> QED
      BY <2>3, <3>4, <3>5
  <2>5. \A m \in Nodes, j \in Ids :
          /\ table'[m][j] # None => table[m][j] # None \/ (m = n /\ j = i)
          /\ j \in domains'[m] => j \in domains[m] \/ (m = n /\ j = i)
          /\ j \in building'[m] => j \in building[m]
    BY ONLY <2>2, <2>3, TypeOK, n \in Nodes, i \in Ids DEF TypeOK, Tables
  <2>6. TypeOK'
    BY ONLY <2>1, <2>4, TypeOK DEF TypeOK
  <2>7. Homes'
    BY ONLY <2>1, <2>2, <2>5, Homes, i \in Ids, n \in Nodes DEF Homes
  <2>8. Queued' /\ Held' /\ Known'
    BY ONLY <2>1, Queued, Held, Known DEF Queued, Held, Unheard, Known
  <2> QED
    BY <2>6, <2>7, <2>8
<1>6. CASE \E n \in Nodes, i \in Ids : Remove(n, i)
  <2>1. TypeOK'
    BY <1>6 DEF Remove
  <2>2. Homes'
    BY <1>6 DEF Remove
  <2>3. Queued'
    BY <1>6 DEF Remove
  <2>4. Held'
    BY <1>6 DEF Remove
  <2>5. Known'
    BY <1>6 DEF Remove
  <2> QED
    BY <2>1, <2>2, <2>3, <2>4, <2>5
<1>7. CASE UpdateState
  <2>1. /\ Head(cloudq) \in Reports /\ Head(cloudq) = cloudq[1] /\ 1 \in DOMAIN cloudq
        /\ cloudq' = Tail(cloudq) /\ cloudq' \in Seq(Reports)
        /\ \A k \in DOMAIN cloudq' : k + 1 \in DOMAIN cloudq /\ cloudq'[k] = cloudq[k + 1]
    <3>1. cloudq \in Seq(Reports) /\ cloudq # <<>> /\ cloudq' = Tail(cloudq)
      BY <1>7 DEF UpdateState
    <3> QED
      BY ONLY <3>1, QueueTaken, HeadTailProperties
  <2>2. TypeOK'
    BY <1>7, <2>1 DEF UpdateState, Has
  <2>3. /\ view' = [view EXCEPT ![Head(cloudq).node] = Head(cloudq).items]
        /\ UNCHANGED <<table, domains, building, nodeq, twice, ran, used, runq, unacked>>
    BY <1>7 DEF UpdateState
  <2>4. \A n \in Nodes : view'[n] = view[n] \/ (n = cloudq[1].node /\ view'[n] = cloudq[1].items)
    BY ONLY <2>1, <2>3, TypeOK DEF TypeOK
  <2>5. Homes'
    BY ONLY <2>1, <2>3, <2>4, Homes DEF Homes
  <2>6. Queued' /\ Known'
    BY <1>7, <2>3 DEF UpdateState, Has
  <2>7. Held'
    BY ONLY <2>1, <2>3, <2>4, Held DEF Held, Unheard
  <2> QED
    BY <2>2, <2>5, <2>6, <2>7
<1>8. CASE RestartCloud
  <2>1. TypeOK'
    BY <1>8 DEF RestartCloud
  <2>2. Homes'
    BY <1>8 DEF RestartCloud
  <2>3. Queued'
    BY <1>8 DEF RestartCloud
  <2>4. Held'
    BY <1>8 DEF RestartCloud
  <2>5. Known'
    BY <1>8 DEF RestartCloud
  <2> QED
    BY <2>1, <2>2, <2>3, <2>4, <2>5
<1>9. CASE \E n \in Nodes : NodeRun(n) \/ NodeRefuses(n)
  <2> PICK n \in Nodes : NodeRun(n) \/ NodeRefuses(n)
    BY <1>9
  <2> DEFINE a == Head(runq)
  <2>1. /\ a \in Ids \cap used /\ (a \in twice \/ ran[a] = None)
        /\ a = runq[1] /\ 1 \in DOMAIN runq
        /\ \A m \in Nodes : unacked[m] # a
        /\ runq' \in Seq(Ids)
        /\ \A k \in DOMAIN runq' : /\ runq'[k] # a /\ k + 1 \in DOMAIN runq
                                   /\ runq'[k] = runq[k + 1]
        /\ \A j, k \in DOMAIN runq' : runq'[j] = runq'[k] => j = k
        /\ unacked' \in [Nodes -> Ids \cup {None}] /\ ran' \in [Ids -> Nodes \cup {None}]
        /\ \A m \in Nodes : unacked'[m] = IF m = n THEN a ELSE unacked[m]
        /\ \A i \in Ids : ran'[i] = IF i = a THEN n ELSE ran[i]
    BY RunTaken DEF NodeRun, NodeRefuses
  <2>2. /\ UNCHANGED <<pending, view, nodeq, cloudq, dying, domains, up, used, orphans, twice, restarted>>
        /\ \/ /\ table' = [table EXCEPT ![n][a] = "NOSTATE"]
              /\ building' = [building EXCEPT ![n] = @ \cup {a}]
           \/ UNCHANGED <<table, building>>
        /\ failed' \subseteq failed \cup {a}
    BY DEF NodeRun, NodeRefuses
  <2>3. \/ a \in twice
        \/ /\ Unheard(a)
           /\ \A m \in Nodes : table[m][a] = None /\ a \notin domains[m] \cup building[m]
    BY <2>1, QueuedUnheard
  <2> HIDE DEF a
  <2>4. table' \in [Nodes -> Tables] /\ building' \in [Nodes -> SUBSET Ids]
    <3>1. /\ table \in [Nodes -> [Ids -> States \cup {None}]] /\ "NOSTATE" \in States
          /\ building \in [Nodes -> SUBSET Ids] /\ a \in Ids
      BY ONLY <2>1, TypeOK DEF TypeOK, Tables, States
    <3>2. CASE UNCHANGED <<table, building>>
      BY ONLY <3>1, <3>2 DEF Tables
    <3>3. CASE /\ table' = [table EXCEPT ![n][a] = "NOSTATE"]
               /\ building' = [building EXCEPT ![n] = @ \cup {a}]
      BY ONLY <3>1, <3>3, n \in Nodes DEF Tables
    <3> QED
      BY <2>2, <3>2, <3>3
  <2>5. TypeOK'
    BY ONLY <2>1, <2>2, <2>4, TypeOK DEF TypeOK
  <2>6. \A m \in Nodes, i \in Ids :
          /\ table'[m][i] # None => table[m][i] # None \/ (m = n /\ i = a)
          /\ i \in building'[m] => i \in building[m] \/ (m = n /\ i = a)
    BY ONLY <2>1, <2>2, TypeOK, n \in Nodes DEF TypeOK, Tables
  <2>7. Homes'
    BY ONLY <2>1, <2>2, <2>3, <2>6, Homes, TypeOK, n \in Nodes DEF Homes, Unheard, TypeOK
  <2>8. Queued'
    BY ONLY <2>1, <2>2, Queued, TypeOK DEF Queued, TypeOK
  <2>9. Held'
    <3>1. ASSUME NEW m \in Nodes, unacked'[m] # None
          PROVE  /\ unacked'[m] \in used
                 /\ \A k \in DOMAIN runq' : runq'[k] # unacked'[m]
                 /\ \A l \in Nodes : unacked'[l] = unacked'[m] => l = m
                 /\ unacked'[m] \in twice \/ (ran'[unacked'[m]] = m /\ Unheard(unacked'[m]))
      <4>1. CASE m = n
        BY ONLY <2>1, <2>3, <4>1, n \in Nodes
      <4>2. CASE m # n
        <5>1. unacked'[m] = unacked[m] /\ unacked[m] # None /\ unacked[m] # a
          BY ONLY <2>1, <4>2, m \in Nodes, unacked'[m] # None
        <5>2. unacked[m] \in Ids
          BY ONLY <5>1, TypeOK, m \in Nodes DEF TypeOK
        <5> QED
          BY ONLY <2>1, <5>1, <5>2, Held, m \in Nodes DEF Held
      <4> QED
        BY <4>1, <4>2
    <3>2. UNCHANGED <<view, nodeq, cloudq, used, twice>>
      BY <2>2
    <3> QED
      BY ONLY <3>1, <3>2 DEF Held, Unheard
  <2>10. Known'
    BY ONLY <2>1, <2>2, Known DEF Known
  <2> QED
    BY <2>5, <2>7, <2>8, <2>9, <2>10
<1>10. CASE \E n \in Nodes : Acknowledge(n)
  <2>1. TypeOK'
    BY <1>10 DEF Acknowledge
  <2>2. Homes'
    BY <1>10 DEF Acknowledge
  <2>3. Queued'
    BY <1>10 DEF Acknowledge
  <2>4. Held'
    BY <1>10 DEF Acknowledge
  <2>5. Known'
    BY <1>10 DEF Acknowledge
  <2> QED
    BY <2>1, <2>2, <2>3, <2>4, <2>5
<1>11. CASE \E n \in Nodes : NodeTerminate(n)
  <2> PICK n \in Nodes : NodeTerminate(n)
    BY <1>11
  <2> DEFINE a == Head(nodeq[n])
  <2>1. /\ a \in Ids /\ Tail(nodeq[n]) \in Seq(Ids)
        /\ \A k \in DOMAIN Tail(nodeq[n]) :
             k + 1 \in DOMAIN nodeq[n] /\ Tail(nodeq[n])[k] = nodeq[n][k + 1]
    BY QueueTaken, HeadTailProperties DEF NodeTerminate
  <2>2. /\ nodeq' = [nodeq EXCEPT ![n] = Tail(@)]
        /\ UNCHANGED <<pending, view, runq, cloudq, building, up, unacked, used, ran, orphans,
                       failed, twice, restarted>>
        /\ \/ UNCHANGED <<table, domains, dying>>
           \/ /\ table[n][a] # None /\ table' = [table EXCEPT ![n][a] = "SHUTDOWN"]
              /\ domains' = [domains EXCEPT ![n] = @ \ {a}]
              /\ dying' = [dying EXCEPT ![n] = @ \cup ({a} \cap domains[n])]
    BY DEF NodeTerminate
  <2> HIDE DEF a
  <2>3. nodeq' \in [Nodes -> Seq(Ids)] /\ table' \in [Nodes -> Tables]
        /\ domains' \in [Nodes -> SUBSET Ids] /\ dying' \in [Nodes -> SUBSET Ids]
    <3>1. /\ table \in [Nodes -> [Ids -> States \cup {None}]] /\ "SHUTDOWN" \in States
          /\ domains \in [Nodes -> SUBSET Ids] /\ dying \in [Nodes -> SUBSET Ids]
          /\ nodeq \in [Nodes -> Seq(Ids)] /\ a \in Ids
      BY ONLY <2>1, TypeOK DEF TypeOK, Tables, States
    <3>2. nodeq' \in [Nodes -> Seq(Ids)]
      BY ONLY <2>1, <2>2, <3>1, n \in Nodes
    <3>3. CASE UNCHANGED <<table, domains, dying>>
      BY ONLY <3>1, <3>2, <3>3 DEF Tables
    <3>4. CASE /\ table' = [table EXCEPT ![n][a] = "SHUTDOWN"]
               /\ domains' = [domains EXCEPT ![n] = @ \ {a}]
               /\ dying' = [dying EXCEPT ![n] = @ \cup ({a} \cap domains[n])]
      BY ONLY <3>1, <3>2, <3>4, n \in Nodes DEF Tables
    <3> QED
      BY <2>2, <3>3, <3>4
  <2>4. TypeOK'
    BY ONLY <2>2, <2>3, TypeOK DEF TypeOK
  <2>5. \A m \in Nodes, i \in Ids :
          /\ table'[m][i] # None => table[m][i] # None
          /\ i \in domains'[m] => i \in domains[m]
    <3>1. /\ table \in [Nodes -> [Ids -> States \cup {None}]]
          /\ domains \in [Nodes -> SUBSET Ids]
      BY ONLY TypeOK DEF TypeOK, Tables
    <3>2. CASE UNCHANGED <<table, domains>>
      BY ONLY <3>2
    <3>3. CASE /\ table[n][a] # None /\ table' = [table EXCEPT ![n][a] = "SHUTDOWN"]
               /\ domains' = [domains EXCEPT ![n] = @ \ {a}]
      BY ONLY <3>1, <3>3, <2>1, n \in Nodes
    <3> QED
      BY <2>2, <3>2, <3>3
  <2>6. \A m \in Nodes : \A k \in DOMAIN nodeq'[m] : \E j \in DOMAIN nodeq[m] :
          nodeq'[m][k] = nodeq[m][j]
    <3>1. \A m \in Nodes : nodeq'[m] = IF m = n THEN Tail(nodeq[n]) ELSE nodeq[m]
      BY ONLY <2>2, TypeOK, n \in Nodes DEF TypeOK
    <3> TAKE m \in Nodes
    <3>2. CASE m = n
      BY ONLY <2>1, <3>1, <3>2, n \in Nodes
    <3>3. CASE m # n
      BY ONLY <3>1, <3>3, m \in Nodes
    <3> QED
      BY <3>2, <3>3
  <2>7. Homes'
    BY ONLY <2>2, <2>5, <2>6, Homes DEF Homes
  <2>8. Queued' /\ Held' /\ Known'
    BY ONLY <2>2, <2>6, Queued, Held, Known DEF Queued, Held, Unheard, Known
  <2> QED
    BY <2>4, <2>7, <2>8
<1>12. CASE \E n \in Nodes : ReportState(n)
  <2>1. PICK n \in Nodes : ReportState(n)
    BY <1>12
  <2>2. /\ cloudq' = Append(cloudq, [node |-> n, items |-> table[n]]) /\ unacked[n] = None
        /\ UNCHANGED <<pending, view, runq, nodeq, table, building, dying, domains, up, unacked,
                       used, ran, orphans, failed, twice, restarted>>
    BY <2>1 DEF ReportState, Free
  <2>3. /\ cloudq \in Seq(Reports) /\ [node |-> n, items |-> table[n]] \in Reports
    OBVIOUS
  <2>4. /\ cloudq' \in Seq(Reports)
        /\ \A k \in DOMAIN cloudq' :
             \/ k \in DOMAIN cloudq /\ cloudq'[k] = cloudq[k]
             \/ cloudq'[k].node = n /\ cloudq'[k].items = table[n]
    BY ONLY <2>2, <2>3
  <2>5. TypeOK'
    BY ONLY <2>2, <2>4, TypeOK DEF TypeOK
  <2>6. Homes'
    BY ONLY <2>2, <2>4, Homes, n \in Nodes DEF Homes
  <2>7. Queued' /\ Known'
    BY ONLY <2>2, Queued, Known DEF Queued, Known
  <2>8. ASSUME NEW m \in Nodes, unacked[m] # None, unacked[m] \notin twice
        PROVE  table[n][unacked[m]] = None
    <3>1. ran[unacked[m]] = m /\ m # n /\ unacked[m] \in Ids
      BY ONLY <2>2, <2>8, Held, TypeOK DEF Held, TypeOK
    <3> QED
      BY ONLY <2>8, <3>1, Homes, n \in Nodes DEF Homes
  <2>9. Held'
    BY ONLY <2>2, <2>4, <2>8, Held DEF Held, Unheard
  <2> QED
    BY <2>5, <2>6, <2>7, <2>9
<1>13. CASE \E n \in Nodes : CrashNode(n)
  <2> PICK n \in Nodes : CrashNode(n)
    BY <1>13
  <2> DEFINE b == unacked[n]
  <2>1. /\ domains' \in [Nodes -> SUBSET Ids]
        /\ \A m \in Nodes :
             /\ table'[m] = IF m = n THEN NoInstances ELSE table[m]
             /\ domains'[m] \subseteq domains[m] /\ (m # n => domains'[m] = domains[m])
             /\ building'[m] = IF m = n THEN {} ELSE building[m]
             /\ unacked'[m] = IF m = n THEN None ELSE unacked[m]
        /\ twice \subseteq twice' /\ twice' \subseteq twice \cup ({b} \ {None})
        /\ b \in domains'[n] => b \in twice'
        /\ ran' \in [Ids -> Nodes \cup {None}]
        /\ \A i \in Ids : ran'[i] = IF i = b /\ i \notin twice' THEN None ELSE ran[i]
    BY Crashed
  <2>2. /\ runq' \in Seq(Ids) /\ \A k \in DOMAIN runq : k \in DOMAIN runq' /\ runq'[k] = runq[k]
        /\ \A k \in DOMAIN runq' : \/ k \in DOMAIN runq
                                   \/ b # None /\ k = Len(runq) + 1 /\ runq'[k] = b
    BY Crashed
  <2>3. /\ table' = [table EXCEPT ![n] = NoInstances] /\ up' = up \ {n}
        /\ building' = [building EXCEPT ![n] = {}] /\ dying' = [dying EXCEPT ![n] = {}]
        /\ unacked' = [unacked EXCEPT ![n] = None]
        /\ UNCHANGED <<pending, view, nodeq, cloudq, used, orphans, restarted>>
        /\ failed' \subseteq failed \cup Has(table[n])
    BY DEF CrashNode
  <2>4. b # None => /\ b \in Ids \cap used /\ \A k \in DOMAIN runq : runq[k] # b
                    /\ \A m \in Nodes : unacked[m] = b => m = n
                    /\ b \in twice \/ (ran[b] = n /\ Unheard(b))
    BY ONLY Held, TypeOK, n \in Nodes DEF Held, TypeOK
  <2> HIDE DEF b
  <2>5. TypeOK'
    <3>1. Has(table[n]) \subseteq used
      <4>1. \A i \in Ids \ twice : table[n][i] # None => ran[i] # None
        BY ONLY Homes, CloudNames, n \in Nodes DEF Homes
      <4> QED
        BY ONLY <4>1, TypeOK, Known, n \in Nodes DEF Has, Known, TypeOK
    <3>2. /\ table' \in [Nodes -> Tables] /\ building' \in [Nodes -> SUBSET Ids]
          /\ dying' \in [Nodes -> SUBSET Ids] /\ unacked' \in [Nodes -> Ids \cup {None}]
      BY ONLY <2>3, TypeOK, n \in Nodes DEF TypeOK, NoInstances, Tables
    <3>3. up' \subseteq Nodes /\ failed' \subseteq used' /\ twice' \subseteq used'
      BY ONLY <2>1, <2>3, <2>4, <3>1, TypeOK DEF TypeOK
    <3> QED
      BY ONLY <2>1, <2>2, <2>3, <3>2, <3>3, TypeOK DEF TypeOK
  <2>6. ASSUME NEW i \in Ids \ twice'
        PROVE  /\ i \in Ids \ twice
               /\ \A m \in Nodes : /\ table'[m][i] # None => ran'[i] = m
                                   /\ view[m][i] # None => ran'[i] = m
                                   /\ i \in domains'[m] \cup building'[m] => ran'[i] = m
               /\ \A k \in DOMAIN cloudq : cloudq[k].items[i] # None => ran'[i] = cloudq[k].node
               /\ \A m \in Nodes : \A k \in DOMAIN nodeq[m] : nodeq[m][k] = i => ran'[i] = m
    <3>1. i \in Ids \ twice
      BY <2>1
    <3>2. CASE i = b
      <4>1. i # None /\ ran[i] = n /\ Unheard(i)
        BY ONLY <2>4, <3>1, <3>2, CloudNames
      <4>2. \A m \in Nodes : table'[m][i] = None /\ i \notin domains'[m] \cup building'[m]
        <5> TAKE m \in Nodes
        <5>1. CASE m = n
          BY ONLY <2>1, <2>6, <3>1, <3>2, <5>1, n \in Nodes DEF NoInstances
        <5>2. CASE m # n
          BY ONLY <2>1, <3>1, <4>1, <5>2, m \in Nodes, Homes DEF Homes
        <5> QED
          BY <5>1, <5>2
      <4> QED
        BY ONLY <3>1, <4>1, <4>2 DEF Unheard
    <3>3. CASE i # b
      <4>1. ran'[i] = ran[i]
        BY ONLY <2>1, <3>1, <3>3
      <4>2. \A m \in Nodes : /\ table'[m][i] # None => table[m][i] # None
                             /\ i \in domains'[m] \cup building'[m] => i \in domains[m] \cup building[m]
        BY ONLY <2>1, <3>1 DEF NoInstances
      <4> QED
        BY ONLY <3>1, <4>1, <4>2, Homes DEF Homes
    <3> QED
      BY <3>2, <3>3
  <2>7. Homes'
    <3>1. \A m \in Nodes : \A k \in DOMAIN nodeq[m] : nodeq[m][k] \in Ids
      BY ONLY TypeOK DEF TypeOK
    <3> QED
      BY ONLY <2>3, <2>6, <3>1 DEF Homes
  <2>8. Queued'
    <3>1. ASSUME NEW k \in DOMAIN runq'
          PROVE  runq'[k] \in used /\ (runq'[k] \in twice' \/ ran'[runq'[k]] = None)
      <4>1. CASE k \in DOMAIN runq
        <5>1. runq'[k] = runq[k] /\ runq[k] \in Ids
          BY ONLY <2>2, <4>1, TypeOK DEF TypeOK
        <5> QED
          BY ONLY <2>1, <4>1, <5>1, Queued DEF Queued
      <4>2. CASE b # None /\ runq'[k] = b
        BY ONLY <2>1, <2>4, <4>2
      <4> QED
        BY <2>2, <4>1, <4>2
    <3>2. ASSUME NEW j \in DOMAIN runq', NEW k \in DOMAIN runq', runq'[j] = runq'[k] PROVE j = k
      BY ONLY <2>2, <2>4, <3>2, Queued DEF Queued
    <3> QED
      BY ONLY <2>3, <3>1, <3>2 DEF Queued
  <2>9. Held'
    <3>1. ASSUME NEW m \in Nodes, unacked'[m] # None
          PROVE  /\ unacked'[m] \in used
                 /\ \A k \in DOMAIN runq' : runq'[k] # unacked'[m]
                 /\ \A l \in Nodes : unacked'[l] = unacked'[m] => l = m
                 /\ unacked'[m] \in twice' \/ (ran'[unacked'[m]] = m /\ Unheard(unacked'[m]))
      <4>1. m # n /\ unacked'[m] = unacked[m] /\ unacked[m] # None /\ unacked[m] \in Ids
        BY ONLY <2>1, TypeOK, m \in Nodes, unacked'[m] # None DEF TypeOK
      <4>2. unacked[m] # b
        BY ONLY <2>4, <4>1, m \in Nodes
      <4>3. \A k \in DOMAIN runq' : runq'[k] # unacked[m]
        BY ONLY <2>2, <4>1, <4>2, Held, m \in Nodes DEF Held
      <4>4. \A l \in Nodes : unacked'[l] = unacked[m] => l = m
        BY ONLY <2>1, <4>1, Held, m \in Nodes DEF Held
      <4> QED
        BY ONLY <2>1, <4>1, <4>2, <4>3, <4>4, Held, m \in Nodes DEF Held
    <3>2. UNCHANGED <<view, nodeq, cloudq, used>>
      BY <2>3
    <3> QED
      BY ONLY <3>1, <3>2 DEF Held, Unheard
  <2>10. Known'
    BY ONLY <2>1, <2>3, Known DEF Known
  <2> QED
    BY <2>5, <2>7, <2>8, <2>9, <2>10
<1>14. CASE \E n \in Nodes : StartNode(n)
  <2>1. TypeOK'
    BY <1>14 DEF StartNode
  <2>2. Homes'
    BY <1>14 DEF StartNode
  <2>3. Queued'
    BY <1>14 DEF StartNode
  <2>4. Held'
    BY <1>14 DEF StartNode
  <2>5. Known'
    BY <1>14 DEF StartNode
  <2> QED
    BY <2>1, <2>2, <2>3, <2>4, <2>5
<1>15. CASE UNCHANGED vars
  <2>1. TypeOK'
    BY <1>15 DEF vars
  <2>2. Homes'
    BY <1>15 DEF vars
  <2>3. Queued'
    BY <1>15 DEF vars
  <2>4. Held'
    BY <1>15 DEF vars
  <2>5. Known'
    BY <1>15 DEF vars
  <2> QED
    BY <2>1, <2>2, <2>3, <2>4, <2>5
<1> QED
  BY <1>1, <1>2, <1>3, <1>4, <1>5, <1>6, <1>7, <1>8, <1>9, <1>10, <1>11, <1>12, <1>13, <1>14, <1>15 DEF Next

LEMMA AlwaysPlaced == Spec => []Placed
<1>1. QED
  BY InitPlaced, NextPlaced, PTL DEF Spec

(* A terminate message only ever goes to the node that has the instance,   *)
(* also when another one took its run message first, unless it may be on   *)
(* two nodes.                                                              *)
THEOREM TerminatesGoHome == Spec => []TerminateGoesHome
<1>1. Placed => TerminateGoesHome
  BY DEF Placed, Homes, TerminateGoesHome
<1>2. QED
  BY <1>1, AlwaysPlaced, PTL

(* The state always has its type.                                          *)
THEOREM CloudTypeCorrect == Spec => []TypeOK
<1>1. Placed => TypeOK
  BY DEF Placed
<1>2. QED
  BY <1>1, AlwaysPlaced, PTL


-----------------------------------------------------------------------------
(* What the controller sees *)

(* An id is on a node while its table or its hypervisor has it; it waits   *)
(* for one while its run message is in the queue or not acknowledged.      *)
Present(n, i) == table[n][i] # None \/ i \in domains[n]
Waiting(i) == (\E k \in DOMAIN runq : runq[k] = i) \/ \E n \in Nodes : unacked[n] = i
Live(i) == Waiting(i) \/ \E n \in Nodes : Present(n, i)

(* A node that runs has every domain in its table, a node that is down has *)
(* no table, what is being built or shut down has no domain, and a run     *)
(* message that is handled was refused or is in the table.                 *)
Hosted ==
  \A n \in Nodes, i \in Ids :
    /\ n \in up /\ i \in domains[n] => table[n][i] # None
    /\ n \notin up => table[n][i] = None
    /\ i \in building[n] \cup dying[n] => table[n][i] # None /\ i \notin domains[n]
    /\ i \notin building[n] \cap dying[n]
    /\ unacked[n] = i => i \in failed \/ table[n][i] # None

(* While an id is on a node, no report is followed by one without the id.  *)
InOrder ==
  \A n \in Nodes, i \in Ids \ twice :
    Present(n, i) =>
      /\ \A j, k \in DOMAIN cloudq :
           /\ j < k /\ cloudq[j].node = n /\ cloudq[k].node = n
           /\ cloudq[j].items[i] # None
           => cloudq[k].items[i] # None
      /\ view[n][i] # None =>
           \A k \in DOMAIN cloudq : cloudq[k].node = n => cloudq[k].items[i] # None

(* What waits for a node is pending, what is on a node is listed.          *)
Seen ==
  ~restarted =>
    \A i \in Ids \ (orphans \cup twice) :
      /\ Waiting(i) => i \in pending
      /\ \A n \in Nodes : Present(n, i) => i \in pending \/ view[n][i] # None

(* A VPN instance is neither terminated nor part of a reservation.         *)
VpnsKept ==
  \A i \in Ids : VpnOf[i] # None =>
    /\ i \notin orphans
    /\ \A n \in Nodes : table[n][i] # "SHUTDOWN" /\ view[n][i] # "SHUTDOWN"
    /\ \A k \in DOMAIN cloudq : cloudq[k].items[i] # "SHUTDOWN"
    /\ \A n \in Nodes : \A k \in DOMAIN nodeq[n] : nodeq[n][k] # i

(* One VPN instance of a user is on its way or on a node, those that may   *)
(* be on two left aside.                                                   *)
OneVpn ==
  ~restarted =>
    \A i, j \in Ids \ twice :
      VpnOf[i] # None /\ VpnOf[i] = VpnOf[j] /\ Live(i) /\ Live(j) => i = j

(* The report that the controller handles.                                 *)
LEMMA ReportTaken ==
  ASSUME TypeOK, cloudq # <<>>
  PROVE  /\ Head(cloudq) \in Reports
         /\ Head(cloudq) = cloudq[1] /\ 1 \in DOMAIN cloudq
         /\ DOMAIN Tail(cloudq) \subseteq Nat
         /\ \A k \in DOMAIN Tail(cloudq) :
              /\ k + 1 \in DOMAIN cloudq /\ 1 < k + 1
              /\ Tail(cloudq)[k] = cloudq[k + 1]
<1>1. cloudq \in Seq(Reports)
  BY DEF TypeOK
<1>2. QED
  BY <1>1, QueueTaken

(* A launch ends: its domain is there, or nothing has changed.             *)
LEMMA Launched ==
  ASSUME Placed, Hosted, NEW n \in Nodes, NEW i \in Ids, Launch(n, i)
  PROVE  /\ i \in building[n] /\ n \in up /\ i \notin dying[n] /\ table[n][i] # None
         /\ \A m \in Nodes, j \in Ids :
              /\ table'[m][j] # None <=> table[m][j] # None
              /\ j \in domains'[m] <=> j \in domains[m] \/ (m = n /\ j = i /\ i \in domains'[n])
              /\ j \in building'[m] <=> j \in building[m] /\ ~(m = n /\ j = i)
         /\ UNCHANGED <<cloud, queues, dying, up, unacked, history>>
<1>1. /\ i \in building[n] /\ building' = [building EXCEPT ![n] = @ \ {i}]
      /\ \/ UNCHANGED <<domains, table>>
         \/ /\ domains' = [domains EXCEPT ![n] = @ \cup {i}]
            /\ table' = [table EXCEPT ![n][i] = "RUNNING"]
      /\ UNCHANGED <<cloud, queues, dying, up, unacked, history>>
  BY DEF Launch
<1>2. /\ table \in [Nodes -> [Ids -> States \cup {None}]] /\ domains \in [Nodes -> SUBSET Ids]
      /\ building \in [Nodes -> SUBSET Ids]
  BY DEF Placed, TypeOK, Tables
<1>3. n \in up /\ i \notin dying[n] /\ table[n][i] # None
  BY <1>1 DEF Hosted
<1>4. \A m \in Nodes, j \in Ids : j \in building'[m] <=> j \in building[m] /\ ~(m = n /\ j = i)
  BY ONLY <1>1, <1>2, n \in Nodes, i \in Ids
<1>5. CASE UNCHANGED <<domains, table>>
  BY ONLY <1>1, <1>3, <1>4, <1>5
<1>6. CASE /\ domains' = [domains EXCEPT ![n] = @ \cup {i}]
           /\ table' = [table EXCEPT ![n][i] = "RUNNING"]
  <2>1. "RUNNING" # None
    BY CloudNames DEF States
  <2>2. \A m \in Nodes, j \in Ids :
          /\ table'[m][j] # None <=> table[m][j] # None
          /\ j \in domains'[m] <=> j \in domains[m] \/ (m = n /\ j = i /\ i \in domains'[n])
    BY ONLY <1>2, <1>3, <1>6, <2>1, n \in Nodes, i \in Ids
  <2> QED
    BY ONLY <1>1, <1>3, <1>4, <2>2
<1> QED
  BY <1>1, <1>5, <1>6

(* A node handles a terminate message.                                     *)
LEMMA Terminated ==
  ASSUME Placed, NEW n \in Nodes, NodeTerminate(n)
  PROVE  LET a == Head(nodeq[n])
         IN  /\ a \in Ids /\ a = nodeq[n][1] /\ 1 \in DOMAIN nodeq[n]
             /\ \A m \in Nodes : \A k \in DOMAIN nodeq'[m] : \E j \in DOMAIN nodeq[m] :
                  nodeq'[m][k] = nodeq[m][j]
             /\ \A m \in Nodes, j \in Ids :
                  /\ table'[m][j] # None <=> table[m][j] # None
                  /\ j # a => table'[m][j] = table[m][j]
                  /\ j \in domains'[m] => j \in domains[m]
                  /\ j \in dying'[m] =>
                       j \in dying[m] \/ (m = n /\ j = a /\ a \in domains[n] /\ a \notin domains'[n])
             /\ UNCHANGED <<cloud, runq, cloudq, building, up, unacked, history>>
<1> DEFINE a == Head(nodeq[n])
<1>1. /\ a \in Ids /\ a = nodeq[n][1] /\ 1 \in DOMAIN nodeq[n]
      /\ \A k \in DOMAIN Tail(nodeq[n]) :
           k + 1 \in DOMAIN nodeq[n] /\ Tail(nodeq[n])[k] = nodeq[n][k + 1]
  <2>1. nodeq[n] \in Seq(Ids) /\ nodeq[n] # <<>>
    BY DEF NodeTerminate, Placed, TypeOK
  <2> QED
    BY ONLY <2>1, QueueTaken
<1>2. /\ nodeq' = [nodeq EXCEPT ![n] = Tail(@)]
      /\ UNCHANGED <<cloud, runq, cloudq, building, up, unacked, history>>
      /\ \/ table[n][a] = None /\ UNCHANGED <<table, domains, dying>>
         \/ /\ table[n][a] # None /\ table' = [table EXCEPT ![n][a] = "SHUTDOWN"]
            /\ domains' = [domains EXCEPT ![n] = @ \ {a}]
            /\ dying' = [dying EXCEPT ![n] = @ \cup ({a} \cap domains[n])]
  BY DEF NodeTerminate
<1>3. /\ table \in [Nodes -> [Ids -> States \cup {None}]] /\ domains \in [Nodes -> SUBSET Ids]
      /\ dying \in [Nodes -> SUBSET Ids] /\ nodeq \in [Nodes -> Seq(Ids)] /\ "SHUTDOWN" # None
  BY CloudNames DEF Placed, TypeOK, Tables, States
<1> HIDE DEF a
<1>4. \A m \in Nodes : \A k \in DOMAIN nodeq'[m] : \E j \in DOMAIN nodeq[m] :
        nodeq'[m][k] = nodeq[m][j]
  <2>1. \A m \in Nodes : nodeq'[m] = IF m = n THEN Tail(nodeq[n]) ELSE nodeq[m]
    BY ONLY <1>2, <1>3, n \in Nodes
  <2> TAKE m \in Nodes
  <2>2. CASE m = n
    BY ONLY <1>1, <2>1, <2>2, n \in Nodes
  <2>3. CASE m # n
    BY ONLY <2>1, <2>3, m \in Nodes
  <2> QED
    BY <2>2, <2>3
<1>5. CASE UNCHANGED <<table, domains, dying>>
  BY ONLY <1>1, <1>2, <1>4, <1>5 DEF a
<1>6. CASE /\ table[n][a] # None /\ table' = [table EXCEPT ![n][a] = "SHUTDOWN"]
           /\ domains' = [domains EXCEPT ![n] = @ \ {a}]
           /\ dying' = [dying EXCEPT ![n] = @ \cup ({a} \cap domains[n])]
  <2>1. \A m \in Nodes, j \in Ids :
          /\ table'[m][j] # None <=> table[m][j] # None
          /\ j # a => table'[m][j] = table[m][j]
          /\ j \in domains'[m] => j \in domains[m]
          /\ j \in dying'[m] =>
               j \in dying[m] \/ (m = n /\ j = a /\ a \in domains[n] /\ a \notin domains'[n])
    BY ONLY <1>1, <1>3, <1>6, n \in Nodes
  <2> QED
    BY ONLY <1>1, <1>2, <1>4, <2>1 DEF a
<1> QED
  BY <1>2, <1>5, <1>6

(* A restarted node adopts its domains.                                    *)
LEMMA Started ==
  ASSUME Placed, NEW n \in Nodes, StartNode(n)
  PROVE  /\ n \notin up /\ up' = up \cup {n}
         /\ \A m \in Nodes, j \in Ids :
              table'[m][j] = IF m # n THEN table[m][j]
                             ELSE IF j \in domains[n] THEN "RUNNING" ELSE None
         /\ UNCHANGED <<cloud, queues, building, dying, domains, unacked, history>>
BY DEF StartNode, Placed, TypeOK

(* Only a run message brings an instance to a node.                        *)
LEMMA Arrivals ==
  ASSUME Placed, Hosted, [Next]_vars, NEW n \in Nodes, NEW i \in Ids, Present(n, i)'
  PROVE  Present(n, i) \/ (TakesRun(n) /\ i = Head(runq))
<1>1. CASE UNCHANGED <<table, domains>>
  BY <1>1 DEF Present
<1>2. ASSUME NEW m \in Nodes, NEW j \in Ids, Launch(m, j) PROVE Present(n, i)
  BY <1>2, Launched DEF Present
<1>3. ASSUME NEW m \in Nodes, NEW j \in Ids, Remove(m, j) PROVE Present(n, i)
  <2>1. domains' = domains /\ table' = [table EXCEPT ![m][j] = None]
    BY <1>3 DEF Remove
  <2>2. table \in [Nodes -> [Ids -> States \cup {None}]]
    BY DEF Placed, TypeOK, Tables
  <2> QED
    BY ONLY <2>1, <2>2, Present(n, i)', n \in Nodes, i \in Ids DEF Present
<1>4. ASSUME NEW m \in Nodes, NodeRun(m)
      PROVE  Present(n, i) \/ (TakesRun(n) /\ i = Head(runq))
  <2>1. /\ domains' = domains /\ table' = [table EXCEPT ![m][Head(runq)] = "NOSTATE"]
        /\ TakesRun(m)
    BY <1>4 DEF NodeRun
  <2>2. table \in [Nodes -> [Ids -> States \cup {None}]]
    BY DEF Placed, TypeOK, Tables
  <2> QED
    BY ONLY <2>1, <2>2, Present(n, i)', n \in Nodes, i \in Ids DEF Present
<1>5. ASSUME NEW m \in Nodes, NodeTerminate(m) PROVE Present(n, i)
  BY <1>5, Terminated DEF Present
<1>6. ASSUME NEW m \in Nodes, CrashNode(m) PROVE Present(n, i)
  <2>1. /\ table'[n] = IF n = m THEN NoInstances ELSE table[n]
        /\ domains'[n] \subseteq domains[n]
    BY <1>6, Crashed
  <2> QED
    BY ONLY <2>1, Present(n, i)', i \in Ids DEF Present, NoInstances
<1>7. ASSUME NEW m \in Nodes, StartNode(m) PROVE Present(n, i)
  BY <1>7, Started DEF Present
<1>8. \/ UNCHANGED <<table, domains>>
      \/ \E m \in Nodes : \/ \E j \in Ids : Launch(m, j) \/ Remove(m, j)
                          \/ NodeRun(m) \/ NodeTerminate(m) \/ CrashNode(m) \/ StartNode(m)
  BY DEF Next, vars, nodes, RunInstances, RunInstancesFails, EnsureVpn, Terminate, UpdateState,
    RestartCloud, NodeRefuses, Acknowledge, ReportState
<1> QED
  BY <1>1, <1>2, <1>3, <1>4, <1>5, <1>6, <1>7, <1>8

(* An instance begins to wait when it is requested.                        *)
LEMMA WaitingComes ==
  ASSUME Placed, [Next]_vars, NEW i \in Ids, Waiting(i)', ~Waiting(i)
  PROVE  \/ \E s \in Reservations : /\ RunInstances(s) \/ RunInstancesFails(s)
                                    /\ \E k \in DOMAIN s : i = s[k]
         \/ \E u \in Users : EnsureVpn(u) /\ i \in pending' /\ i \in Fresh(u)
<1>1. ASSUME UNCHANGED <<runq, unacked>> PROVE FALSE
  BY ONLY <1>1, Waiting(i)', ~Waiting(i) DEF Waiting
<1>2. ASSUME NEW s \in Reservations, RunInstances(s) \/ RunInstancesFails(s)
      PROVE  \E k \in DOMAIN s : i = s[k]
  <2>1. runq' = runq \o s /\ unacked' = unacked /\ runq \in Seq(Ids)
    BY <1>2 DEF RunInstances, RunInstancesFails, nodes, Placed, TypeOK
  <2>2. \A k \in DOMAIN runq' : \/ k \in DOMAIN runq /\ runq'[k] = runq[k]
                                \/ k - Len(runq) \in DOMAIN s /\ runq'[k] = s[k - Len(runq)]
    BY ONLY <2>1, ReservationQueued, s \in Reservations
  <2> QED
    BY ONLY <2>1, <2>2, Waiting(i)', ~Waiting(i) DEF Waiting
<1>3. ASSUME NEW u \in Users, EnsureVpn(u) PROVE i \in pending' /\ i \in Fresh(u)
  <2>1. PICK h \in Fresh(u) : runq' = Append(runq, h) /\ pending' = pending \cup {h}
    BY <1>3 DEF EnsureVpn
  <2>2. unacked' = unacked /\ runq \in Seq(Ids) /\ h \in Ids
    BY <1>3 DEF EnsureVpn, nodes, Placed, TypeOK, Fresh
  <2>3. \A k \in DOMAIN runq' : (k \in DOMAIN runq /\ runq'[k] = runq[k]) \/ runq'[k] = h
    BY ONLY <2>1, <2>2
  <2> QED
    BY ONLY <2>1, <2>2, <2>3, Waiting(i)', ~Waiting(i), h \in Fresh(u) DEF Waiting
<1>4. ASSUME NEW n \in Nodes, TakesRun(n) PROVE FALSE
  <2>1. /\ 1 \in DOMAIN runq /\ Head(runq) = runq[1]
        /\ \A k \in DOMAIN runq' : k + 1 \in DOMAIN runq /\ runq'[k] = runq[k + 1]
        /\ \A m \in Nodes : unacked'[m] = IF m = n THEN Head(runq) ELSE unacked[m]
    BY <1>4, RunTaken
  <2> QED
    BY ONLY <2>1, Waiting(i)', ~Waiting(i) DEF Waiting
<1>5. ASSUME NEW n \in Nodes, Acknowledge(n) PROVE FALSE
  <2>1. \A m \in Nodes : unacked'[m] = unacked[m] \/ unacked'[m] = None
    BY <1>5 DEF Acknowledge, Placed, TypeOK
  <2>2. runq' = runq /\ i # None
    BY <1>5, CloudNames DEF Acknowledge, queues
  <2> QED
    BY ONLY <2>1, <2>2, Waiting(i)', ~Waiting(i) DEF Waiting
<1>6. ASSUME NEW n \in Nodes, CrashNode(n) PROVE FALSE
  <2>1. /\ \A m \in Nodes : unacked'[m] = IF m = n THEN None ELSE unacked[m]
        /\ \A k \in DOMAIN runq : k \in DOMAIN runq' /\ runq'[k] = runq[k]
        /\ \A k \in DOMAIN runq' : \/ k \in DOMAIN runq
                                   \/ unacked[n] # None /\ k = Len(runq) + 1 /\ runq'[k] = unacked[n]
    BY <1>6, Crashed
  <2>2. i # None
    BY CloudNames
  <2> QED
    BY ONLY <2>1, <2>2, Waiting(i)', ~Waiting(i), n \in Nodes DEF Waiting
<1>7. \/ UNCHANGED <<runq, unacked>>
      \/ \E s \in Reservations : RunInstances(s) \/ RunInstancesFails(s)
      \/ \E u \in Users : EnsureVpn(u)
      \/ \E n \in Nodes : TakesRun(n) \/ Acknowledge(n) \/ CrashNode(n)
  BY DEF Next, vars, queues, nodes, Terminate, UpdateState, RestartCloud, NodeRun, NodeRefuses,
    Launch, NodeTerminate, Remove, ReportState, StartNode
<1> QED
  BY <1>1, <1>2, <1>3, <1>4, <1>5, <1>6, <1>7

(* An instance comes to be on two nodes when a node dies before it has     *)
(* acknowledged the run message.                                           *)
LEMMA TwiceGrows ==
  ASSUME Placed, [Next]_vars
  PROVE  /\ twice \subseteq twice'
         /\ \A i \in twice' \ twice : \E n \in Nodes : CrashNode(n) /\ unacked[n] = i
<1>1. CASE twice' = twice
  BY <1>1
<1>2. ASSUME NEW n \in Nodes, CrashNode(n)
      PROVE  twice \subseteq twice' /\ \A i \in twice' \ twice : unacked[n] = i
  BY <1>2, Crashed
<1>3. twice' = twice \/ \E n \in Nodes : CrashNode(n)
  BY DEF Next, vars, history, RunInstances, RunInstancesFails, EnsureVpn, Terminate, UpdateState,
    RestartCloud, NodeRun, NodeRefuses, Acknowledge, Launch, NodeTerminate, Remove, ReportState,
    StartNode
<1> QED
  BY <1>1, <1>2, <1>3

(* The controller's view and the reports change in three steps.            *)
LEMMA ReportsMove ==
  [Next]_vars => \/ UNCHANGED <<view, cloudq>> \/ UpdateState \/ RestartCloud
                 \/ \E n \in Nodes : ReportState(n)
BY DEF Next, vars, cloud, queues, RunInstances, RunInstancesFails, EnsureVpn, Terminate, Launch,
  Remove, NodeRun, NodeRefuses, Acknowledge, NodeTerminate, CrashNode, StartNode

(* Every step keeps the nodes' tables and domains in step.                 *)
LEMMA NextHosted == Placed /\ Hosted /\ [Next]_vars => Hosted'
<1> SUFFICES ASSUME Placed, Hosted, [Next]_vars PROVE Hosted'
  OBVIOUS
<1>1. CASE UNCHANGED <<nodes, failed>>
  BY ONLY <1>1, Hosted DEF Hosted, nodes
<1>2. ASSUME NEW n \in Nodes, NEW i \in Ids, Launch(n, i) PROVE Hosted'
  BY <1>2, Launched DEF Hosted, history
<1>3. ASSUME NEW n \in Nodes, NEW i \in Ids, Remove(n, i) PROVE Hosted'
  <2>1. /\ i \in dying[n] /\ dying' = [dying EXCEPT ![n] = @ \ {i}]
        /\ table' = [table EXCEPT ![n][i] = None] /\ unacked[n] = None
        /\ UNCHANGED <<building, domains, up, unacked, failed>>
    BY <1>3 DEF Remove, Free, history
  <2>2. /\ table \in [Nodes -> [Ids -> States \cup {None}]] /\ dying \in [Nodes -> SUBSET Ids]
        /\ None \notin Ids
    BY CloudNames DEF Placed, TypeOK, Tables
  <2>3. \A m \in Nodes, j \in Ids :
          /\ table'[m][j] = IF m = n /\ j = i THEN None ELSE table[m][j]
          /\ j \in dying'[m] <=> j \in dying[m] /\ ~(m = n /\ j = i)
    BY ONLY <2>1, <2>2, n \in Nodes, i \in Ids
  <2> QED
    BY ONLY <2>1, <2>2, <2>3, Hosted, n \in Nodes, i \in Ids DEF Hosted
<1>4. ASSUME NEW n \in Nodes, NodeRun(n) \/ NodeRefuses(n) PROVE Hosted'
  <2> DEFINE a == Head(runq)
  <2>1. /\ a \in Ids /\ n \in up
        /\ \A m \in Nodes : unacked'[m] = IF m = n THEN a ELSE unacked[m]
    BY <1>4, RunTaken DEF NodeRun, NodeRefuses
  <2>2. UNCHANGED <<dying, domains, up>>
    BY <1>4 DEF NodeRun, NodeRefuses
  <2>3. \/ /\ table[n][a] = None /\ table' = [table EXCEPT ![n][a] = "NOSTATE"]
           /\ building' = [building EXCEPT ![n] = @ \cup {a}] /\ failed' = failed
        \/ /\ UNCHANGED <<table, building>>
           /\ failed' = IF table[n][a] = None THEN failed \cup {a} ELSE failed
    BY <1>4 DEF NodeRun, NodeRefuses
  <2>4. /\ table \in [Nodes -> [Ids -> States \cup {None}]] /\ building \in [Nodes -> SUBSET Ids]
        /\ "NOSTATE" # None
    BY CloudNames DEF Placed, TypeOK, Tables, States
  <2> HIDE DEF a
  <2>5. CASE /\ table[n][a] = None /\ table' = [table EXCEPT ![n][a] = "NOSTATE"]
             /\ building' = [building EXCEPT ![n] = @ \cup {a}] /\ failed' = failed
    <3>1. \A m \in Nodes, j \in Ids :
            /\ table'[m][j] = IF m = n /\ j = a THEN "NOSTATE" ELSE table[m][j]
            /\ j \in building'[m] <=> j \in building[m] \/ (m = n /\ j = a)
      BY ONLY <2>1, <2>4, <2>5, n \in Nodes
    <3>2. a \notin domains[n] /\ a \notin dying[n]
      BY ONLY <2>1, <2>5, Hosted, n \in Nodes DEF Hosted
    <3> QED
      BY ONLY <2>1, <2>2, <2>4, <2>5, <3>1, <3>2, Hosted, n \in Nodes DEF Hosted
  <2>6. CASE /\ UNCHANGED <<table, building>>
             /\ failed' = IF table[n][a] = None THEN failed \cup {a} ELSE failed
    BY ONLY <2>1, <2>2, <2>6, Hosted, n \in Nodes DEF Hosted
  <2> QED
    BY <2>3, <2>5, <2>6
<1>5. ASSUME NEW n \in Nodes, Acknowledge(n) PROVE Hosted'
  <2>1. /\ \A m \in Nodes : unacked'[m] = unacked[m] \/ unacked'[m] = None
        /\ UNCHANGED <<table, building, dying, domains, up, failed>> /\ None \notin Ids
    BY <1>5, CloudNames DEF Acknowledge, history, Placed, TypeOK
  <2> QED
    BY ONLY <2>1, Hosted DEF Hosted
<1>6. ASSUME NEW n \in Nodes, NodeTerminate(n) PROVE Hosted'
  <2>1. UNCHANGED <<building, up, unacked, failed>>
    BY <1>6, Terminated DEF history
  <2>2. \A m \in Nodes, j \in Ids :
          /\ table'[m][j] # None <=> table[m][j] # None
          /\ j \in domains'[m] => j \in domains[m]
          /\ j \in dying'[m] => j \in dying[m] \/ (j \in domains[m] /\ j \notin domains'[m])
    BY <1>6, Terminated
  <2>3. \A j \in Ids : j \in dying'[n] => table[n][j] # None
    <3>1. \A j \in Ids : j \in domains[n] => table[n][j] # None
      BY <1>6 DEF NodeTerminate, Free, Hosted
    <3> QED
      BY ONLY <2>2, <3>1, Hosted, n \in Nodes DEF Hosted
  <2>4. \A m \in Nodes, j \in Ids : j \in dying'[m] => table[m][j] # None
    <3>1. \A m \in Nodes \ {n} : dying'[m] = dying[m]
      BY <1>6 DEF NodeTerminate, Placed, TypeOK
    <3> QED
      BY ONLY <2>3, <3>1, Hosted DEF Hosted
  <2> QED
    BY ONLY <2>1, <2>2, <2>4, Hosted DEF Hosted
<1>7. ASSUME NEW n \in Nodes, CrashNode(n) PROVE Hosted'
  <2>1. /\ up' = up \ {n}
        /\ \A m \in Nodes :
             /\ table'[m] = IF m = n THEN NoInstances ELSE table[m]
             /\ domains'[m] \subseteq domains[m]
             /\ building'[m] = IF m = n THEN {} ELSE building[m]
             /\ dying'[m] = IF m = n THEN {} ELSE dying[m]
             /\ unacked'[m] = IF m = n THEN None ELSE unacked[m]
        /\ failed' = (failed \cup (Has(table[n]) \ domains'[n])) \ {unacked[n]}
    BY <1>7, Crashed
  <2>2. \A m \in Nodes \ {n}, j \in Ids : unacked[m] = j => unacked[n] # j
    BY CloudNames DEF Placed, Held
  <2>3. None \notin Ids
    BY CloudNames
  <2>4. ASSUME NEW j \in Ids
        PROVE  table'[n][j] = None /\ j \notin building'[n] \cup dying'[n] /\ unacked'[n] # j
    BY ONLY <2>1, <2>3, n \in Nodes, j \in Ids DEF NoInstances
  <2>5. ASSUME NEW m \in Nodes \ {n}, NEW j \in Ids
        PROVE  /\ m \in up' /\ j \in domains'[m] => table'[m][j] # None
               /\ m \notin up' => table'[m][j] = None
               /\ j \in building'[m] \cup dying'[m] => table'[m][j] # None /\ j \notin domains'[m]
               /\ j \notin building'[m] \cap dying'[m]
               /\ unacked'[m] = j => j \in failed' \/ table'[m][j] # None
    BY ONLY <2>1, <2>2, <2>5, Hosted, n \in Nodes DEF Hosted
  <2> QED
    BY ONLY <2>1, <2>4, <2>5 DEF Hosted
<1>8. ASSUME NEW n \in Nodes, StartNode(n) PROVE Hosted'
  <2>1. /\ n \notin up /\ up' = up \cup {n}
        /\ \A m \in Nodes, j \in Ids :
             table'[m][j] = IF m # n THEN table[m][j]
                            ELSE IF j \in domains[n] THEN "RUNNING" ELSE None
        /\ UNCHANGED <<building, dying, domains, unacked, failed>>
    BY <1>8, Started DEF history
  <2>2. "RUNNING" # None
    BY CloudNames DEF States
  <2> QED
    BY ONLY <2>1, <2>2, Hosted, n \in Nodes DEF Hosted
<1>9. \/ UNCHANGED <<nodes, failed>>
      \/ \E n \in Nodes : \/ \E i \in Ids : Launch(n, i) \/ Remove(n, i)
                          \/ NodeRun(n) \/ NodeRefuses(n) \/ Acknowledge(n) \/ NodeTerminate(n)
                          \/ CrashNode(n) \/ StartNode(n)
  BY DEF Next, vars, history, RunInstances, RunInstancesFails, EnsureVpn, Terminate, UpdateState,
    RestartCloud, ReportState
<1> QED
  BY <1>1, <1>2, <1>3, <1>4, <1>5, <1>6, <1>7, <1>8, <1>9

(* A step that adds instances of which the controller heard nothing keeps  *)
(* the reports in order.                                                   *)
LEMMA NewcomersKeepOrder ==
  ASSUME InOrder, UNCHANGED <<view, cloudq>>, twice \subseteq twice',
         \A n \in Nodes, i \in Ids \ twice : Present(n, i)' =>
           \/ Present(n, i)
           \/ /\ view[n][i] = None
              /\ \A k \in DOMAIN cloudq : cloudq[k].node = n => cloudq[k].items[i] = None
  PROVE  InOrder'
<1>1. \A i \in Ids \ twice' : i \in Ids \ twice
  OBVIOUS
<1> QED
  BY <1>1 DEF InOrder

(* Every step keeps the reports in order.                                  *)
LEMMA NextInOrder == Placed /\ Hosted /\ InOrder /\ [Next]_vars => InOrder'
<1> SUFFICES ASSUME Placed, Hosted, InOrder, [Next]_vars PROVE InOrder'
  OBVIOUS
<1>1. CASE UNCHANGED <<view, cloudq>>
  <2>1. ASSUME NEW n \in Nodes, NEW i \in Ids \ twice, Present(n, i)'
        PROVE  \/ Present(n, i)
               \/ /\ view[n][i] = None
                  /\ \A k \in DOMAIN cloudq : cloudq[k].node = n => cloudq[k].items[i] = None
    <3>1. CASE TakesRun(n) /\ i = Head(runq)
      <4>1. ran[i] = None
        BY <2>1, <3>1, RunTaken
      <4> QED
        BY <2>1, <4>1, QueuedUnheard DEF Unheard
    <3> QED
      BY <2>1, <3>1, Arrivals
  <2> QED
    BY <1>1, <2>1, TwiceGrows, NewcomersKeepOrder
<1>2. CASE UpdateState
  <2> DEFINE r == Head(cloudq)
  <2>1. /\ cloudq # <<>> /\ cloudq' = Tail(cloudq)
        /\ view' = [view EXCEPT ![r.node] = r.items]
        /\ UNCHANGED <<table, domains, twice>>
    BY <1>2 DEF UpdateState, nodes, history
  <2>2. /\ r \in Reports /\ r = cloudq[1] /\ 1 \in DOMAIN cloudq
        /\ DOMAIN cloudq' \subseteq Nat
        /\ \A k \in DOMAIN cloudq' : k + 1 \in DOMAIN cloudq /\ 1 < k + 1
                                   /\ cloudq'[k] = cloudq[k + 1]
    BY <2>1, ReportTaken DEF Placed
  <2>3. r.node \in Nodes /\ r.items \in Tables /\ view \in [Nodes -> Tables]
    BY <2>2 DEF Reports, Placed, TypeOK
  <2> HIDE DEF r
  <2>a. ASSUME NEW n \in Nodes, NEW i \in Ids \ twice, Present(n, i)'
        PROVE  /\ \A j, k \in DOMAIN cloudq' :
                    /\ j < k /\ cloudq'[j].node = n /\ cloudq'[k].node = n
                    /\ cloudq'[j].items[i] # None
                    => cloudq'[k].items[i] # None
               /\ view'[n][i] # None =>
                    \A k \in DOMAIN cloudq' :
                      cloudq'[k].node = n => cloudq'[k].items[i] # None
    <3>1. Present(n, i)
      BY <2>1, <2>a DEF Present
    <3>2. /\ \A j, k \in DOMAIN cloudq :
               /\ j < k /\ cloudq[j].node = n /\ cloudq[k].node = n
               /\ cloudq[j].items[i] # None
               => cloudq[k].items[i] # None
          /\ view[n][i] # None =>
               \A k \in DOMAIN cloudq : cloudq[k].node = n => cloudq[k].items[i] # None
      BY ONLY <3>1, InOrder, n \in Nodes, i \in Ids \ twice DEF InOrder
    <3>3. view'[n][i] = IF r.node = n THEN r.items[i] ELSE view[n][i]
      BY ONLY <2>1, <2>3, n \in Nodes
    <3>4. \A j, k \in DOMAIN cloudq' :
            /\ j < k /\ cloudq'[j].node = n /\ cloudq'[k].node = n
            /\ cloudq'[j].items[i] # None
            => cloudq'[k].items[i] # None
      BY ONLY <2>2, <3>2
    <3>5. ASSUME view'[n][i] # None, NEW k \in DOMAIN cloudq', cloudq'[k].node = n
          PROVE  cloudq'[k].items[i] # None
      <4>1. k + 1 \in DOMAIN cloudq /\ 1 < k + 1 /\ cloudq'[k] = cloudq[k + 1]
        BY ONLY <2>2, k \in DOMAIN cloudq'
      <4>2. CASE r.node = n
        BY ONLY <2>2, <3>2, <3>3, <3>5, <4>1, <4>2
      <4>3. CASE r.node # n
        BY ONLY <3>2, <3>3, <3>5, <4>1, <4>3
      <4> QED
        BY <4>2, <4>3
    <3> QED
      BY <3>4, <3>5
  <2> QED
    BY ONLY <2>1, <2>a DEF InOrder
<1>3. CASE RestartCloud
  <2>1. /\ UNCHANGED <<cloudq, table, domains, twice>>
        /\ \A n \in Nodes, i \in Ids : view'[n][i] = None
    BY <1>3 DEF RestartCloud, queues, nodes, NoInstances
  <2> QED
    BY ONLY <2>1, InOrder DEF InOrder, Present
<1>4. CASE \E n \in Nodes : ReportState(n)
  <2>1. PICK n \in Nodes : ReportState(n)
    BY <1>4
  <2>2. n \in up /\ UNCHANGED <<view, table, domains, twice>>
    BY <2>1 DEF ReportState, Free, cloud, nodes, history
  <2>3. \A i \in Ids : Present(n, i) => table[n][i] # None
    BY ONLY <2>2, Hosted, n \in Nodes DEF Hosted, Present
  <2>4. /\ cloudq \in Seq(Reports) /\ [node |-> n, items |-> table[n]] \in Reports
        /\ cloudq' = Append(cloudq, [node |-> n, items |-> table[n]])
    BY <2>1 DEF ReportState, Placed, TypeOK, Reports
  <2>5. /\ DOMAIN cloudq = 1 .. Len(cloudq) /\ Len(cloudq) \in Nat
        /\ DOMAIN cloudq' = 1 .. Len(cloudq) + 1
        /\ \A k \in 1 .. Len(cloudq) : cloudq'[k] = cloudq[k]
        /\ cloudq'[Len(cloudq) + 1] = [node |-> n, items |-> table[n]]
    BY ONLY <2>4
  <2>6. \A k \in DOMAIN cloudq' :
          \/ k \in DOMAIN cloudq /\ cloudq'[k] = cloudq[k]
          \/ k = Len(cloudq) + 1 /\ cloudq'[k].node = n /\ cloudq'[k].items = table[n]
    BY ONLY <2>5
  <2>7. \A j, k \in DOMAIN cloudq' : j < k => j \in DOMAIN cloudq
    BY ONLY <2>5
  <2>8. \A m \in Nodes, i \in Ids : Present(m, i)' => Present(m, i)
    BY ONLY <2>2 DEF Present
  <2> QED
    BY ONLY <2>2, <2>3, <2>5, <2>6, <2>7, <2>8, InOrder DEF InOrder
<1> QED
  BY <1>1, <1>2, <1>3, <1>4, ReportsMove

(* While the controller runs, only a report takes from the listing.        *)
LEMMA ListingKept ==
  ASSUME Placed, [Next]_vars, ~restarted'
  PROVE  /\ ~restarted /\ orphans \subseteq orphans'
         /\ UpdateState \/ (pending \subseteq pending' /\ view' = view)
<1>1. ASSUME NEW s \in Reservations, RunInstances(s) \/ RunInstancesFails(s)
      PROVE  pending \subseteq pending' /\ view' = view /\ orphans \subseteq orphans'
  BY <1>1 DEF RunInstances, RunInstancesFails, cloud
<1>2. ASSUME NEW u \in Users, EnsureVpn(u)
      PROVE  pending \subseteq pending' /\ view' = view /\ orphans' = orphans
  BY <1>2 DEF EnsureVpn
<1>3. CASE UpdateState
  BY <1>3 DEF UpdateState, history
<1>4. restarted' = restarted \/ RestartCloud
  BY DEF Next, vars, history, RunInstances, RunInstancesFails, EnsureVpn, Terminate, UpdateState,
    NodeRun, NodeRefuses, Acknowledge, Launch, NodeTerminate, Remove, ReportState, CrashNode,
    StartNode
<1>5. ~restarted /\ ~RestartCloud
  BY <1>4, ~restarted' DEF RestartCloud, Placed
<1>6. \/ UNCHANGED <<cloud, orphans>> \/ UpdateState \/ RestartCloud
      \/ \E s \in Reservations : RunInstances(s) \/ RunInstancesFails(s)
      \/ \E u \in Users : EnsureVpn(u)
  BY DEF Next, vars, history, Terminate, NodeRun, NodeRefuses, Acknowledge, Launch, NodeTerminate,
    Remove, ReportState, CrashNode, StartNode
<1> QED
  BY <1>1, <1>2, <1>3, <1>5, <1>6 DEF cloud

(* No step takes what is on a node, or on its way, out of the listing.     *)
LEMMA NextSeen == Placed /\ Hosted /\ InOrder /\ Seen /\ [Next]_vars => Seen'
<1> SUFFICES ASSUME Placed, Hosted, InOrder, Seen, [Next]_vars, ~restarted',
                    NEW i \in Ids \ (orphans' \cup twice')
             PROVE  /\ Waiting(i)' => i \in pending'
                    /\ \A n \in Nodes : Present(n, i)' => i \in pending' \/ view'[n][i] # None
  BY DEF Seen
<1>1. /\ ~restarted /\ i \in Ids \ (orphans \cup twice)
      /\ UpdateState \/ (pending \subseteq pending' /\ view' = view)
  BY ListingKept, TwiceGrows
<1>2. /\ Waiting(i) => i \in pending
      /\ \A n \in Nodes : Present(n, i) => i \in pending \/ view[n][i] # None
  BY <1>1 DEF Seen
<1>3. CASE UpdateState
  <2> DEFINE r == Head(cloudq)
  <2>1. /\ r \in Reports /\ r = cloudq[1] /\ 1 \in DOMAIN cloudq
    BY <1>3, ReportTaken DEF UpdateState, Placed
  <2>2. /\ pending' = pending \ Has(r.items)
        /\ view' = [view EXCEPT ![r.node] = r.items]
        /\ UNCHANGED <<table, domains, runq, unacked>>
    BY <1>3 DEF UpdateState, nodes
  <2>3. r.node \in Nodes /\ r.items \in Tables /\ view \in [Nodes -> Tables]
    BY <2>1 DEF Reports, Placed, TypeOK
  <2> HIDE DEF r
  <2>4. i \in Has(r.items) => ran[i] = r.node
    BY <1>1, <2>1 DEF Placed, Homes, Has
  <2>5. Waiting(i)' => i \in pending'
    <3>1. ASSUME Waiting(i) PROVE i \notin Has(r.items)
      <4>1. CASE \E k \in DOMAIN runq : runq[k] = i
        <5>1. ran[i] = None
          BY <1>1, <4>1 DEF Placed, Queued
        <5> QED
          BY <2>3, <2>4, <5>1, CloudNames
      <4>2. CASE \E n \in Nodes : unacked[n] = i
        <5>1. Unheard(i)
          BY <1>1, <4>2, CloudNames DEF Placed, Held
        <5> QED
          BY ONLY <2>1, <5>1 DEF Unheard, Has
      <4> QED
        BY <3>1, <4>1, <4>2 DEF Waiting
    <3>2. Waiting(i)' => Waiting(i)
      BY ONLY <2>2 DEF Waiting
    <3> QED
      BY <1>2, <2>2, <3>1, <3>2
  <2>6. ASSUME NEW n \in Nodes, Present(n, i)'
        PROVE  i \in pending' \/ view'[n][i] # None
    <3>1. Present(n, i)
      BY ONLY <2>2, <2>6 DEF Present
    <3>2. ran[i] = n
      BY <1>1, <3>1 DEF Placed, Homes, Present
    <3>3. view'[n][i] = IF r.node = n THEN r.items[i] ELSE view[n][i]
      BY ONLY <2>2, <2>3, n \in Nodes
    <3>4. view[n][i] # None /\ r.node = n => r.items[i] # None
      BY ONLY <1>1, <2>1, <3>1, InOrder, n \in Nodes DEF InOrder
    <3> QED
      BY <1>2, <2>2, <2>4, <3>1, <3>2, <3>3, <3>4 DEF Has
  <2> QED
    BY <2>5, <2>6
<1>4. CASE pending \subseteq pending' /\ view' = view
  <2>1. ASSUME Waiting(i)' PROVE i \in pending'
    <3>1. CASE Waiting(i)
      BY <1>2, <1>4, <3>1
    <3>2. ASSUME NEW s \in Reservations, RunInstances(s) \/ RunInstancesFails(s),
                 \E k \in DOMAIN s : i = s[k]
          PROVE  i \in pending'
      BY <3>2 DEF RunInstances, RunInstancesFails
    <3> QED
      BY <2>1, <3>1, <3>2, WaitingComes
  <2>2. ASSUME NEW n \in Nodes, Present(n, i)'
        PROVE  i \in pending' \/ view'[n][i] # None
    <3>1. CASE Present(n, i)
      BY <1>2, <1>4, <3>1
    <3>2. CASE TakesRun(n) /\ i = Head(runq)
      <4>1. Waiting(i)
        BY <3>2, RunTaken DEF Waiting
      <4> QED
        BY <1>2, <1>4, <4>1
    <3> QED
      BY <2>2, <3>1, <3>2, Arrivals
  <2> QED
    BY <2>1, <2>2
<1> QED
  BY <1>1, <1>3, <1>4

(* Nobody loses sight of an instance.                                      *)
Watched == Placed /\ Hosted /\ InOrder /\ Seen

LEMMA AlwaysWatched == Spec => []Watched
<1>1. Init => Watched
  <2>1. Init => Hosted /\ InOrder /\ Seen
    BY CloudNames DEF Init, NoInstances, Hosted, InOrder, Seen, Present, Waiting
  <2>2. QED
    BY <2>1, InitPlaced DEF Watched
<1>2. Watched /\ [Next]_vars => Watched'
  BY NextPlaced, NextHosted, NextInOrder, NextSeen DEF Watched
<1>3. QED
  BY <1>1, <1>2, PTL DEF Spec

(* Unless the controller restarted, an instance that waits for a node is   *)
(* listed as pending and one that a node has is listed, however late the   *)
(* reports are and whoever takes a message that came back, unless its      *)
(* reservation failed half-way or it may be on two nodes.                  *)
THEOREM InstancesStayVisible == Spec => []NothingInvisible
<1>1. Watched => NothingInvisible
  <2> SUFFICES ASSUME Watched, ~restarted
               PROVE  /\ \A k \in DOMAIN runq : runq[k] \in pending \cup orphans \cup twice
                      /\ \A n \in Nodes, i \in Ids \ (orphans \cup twice) :
                           table[n][i] # None => Listed(i)
    BY DEF NothingInvisible
  <2>1. \A k \in DOMAIN runq : runq[k] \in Ids
    BY DEF Watched, Placed, TypeOK
  <2> QED
    BY <2>1 DEF Watched, Seen, Waiting, Present, Listed
<1>2. QED
  BY <1>1, AlwaysWatched, PTL


(* As long as nobody may terminate a VPN instance, none is shut down.      *)
LEMMA NextVpnsKept ==
  ASSUME Placed, Hosted, VpnsKept, \A v \in Terminable : VpnOf[v] = None, [Next]_vars
  PROVE  VpnsKept'
<1> DEFINE Vpns == {i \in Ids : VpnOf[i] # None}
<1>1. \A i \in Vpns : i \notin orphans'
  <2>1. ASSUME NEW s \in Reservations, RunInstancesFails(s)
        PROVE  \A i \in Vpns : i \notin orphans'
    BY <2>1 DEF RunInstancesFails, Fresh, VpnsKept
  <2>2. orphans' = orphans \/ \E s \in Reservations : RunInstancesFails(s)
    BY DEF Next, vars, history, RunInstances, EnsureVpn, Terminate, UpdateState, RestartCloud,
      NodeRun, NodeRefuses, Acknowledge, Launch, NodeTerminate, Remove, ReportState, CrashNode,
      StartNode
  <2> QED
    BY <2>1, <2>2 DEF VpnsKept
<1>2. \A n \in Nodes, i \in Vpns : table'[n][i] # "SHUTDOWN"
  <2> DEFINE Kept == \A n \in Nodes, i \in Vpns : table'[n][i] # "SHUTDOWN"
  <2>1. \A n \in Nodes, i \in Vpns : table[n][i] # "SHUTDOWN"
    BY DEF VpnsKept
  <2>2. table \in [Nodes -> [Ids -> States \cup {None}]] /\ None # "SHUTDOWN"
    BY CloudNames DEF Placed, TypeOK, Tables, States
  <2>3. ASSUME NEW m \in Nodes, NEW j \in Ids, Launch(m, j) PROVE Kept
    <3>1. table' = table \/ table' = [table EXCEPT ![m][j] = "RUNNING"]
      BY <2>3 DEF Launch
    <3> QED
      BY ONLY <2>1, <2>2, <3>1, m \in Nodes, j \in Ids
  <2>4. ASSUME NEW m \in Nodes, NEW j \in Ids, Remove(m, j) PROVE Kept
    <3>1. table' = [table EXCEPT ![m][j] = None]
      BY <2>4 DEF Remove
    <3> QED
      BY ONLY <2>1, <2>2, <3>1, m \in Nodes, j \in Ids
  <2>5. ASSUME NEW m \in Nodes, NodeRun(m) PROVE Kept
    <3>1. table' = [table EXCEPT ![m][Head(runq)] = "NOSTATE"]
      BY <2>5 DEF NodeRun
    <3> QED
      BY ONLY <2>1, <2>2, <3>1, m \in Nodes
  <2>6. ASSUME NEW m \in Nodes, NodeTerminate(m) PROVE Kept
    <3>1. Head(nodeq[m]) = nodeq[m][1] /\ 1 \in DOMAIN nodeq[m]
      BY <2>6, Terminated
    <3>2. \A n \in Nodes, j \in Ids : j # Head(nodeq[m]) => table'[n][j] = table[n][j]
      BY <2>6, Terminated
    <3>3. Head(nodeq[m]) \notin Vpns
      BY <3>1 DEF VpnsKept
    <3> QED
      BY ONLY <2>1, <3>2, <3>3
  <2>7. ASSUME NEW m \in Nodes, CrashNode(m) PROVE Kept
    <3>1. \A n \in Nodes : table'[n] = IF n = m THEN NoInstances ELSE table[n]
      BY <2>7, Crashed
    <3> QED
      BY ONLY <2>1, <2>2, <3>1 DEF NoInstances
  <2>8. ASSUME NEW m \in Nodes, StartNode(m) PROVE Kept
    <3>1. \A n \in Nodes, j \in Ids :
            table'[n][j] = IF n # m THEN table[n][j]
                           ELSE IF j \in domains[m] THEN "RUNNING" ELSE None
      BY <2>8, Started
    <3> QED
      BY ONLY <2>1, <2>2, <3>1
  <2>9. \/ table' = table
        \/ \E m \in Nodes : \/ \E j \in Ids : Launch(m, j) \/ Remove(m, j)
                            \/ NodeRun(m) \/ NodeTerminate(m) \/ CrashNode(m) \/ StartNode(m)
    BY DEF Next, vars, nodes, RunInstances, RunInstancesFails, EnsureVpn, Terminate, UpdateState,
      RestartCloud, NodeRefuses, Acknowledge, ReportState
  <2> QED
    BY <2>1, <2>3, <2>4, <2>5, <2>6, <2>7, <2>8, <2>9
<1>3. \A i \in Vpns : /\ \A n \in Nodes : view'[n][i] # "SHUTDOWN"
                      /\ \A k \in DOMAIN cloudq' : cloudq'[k].items[i] # "SHUTDOWN"
  <2>1. CASE UNCHANGED <<view, cloudq>>
    BY <2>1 DEF VpnsKept
  <2>2. CASE UpdateState
    <3> DEFINE r == Head(cloudq)
    <3>1. /\ r \in Reports /\ r = cloudq[1] /\ 1 \in DOMAIN cloudq
          /\ \A k \in DOMAIN Tail(cloudq) :
               k + 1 \in DOMAIN cloudq /\ Tail(cloudq)[k] = cloudq[k + 1]
      BY <2>2, ReportTaken DEF UpdateState, Placed
    <3>2. /\ view' = [view EXCEPT ![r.node] = r.items] /\ cloudq' = Tail(cloudq)
          /\ view \in [Nodes -> Tables]
      BY <2>2 DEF UpdateState, Placed, TypeOK
    <3> HIDE DEF r
    <3>3. \A n \in Nodes, i \in Ids :
            view'[n][i] = IF r.node = n THEN r.items[i] ELSE view[n][i]
      BY ONLY <3>1, <3>2 DEF Reports
    <3> QED
      BY ONLY <3>1, <3>2, <3>3, VpnsKept DEF VpnsKept
  <2>3. CASE RestartCloud
    BY <2>3, CloudNames DEF RestartCloud, queues, NoInstances, States, VpnsKept
  <2>4. ASSUME NEW n \in Nodes, ReportState(n)
        PROVE  \A i \in Vpns : /\ \A m \in Nodes : view'[m][i] # "SHUTDOWN"
                               /\ \A k \in DOMAIN cloudq' : cloudq'[k].items[i] # "SHUTDOWN"
    <3>1. /\ cloudq \in Seq(Reports) /\ [node |-> n, items |-> table[n]] \in Reports
          /\ cloudq' = Append(cloudq, [node |-> n, items |-> table[n]])
      BY <2>4 DEF ReportState, Placed, TypeOK, Reports
    <3>2. \A k \in DOMAIN cloudq' : \/ k \in DOMAIN cloudq /\ cloudq'[k] = cloudq[k]
                                    \/ cloudq'[k].items = table[n]
      BY ONLY <3>1
    <3>3. view' = view
      BY <2>4 DEF ReportState, cloud
    <3> QED
      BY ONLY <3>2, <3>3, VpnsKept, n \in Nodes DEF VpnsKept
  <2> QED
    BY <2>1, <2>2, <2>3, <2>4, ReportsMove
<1>4. \A i \in Vpns, n \in Nodes : \A k \in DOMAIN nodeq'[n] : nodeq'[n][k] # i
  <2>1. ASSUME NEW v \in Ids, Terminate(v)
        PROVE  \A i \in Vpns, n \in Nodes : \A k \in DOMAIN nodeq'[n] : nodeq'[n][k] # i
    <3>1. VpnOf[v] = None
      BY <2>1 DEF Terminate
    <3>2. \E m \in Nodes : nodeq' = [nodeq EXCEPT ![m] = Append(@, v)]
      BY <2>1 DEF Terminate
    <3>3. nodeq \in [Nodes -> Seq(Ids)]
      BY DEF Placed, TypeOK
    <3>4. \A n \in Nodes : nodeq'[n] = nodeq[n] \/ nodeq'[n] = Append(nodeq[n], v)
      BY ONLY <3>2, <3>3
    <3>5. ASSUME NEW n \in Nodes, NEW k \in DOMAIN nodeq'[n]
          PROVE  (k \in DOMAIN nodeq[n] /\ nodeq'[n][k] = nodeq[n][k]) \/ nodeq'[n][k] = v
      BY ONLY <3>3, <3>4, <3>5, v \in Ids
    <3> QED
      BY ONLY <3>1, <3>5, VpnsKept DEF VpnsKept
  <2>2. ASSUME NEW m \in Nodes, NodeTerminate(m)
        PROVE  \A i \in Vpns, n \in Nodes : \A k \in DOMAIN nodeq'[n] : nodeq'[n][k] # i
    <3>1. \A n \in Nodes : \A k \in DOMAIN nodeq'[n] : \E j \in DOMAIN nodeq[n] :
            nodeq'[n][k] = nodeq[n][j]
      BY <2>2, Terminated
    <3> QED
      BY ONLY <3>1, VpnsKept DEF VpnsKept
  <2>3. \/ nodeq' = nodeq
        \/ \E v \in Ids : Terminate(v)
        \/ \E m \in Nodes : NodeTerminate(m)
    BY DEF Next, vars, queues, RunInstances, RunInstancesFails, EnsureVpn, UpdateState,
      RestartCloud, NodeRun, NodeRefuses, Acknowledge, Launch, Remove, ReportState, CrashNode,
      StartNode
  <2> QED
    BY <2>1, <2>2, <2>3 DEF VpnsKept
<1> QED
  BY <1>1, <1>2, <1>3, <1>4 DEF VpnsKept

(* Only the cron brings a VPN instance to life.                            *)
LEMMA NextLive ==
  ASSUME Placed, Hosted, [Next]_vars, NEW i \in Ids, VpnOf[i] # None, Live(i)', ~Live(i)
  PROVE  \E u \in Users : EnsureVpn(u) /\ i \in Fresh(u)
<1>1. CASE Waiting(i)'
  <2>1. ASSUME NEW s \in Reservations, RunInstances(s) \/ RunInstancesFails(s)
        PROVE  \A k \in DOMAIN s : i # s[k]
    BY <2>1 DEF RunInstances, RunInstancesFails, Fresh
  <2>2. ~Waiting(i)
    BY DEF Live
  <2> QED
    BY <1>1, <2>1, <2>2, WaitingComes
<1>2. ASSUME NEW n \in Nodes, Present(n, i)' PROVE FALSE
  <2>1. TakesRun(n) => Waiting(Head(runq))
    BY RunTaken DEF Waiting
  <2> QED
    BY <1>2, <2>1, Arrivals DEF Live
<1> QED
  BY <1>1, <1>2 DEF Live

(* A VPN instance that is on its way or on a node keeps the cron from      *)
(* another.                                                                *)
LEMMA NextOneVpn == Watched /\ VpnsKept /\ OneVpn /\ [Next]_vars => OneVpn'
<1> SUFFICES ASSUME Watched, VpnsKept, OneVpn, [Next]_vars, ~restarted',
                    NEW i \in Ids \ twice', NEW j \in Ids \ twice',
                    VpnOf[i] # None, VpnOf[i] = VpnOf[j], Live(i)', Live(j)'
             PROVE  i = j
  BY DEF OneVpn
<1>1. ~restarted /\ i \in Ids \ twice /\ j \in Ids \ twice
  BY ListingKept, TwiceGrows DEF Watched
<1>2. ASSUME NEW u \in Users, EnsureVpn(u), NEW h \in Ids \ twice, VpnOf[h] = u, Live(h)
      PROVE  FALSE
  <2>1. VpnOf[h] # None
    BY <1>2, CloudNames
  <2>2. h \notin orphans /\ \A n \in Nodes : view[n][h] # "SHUTDOWN"
    BY <2>1 DEF VpnsKept
  <2>3. ~(h \in pending \/ \E n \in Nodes : view[n][h] \in {"NOSTATE", "RUNNING"})
    BY <1>2 DEF EnsureVpn, IsVpnRunning
  <2>4. \A n \in Nodes : view[n][h] = None
    BY <2>2, <2>3 DEF Watched, Placed, TypeOK, Tables, States
  <2> QED
    BY <1>1, <1>2, <2>2, <2>3, <2>4 DEF Live, Watched, Seen
<1>3. ASSUME NEW u \in Users, EnsureVpn(u)
      PROVE  \E h \in Ids : \A x \in Ids : Waiting(x)' => Waiting(x) \/ x = h
  <2>1. PICK h \in Fresh(u) : runq' = Append(runq, h) /\ unacked' = unacked
    BY <1>3 DEF EnsureVpn, nodes
  <2>2. runq \in Seq(Ids) /\ h \in Ids
    BY DEF Watched, Placed, TypeOK, Fresh
  <2>3. \A k \in DOMAIN runq' : (k \in DOMAIN runq /\ runq'[k] = runq[k]) \/ runq'[k] = h
    BY ONLY <2>1, <2>2
  <2> QED
    BY ONLY <2>1, <2>2, <2>3 DEF Waiting
<1>4. ASSUME NEW u \in Users, EnsureVpn(u), NEW x \in Ids, Live(x)', ~Live(x)
      PROVE  Waiting(x)' /\ ~Waiting(x)
  <2>1. UNCHANGED <<table, domains>>
    BY <1>4 DEF EnsureVpn, nodes
  <2> QED
    BY ONLY <2>1, <1>4 DEF Live, Present
<1>5. CASE Live(i) /\ Live(j)
  BY <1>1, <1>5 DEF OneVpn
<1>6. CASE ~Live(i) /\ Live(j)
  BY <1>1, <1>2, <1>6, NextLive DEF Watched, Fresh
<1>7. CASE Live(i) /\ ~Live(j)
  BY <1>1, <1>2, <1>7, NextLive DEF Watched, Fresh
<1>8. CASE ~Live(i) /\ ~Live(j)
  <2>1. \E u \in Users : EnsureVpn(u)
    BY <1>8, NextLive DEF Watched
  <2> QED
    BY <1>3, <1>4, <1>8, <2>1
<1> QED
  BY <1>5, <1>6, <1>7, <1>8

(* If nobody may terminate VPN instances and the controller does not       *)
(* restart, the cron never gives a user a second one while one is there,   *)
(* nodes that die and messages that come back notwithstanding; an instance *)
(* that may be on two nodes is not counted.                                *)
THEOREM UsersHaveOneVpn ==
  ASSUME \A v \in Terminable : VpnOf[v] = None
  PROVE  Spec => []AtMostOneVpn
<1> DEFINE I == Watched /\ VpnsKept /\ OneVpn
<1>1. Init => VpnsKept /\ OneVpn
  <2>1. Init => VpnsKept
    BY CloudNames DEF Init, NoInstances, VpnsKept, States
  <2>2. Init => OneVpn
    BY CloudNames DEF Init, NoInstances, OneVpn, Live, Waiting, Present
  <2>3. QED
    BY <2>1, <2>2
<1>2. Watched /\ VpnsKept /\ OneVpn /\ [Next]_vars => VpnsKept' /\ OneVpn'
  BY NextVpnsKept, NextOneVpn DEF Watched
<1>3. Watched /\ OneVpn => AtMostOneVpn
  <2> SUFFICES ASSUME Watched, OneVpn, ~restarted, NEW u \in Users
               PROVE  Cardinality({i \in Ids \ twice :
                        VpnOf[i] = u /\ \E n \in Nodes : i \in domains[n]}) <= 1
    BY DEF AtMostOneVpn
  <2> DEFINE V == {i \in Ids \ twice : VpnOf[i] = u /\ \E n \in Nodes : i \in domains[n]}
  <2>1. \A i, j \in V : i = j
    BY CloudNames DEF OneVpn, Live, Present
  <2>2. V = {} \/ \E i : V = {i}
    <3>1. CASE V = {}
      BY <3>1
    <3>2. CASE V # {}
      <4>1. PICK i : i \in V
        BY <3>2
      <4> HIDE DEF V
      <4>2. V = {i}
        BY <2>1, <4>1
      <4>3. QED
        BY <4>2
    <3>3. QED
      BY <3>1, <3>2
  <2> HIDE DEF V
  <2>3. Cardinality(V) \in {0, 1}
    BY <2>2, FS_EmptySet, FS_Singleton
  <2>4. Cardinality(V) <= 1
    BY <2>3
  <2>5. QED
    BY <2>4 DEF V
<1>4. QED
  BY <1>1, <1>2, <1>3, AlwaysWatched, PTL DEF Spec

-----------------------------------------------------------------------------
(* What has left does not come back *)

(* The node that has taken an instance for good is the only one to have    *)
(* it.                                                                     *)
Settled(i) == i \notin twice /\ ran[i] # None /\ \A n \in Nodes : unacked[n] # i

LEMMA OnlyQueuedArrive ==
  ASSUME Placed, Hosted, [Next]_vars, NEW i \in Ids, Settled(i)
  PROVE  Settled(i)' /\ ran'[i] = ran[i] /\ \A n \in Nodes : Present(n, i)' => Present(n, i)
<1>1. i \notin twice /\ ran[i] # None /\ \A n \in Nodes : unacked[n] # i
  BY DEF Settled
<1>2. i \notin twice'
  BY <1>1, TwiceGrows
<1>3. ASSUME NEW n \in Nodes, TakesRun(n)
      PROVE  i # Head(runq) /\ ran'[i] = ran[i] /\ \A m \in Nodes : unacked'[m] # i
  BY <1>1, <1>3, RunTaken
<1>4. ASSUME NEW n \in Nodes, Acknowledge(n)
      PROVE  ran'[i] = ran[i] /\ \A m \in Nodes : unacked'[m] # i
  BY <1>1, <1>4, CloudNames DEF Acknowledge, history, Placed, TypeOK
<1>5. ASSUME NEW n \in Nodes, CrashNode(n)
      PROVE  ran'[i] = ran[i] /\ \A m \in Nodes : unacked'[m] # i
  BY <1>1, <1>5, CloudNames, Crashed
<1>6. \/ UNCHANGED <<ran, unacked>>
      \/ \E n \in Nodes : TakesRun(n) \/ Acknowledge(n) \/ CrashNode(n)
  BY DEF Next, vars, nodes, history, RunInstances, RunInstancesFails, EnsureVpn, Terminate,
    UpdateState, RestartCloud, NodeRun, NodeRefuses, Launch, NodeTerminate, Remove, ReportState,
    StartNode
<1>7. ran'[i] = ran[i] /\ \A n \in Nodes : unacked'[n] # i
  BY <1>1, <1>3, <1>4, <1>5, <1>6
<1>8. \A n \in Nodes : Present(n, i)' => Present(n, i)
  BY <1>3, Arrivals
<1> QED
  BY <1>1, <1>2, <1>7, <1>8 DEF Settled

(* Among a node's reports, one without an instance that the listing or an  *)
(* earlier one has is followed by none that has it.                        *)
Shown(q, k, n, i) == q[k].node = n /\ q[k].items[i] # None
Missing(q, k, n, i) == q[k].node = n /\ q[k].items[i] = None
NoReturn ==
  \A n \in Nodes, i \in Ids \ twice : \A k, l \in DOMAIN cloudq :
    /\ k < l /\ Missing(cloudq, k, n, i)
    /\ view[n][i] # None \/ \E j \in DOMAIN cloudq : j < k /\ Shown(cloudq, j, n, i)
    => ~Shown(cloudq, l, n, i)

LEMMA NextNoReturn == Placed /\ Hosted /\ InOrder /\ NoReturn /\ [Next]_vars => NoReturn'
<1> SUFFICES ASSUME Placed, Hosted, InOrder, NoReturn, [Next]_vars PROVE NoReturn'
  OBVIOUS
<1>0. \A i \in Ids \ twice' : i \in Ids \ twice
  BY TwiceGrows
<1>1. CASE UNCHANGED <<view, cloudq>>
  BY ONLY <1>0, <1>1, NoReturn DEF NoReturn
<1>2. CASE UpdateState
  <2> DEFINE r == Head(cloudq)
  <2>1. /\ cloudq # <<>> /\ cloudq' = Tail(cloudq)
        /\ view' = [view EXCEPT ![r.node] = r.items]
    BY <1>2 DEF UpdateState
  <2>2. /\ r \in Reports /\ r = cloudq[1] /\ 1 \in DOMAIN cloudq
        /\ \A k \in DOMAIN cloudq' : k + 1 \in DOMAIN cloudq /\ 1 < k + 1
                                   /\ cloudq'[k] = cloudq[k + 1]
        /\ DOMAIN cloudq' \subseteq Nat
    BY <2>1, ReportTaken DEF Placed
  <2>3. r.node \in Nodes /\ r.items \in Tables /\ view \in [Nodes -> Tables]
    BY <2>2 DEF Reports, Placed, TypeOK
  <2> HIDE DEF r
  <2> SUFFICES ASSUME NEW n \in Nodes, NEW i \in Ids \ twice,
                      NEW k \in DOMAIN cloudq', NEW l \in DOMAIN cloudq', k < l,
                      Missing(cloudq', k, n, i),
                      view'[n][i] # None \/ \E j \in DOMAIN cloudq' : j < k /\ Shown(cloudq', j, n, i)
               PROVE  ~Shown(cloudq', l, n, i)
    BY <1>0 DEF NoReturn
  <2>4. /\ k + 1 \in DOMAIN cloudq /\ l + 1 \in DOMAIN cloudq /\ 1 < k + 1 /\ k + 1 < l + 1
        /\ Missing(cloudq, k + 1, n, i)
        /\ Shown(cloudq', l, n, i) => Shown(cloudq, l + 1, n, i)
    BY ONLY <2>2, k \in DOMAIN cloudq', l \in DOMAIN cloudq', k < l, Missing(cloudq', k, n, i)
      DEF Missing, Shown
  <2>5. view[n][i] # None \/ \E j \in DOMAIN cloudq : j < k + 1 /\ Shown(cloudq, j, n, i)
    <3>1. CASE view'[n][i] # None
      <4>1. view'[n][i] = IF r.node = n THEN r.items[i] ELSE view[n][i]
        BY ONLY <2>1, <2>3, n \in Nodes, i \in Ids
      <4>2. r.node = n => Shown(cloudq, 1, n, i)
        BY ONLY <2>2, <3>1, <4>1 DEF Shown
      <4> QED
        BY <2>2, <2>4, <3>1, <4>1, <4>2
    <3>2. ASSUME NEW j \in DOMAIN cloudq', j < k, Shown(cloudq', j, n, i)
          PROVE  \E m \in DOMAIN cloudq : m < k + 1 /\ Shown(cloudq, m, n, i)
      <4>1. j + 1 \in DOMAIN cloudq /\ j + 1 < k + 1 /\ Shown(cloudq, j + 1, n, i)
        BY ONLY <2>2, <3>2, k \in DOMAIN cloudq' DEF Shown
      <4> QED
        BY <4>1
    <3> QED
      BY <3>1, <3>2
  <2> QED
    BY ONLY <2>4, <2>5, NoReturn, n \in Nodes, i \in Ids \ twice DEF NoReturn
<1>3. CASE RestartCloud
  <2>1. cloudq' = cloudq /\ \A n \in Nodes, i \in Ids : view'[n][i] = None
    BY <1>3 DEF RestartCloud, queues, NoInstances
  <2> QED
    BY ONLY <1>0, <2>1, NoReturn DEF NoReturn
<1>4. CASE \E n \in Nodes : ReportState(n)
  <2>1. PICK n \in Nodes : ReportState(n)
    BY <1>4
  <2>2. n \in up /\ UNCHANGED <<view, table, domains>>
    BY <2>1 DEF ReportState, Free, cloud, nodes
  <2>3. /\ cloudq \in Seq(Reports) /\ [node |-> n, items |-> table[n]] \in Reports
        /\ cloudq' = Append(cloudq, [node |-> n, items |-> table[n]])
    BY <2>1 DEF ReportState, Placed, TypeOK, Reports
  <2>4. /\ DOMAIN cloudq = 1 .. Len(cloudq) /\ Len(cloudq) \in Nat
        /\ DOMAIN cloudq' = 1 .. Len(cloudq) + 1
        /\ \A k \in 1 .. Len(cloudq) : cloudq'[k] = cloudq[k]
        /\ cloudq'[Len(cloudq) + 1] = [node |-> n, items |-> table[n]]
    BY ONLY <2>3
  <2> SUFFICES ASSUME NEW m \in Nodes, NEW i \in Ids \ twice,
                      NEW k \in DOMAIN cloudq', NEW l \in DOMAIN cloudq', k < l,
                      Missing(cloudq', k, m, i), Shown(cloudq', l, m, i),
                      view'[m][i] # None \/ \E j \in DOMAIN cloudq' : j < k /\ Shown(cloudq', j, m, i)
               PROVE  FALSE
    BY <1>0 DEF NoReturn
  <2>5. k \in DOMAIN cloudq /\ Missing(cloudq, k, m, i)
    BY ONLY <2>4, k \in DOMAIN cloudq', l \in DOMAIN cloudq', k < l, Missing(cloudq', k, m, i)
      DEF Missing
  <2>6. view[m][i] # None \/ \E j \in DOMAIN cloudq : j < k /\ Shown(cloudq, j, m, i)
    <3>1. ASSUME NEW j \in DOMAIN cloudq', j < k, Shown(cloudq', j, m, i)
          PROVE  j \in DOMAIN cloudq /\ Shown(cloudq, j, m, i)
      <4>1. j \in 1 .. Len(cloudq)
        BY ONLY <2>4, <2>5, <3>1
      <4>2. cloudq'[j] = cloudq[j] /\ j \in DOMAIN cloudq
        BY ONLY <2>4, <4>1
      <4> QED
        BY ONLY <3>1, <4>2 DEF Shown
    <3> QED
      BY ONLY <2>2, <3>1, view'[m][i] # None \/ \E j \in DOMAIN cloudq' : j < k /\ Shown(cloudq', j, m, i)
  <2>7. l \notin DOMAIN cloudq
    <3>1. l \in DOMAIN cloudq => Shown(cloudq, l, m, i)
      BY ONLY <2>4, Shown(cloudq', l, m, i) DEF Shown
    <3> QED
      BY ONLY <2>5, <2>6, <3>1, k < l, NoReturn, m \in Nodes, i \in Ids \ twice DEF NoReturn
  <2>8. m = n /\ Present(n, i)
    <3>1. l = Len(cloudq) + 1
      BY ONLY <2>4, <2>7, l \in DOMAIN cloudq'
    <3> QED
      BY ONLY <2>4, <3>1, Shown(cloudq', l, m, i) DEF Shown, Present
  <2> QED
    BY ONLY <2>5, <2>6, <2>8, InOrder, n \in Nodes, i \in Ids \ twice DEF InOrder, Missing, Shown
<1> QED
  BY <1>1, <1>2, <1>3, <1>4, ReportsMove

(* Instances become pending in two steps.                                  *)
LEMMA PendingComes ==
  [Next]_vars => \/ pending' \subseteq pending \/ \E s \in Reservations : RunInstances(s)
                 \/ \E u \in Users : EnsureVpn(u)
BY DEF Next, vars, cloud, RunInstancesFails, Terminate, Launch, Remove, UpdateState, RestartCloud,
  NodeRun, NodeRefuses, Acknowledge, NodeTerminate, ReportState, CrashNode, StartNode

(* An instance that was with a node is neither listed nor there any more,  *)
(* and no report that is on its way has it.                                *)
Over(i) ==
  /\ Settled(i) /\ ~Listed(i)
  /\ \A n \in Nodes : ~Present(n, i)
  /\ \A k \in DOMAIN cloudq : cloudq[k].items[i] = None

(* Nothing brings it back.                                                 *)
LEMMA OverStays ==
  ASSUME Placed, Hosted, [Next]_vars, NEW i \in Ids, Over(i)
  PROVE  Over(i)'
<1>1. Settled(i)' /\ \A n \in Nodes : ~Present(n, i)'
  BY OnlyQueuedArrive DEF Over
<1>2. i \notin pending'
  <2>1. i \in used /\ i \notin pending
    BY DEF Over, Settled, Listed, Placed, Known
  <2>2. \A u : i \notin Fresh(u)
    BY <2>1 DEF Fresh
  <2>3. CASE pending' \subseteq pending
    BY <2>1, <2>3
  <2>4. ASSUME NEW s \in Reservations, RunInstances(s) PROVE i \notin pending'
    BY <2>1, <2>2, <2>4 DEF RunInstances
  <2>5. ASSUME NEW u \in Users, EnsureVpn(u) PROVE i \notin pending'
    BY <2>1, <2>2, <2>5 DEF EnsureVpn
  <2> QED
    BY <2>3, <2>4, <2>5, PendingComes
<1>3. /\ \A n \in Nodes : view'[n][i] = None
      /\ \A k \in DOMAIN cloudq' : cloudq'[k].items[i] = None
  <2>1. /\ \A n \in Nodes : view[n][i] = None
        /\ \A k \in DOMAIN cloudq : cloudq[k].items[i] = None
    BY DEF Over, Listed
  <2>2. CASE UNCHANGED <<view, cloudq>>
    BY ONLY <2>1, <2>2
  <2>3. CASE UpdateState
    <3>1. cloudq # <<>> /\ cloudq' = Tail(cloudq) /\ view \in [Nodes -> Tables]
          /\ view' = [view EXCEPT ![Head(cloudq).node] = Head(cloudq).items]
      BY <2>3 DEF UpdateState, Placed, TypeOK
    <3>2. /\ Head(cloudq) = cloudq[1] /\ 1 \in DOMAIN cloudq
          /\ \A k \in DOMAIN cloudq' : k + 1 \in DOMAIN cloudq /\ cloudq'[k] = cloudq[k + 1]
      BY <3>1, ReportTaken DEF Placed
    <3> QED
      BY ONLY <2>1, <3>1, <3>2
  <2>4. CASE RestartCloud
    BY <2>1, <2>4 DEF RestartCloud, queues, NoInstances
  <2>5. CASE \E n \in Nodes : ReportState(n)
    <3>1. PICK n \in Nodes : ReportState(n)
      BY <2>5
    <3>2. /\ cloudq \in Seq(Reports) /\ [node |-> n, items |-> table[n]] \in Reports
          /\ cloudq' = Append(cloudq, [node |-> n, items |-> table[n]]) /\ view' = view
      BY <3>1 DEF ReportState, cloud, Placed, TypeOK, Reports
    <3>3. table[n][i] = None
      BY DEF Over, Present
    <3> QED
      BY ONLY <2>1, <3>2, <3>3
  <2> QED
    BY <2>2, <2>3, <2>4, <2>5, ReportsMove
<1> QED
  BY <1>1, <1>2, <1>3 DEF Over, Listed

(* What a report takes out of the listing has left its node.               *)
LEMMA DelistedIsOver ==
  ASSUME Placed, InOrder, NoReturn, UpdateState, NEW i \in Ids \ twice, Listed(i), ~Listed(i)'
  PROVE  Over(i)'
<1> DEFINE r == Head(cloudq)
<1>1. /\ cloudq # <<>> /\ cloudq' = Tail(cloudq) /\ pending' = pending \ Has(r.items)
      /\ view' = [view EXCEPT ![r.node] = r.items]
      /\ UNCHANGED <<table, domains, unacked, ran, twice>>
  BY DEF UpdateState, nodes, history
<1>2. /\ r \in Reports /\ r = cloudq[1] /\ 1 \in DOMAIN cloudq
      /\ DOMAIN cloudq' \subseteq Nat
      /\ \A k \in DOMAIN cloudq' : k + 1 \in DOMAIN cloudq /\ 1 < k + 1
                                 /\ cloudq'[k] = cloudq[k + 1]
  BY <1>1, ReportTaken DEF Placed
<1>3. r.node \in Nodes /\ r.items \in Tables /\ view \in [Nodes -> Tables]
  BY <1>2 DEF Reports, Placed, TypeOK
<1> HIDE DEF r
<1>4. r.items[i] = None
  BY ONLY <1>1, <1>3, ~Listed(i)', i \in Ids DEF Listed
<1>5. view[r.node][i] # None
  BY ONLY <1>1, <1>3, <1>4, Listed(i), ~Listed(i)', i \in Ids DEF Listed, Has
<1>6. ran[i] = r.node /\ r.node # None
  BY <1>3, <1>5, CloudNames DEF Placed, Homes
<1>7. \A n \in Nodes : ~Present(n, i)
  <2>1. \A n \in Nodes : Present(n, i) => n = r.node
    BY <1>6 DEF Placed, Homes, Present
  <2>2. ~Present(r.node, i)
    BY ONLY <1>2, <1>3, <1>4, <1>5, InOrder, i \in Ids \ twice DEF InOrder
  <2> QED
    BY <2>1, <2>2
<1>8. ASSUME NEW k \in DOMAIN cloudq' PROVE cloudq'[k].items[i] = None
  <2>1. k + 1 \in DOMAIN cloudq /\ 1 < k + 1 /\ cloudq'[k] = cloudq[k + 1]
    BY <1>2
  <2>2. cloudq[k + 1].items[i] # None => cloudq[k + 1].node = r.node
    BY <1>6, <2>1 DEF Placed, Homes
  <2>3. ~Shown(cloudq, k + 1, r.node, i)
    BY ONLY <1>2, <1>3, <1>4, <1>5, <2>1, NoReturn, i \in Ids \ twice DEF NoReturn, Missing
  <2> QED
    BY <2>1, <2>2, <2>3 DEF Shown
<1>9. Settled(i)
  <2>1. ASSUME NEW n \in Nodes, unacked[n] = i PROVE view[r.node][i] = None
    <3>1. i # None
      BY CloudNames
    <3> QED
      BY <1>3, <2>1, <3>1 DEF Placed, Held, Unheard
  <2> QED
    BY <1>5, <1>6, <2>1 DEF Settled
<1> QED
  BY <1>1, <1>7, <1>8, <1>9 DEF Over, Settled, Present

(* An instance that a node's report takes out of the listing is gone from  *)
(* the node and its hypervisor, and what is gone so never comes back to    *)
(* the listing: no late report, restart of a node or of the controller and *)
(* no run message that comes back shows it again, unless the message had   *)
(* come back before, while a domain of the instance lived on.              *)
THEOREM DelistedForGood ==
  Spec => [][/\ \A i \in Ids : Over(i) => Over(i)'
             /\ UpdateState =>
                  \A i \in Ids \ twice : Listed(i) /\ ~Listed(i)' => Over(i)']_vars
<1>1. Init => NoReturn
  BY DEF Init, NoReturn
<1>2. Watched /\ NoReturn /\ [Next]_vars => NoReturn'
  BY NextNoReturn DEF Watched
<1>3. Watched /\ NoReturn /\ [Next]_vars =>
        /\ \A i \in Ids : Over(i) => Over(i)'
        /\ UpdateState => \A i \in Ids \ twice : Listed(i) /\ ~Listed(i)' => Over(i)'
  BY OverStays, DelistedIsOver DEF Watched
<1> QED
  BY <1>1, <1>2, <1>3, AlwaysWatched, PTL DEF Spec

-----------------------------------------------------------------------------
(* What is pending is not lost *)

(* Nobody has been told of the instance, so nobody can have ended it.      *)
Clean(i) ==
  \A n \in Nodes : /\ i \notin dying[n] /\ view[n][i] = None
                   /\ \A k \in DOMAIN nodeq[n] : nodeq[n][k] # i

PendingKnown == \A i \in pending : Clean(i) /\ (i \in failed \/ Live(i))

LEMMA UnusedIsClean ==
  ASSUME Placed, Hosted, NEW i \in Ids, i \notin used
  PROVE  Clean(i)
<1>1. ran[i] = None /\ i \notin twice
  BY DEF Placed, TypeOK, Known
<1>2. Unheard(i) /\ \A n \in Nodes : table[n][i] = None
  BY <1>1, QueuedUnheard
<1> QED
  BY ONLY <1>2, Hosted, i \in Ids DEF Clean, Unheard, Hosted

(* Only what is listed is terminated.                                      *)
LEMMA CleanStays ==
  ASSUME Placed, [Next]_vars, NEW i \in pending, i \in pending', Clean(i)
  PROVE  Clean(i)'
<1>0. i \in Ids
  BY DEF Placed, TypeOK
<1>1. \A n \in Nodes : view'[n][i] = None
  <2>1. \A n \in Nodes : view[n][i] = None
    BY DEF Clean
  <2>2. CASE UpdateState
    <3>1. cloudq # <<>> /\ pending' = pending \ Has(Head(cloudq).items)
          /\ view' = [view EXCEPT ![Head(cloudq).node] = Head(cloudq).items]
      BY <2>2 DEF UpdateState
    <3>2. Head(cloudq).items[i] = None
      BY ONLY <1>0, <3>1, i \in pending' DEF Has
    <3>3. view \in [Nodes -> Tables]
      BY DEF Placed, TypeOK
    <3> QED
      BY ONLY <2>1, <3>1, <3>2, <3>3
  <2>3. CASE RestartCloud
    BY <2>3 DEF RestartCloud
  <2> QED
    BY <2>1, <2>2, <2>3, ReportsMove DEF ReportState, cloud
<1>2. \A n \in Nodes : i \notin dying'[n] /\ \A k \in DOMAIN nodeq'[n] : nodeq'[n][k] # i
  <2> DEFINE Unended == \A n \in Nodes : i \notin dying'[n] /\ \A k \in DOMAIN nodeq'[n] : nodeq'[n][k] # i
  <2>1. \A n \in Nodes : i \notin dying[n] /\ \A k \in DOMAIN nodeq[n] : nodeq[n][k] # i
    BY DEF Clean
  <2>2. nodeq \in [Nodes -> Seq(Ids)] /\ dying \in [Nodes -> SUBSET Ids]
    BY DEF Placed, TypeOK
  <2>3. CASE UNCHANGED <<dying, nodeq>>
    BY ONLY <2>1, <2>3
  <2>4. ASSUME NEW j \in Ids, Terminate(j) PROVE Unended
    <3>1. j # i /\ dying' = dying
      BY <2>4 DEF Terminate, nodes
    <3>2. PICK m \in Nodes : nodeq' = [nodeq EXCEPT ![m] = Append(@, j)]
      BY <2>4 DEF Terminate
    <3>3. \A n \in Nodes : nodeq'[n] = IF n = m THEN Append(nodeq[m], j) ELSE nodeq[n]
      BY ONLY <2>2, <3>2
    <3>4. \A k \in DOMAIN Append(nodeq[m], j) :
            \/ Append(nodeq[m], j)[k] = j
            \/ k \in DOMAIN nodeq[m] /\ Append(nodeq[m], j)[k] = nodeq[m][k]
      BY ONLY <2>2, <2>4
    <3> QED
      BY ONLY <2>1, <3>1, <3>3, <3>4
  <2>5. ASSUME NEW m \in Nodes, NodeTerminate(m) PROVE Unended
    <3>1. /\ \A n \in Nodes : \A k \in DOMAIN nodeq'[n] : \E j \in DOMAIN nodeq[n] :
               nodeq'[n][k] = nodeq[n][j]
          /\ Head(nodeq[m]) = nodeq[m][1] /\ 1 \in DOMAIN nodeq[m]
          /\ \A n \in Nodes, j \in Ids :
               j \in dying'[n] => j \in dying[n] \/ (n = m /\ j = Head(nodeq[m]))
      BY <2>5, Terminated
    <3> QED
      BY ONLY <1>0, <2>1, <3>1, m \in Nodes
  <2>6. ASSUME NEW m \in Nodes, CrashNode(m) PROVE Unended
    <3>1. nodeq' = nodeq /\ \A n \in Nodes : dying'[n] = IF n = m THEN {} ELSE dying[n]
      BY <2>6, Crashed DEF CrashNode
    <3> QED
      BY ONLY <2>1, <3>1
  <2>7. ASSUME NEW m \in Nodes, NEW j \in Ids, Remove(m, j) PROVE Unended
    <3>1. nodeq' = nodeq /\ dying' = [dying EXCEPT ![m] = @ \ {j}]
      BY <2>7 DEF Remove, queues
    <3> QED
      BY ONLY <2>1, <2>2, <3>1
  <2>8. \/ UNCHANGED <<dying, nodeq>> \/ \E j \in Ids : Terminate(j)
        \/ \E m \in Nodes : NodeTerminate(m) \/ CrashNode(m) \/ \E j \in Ids : Remove(m, j)
    BY DEF Next, vars, queues, nodes, RunInstances, RunInstancesFails, EnsureVpn, Launch,
      UpdateState, RestartCloud, NodeRun, NodeRefuses, Acknowledge, ReportState, StartNode
  <2> QED
    BY <2>3, <2>4, <2>5, <2>6, <2>7, <2>8
<1> QED
  BY <1>1, <1>2 DEF Clean

(* What a crash returns waits again.                                       *)
LEMMA ReturnedWaits ==
  ASSUME Placed, NEW n \in Nodes, CrashNode(n), unacked[n] # None
  PROVE  \E k \in DOMAIN runq' : runq'[k] = unacked[n]
<1>1. /\ Len(runq) + 1 \in DOMAIN runq' /\ runq'[Len(runq) + 1] = unacked[n]
  BY Crashed
<1> QED
  BY <1>1

(* What waits for a node or is with one stays so, unless it is being shut  *)
(* down or its node loses it.                                              *)
LEMMA LiveStays ==
  ASSUME Placed, Hosted, [Next]_vars, NEW i \in Ids, Live(i), i \notin failed',
         \A n \in Nodes : i \notin dying[n]
  PROVE  Live(i)'
<1>1. CASE \E k \in DOMAIN runq : runq[k] = i
  <2>1. PICK k \in DOMAIN runq : runq[k] = i
    BY <1>1
  <2>2. runq \in Seq(Ids)
    BY DEF Placed, TypeOK
  <2>3. CASE k \in DOMAIN runq' /\ runq'[k] = i
    BY <2>3 DEF Live, Waiting
  <2>4. ASSUME NEW n \in Nodes, TakesRun(n) PROVE Live(i)'
    <3>1. /\ runq # <<>> /\ runq' = Tail(runq) /\ unacked'[n] = Head(runq)
          /\ Head(runq) = runq[1]
      BY <2>4, RunTaken DEF TakesRun
    <3>2. k # 1 => k - 1 \in DOMAIN runq' /\ runq'[k - 1] = i
      BY ONLY <2>1, <2>2, <3>1
    <3> QED
      BY <2>1, <3>1, <3>2 DEF Live, Waiting
  <2>5. ASSUME NEW s \in Reservations, runq' = runq \o s
        PROVE  k \in DOMAIN runq' /\ runq'[k] = i
    BY <2>1, <2>2, <2>5, ReservationSeq, ConcatProperties
  <2>6. ASSUME NEW j \in Ids, runq' = Append(runq, j)
        PROVE  k \in DOMAIN runq' /\ runq'[k] = i
    BY ONLY <2>1, <2>2, <2>6
  <2>7. ASSUME NEW n \in Nodes, CrashNode(n)
        PROVE  k \in DOMAIN runq' /\ runq'[k] = i
    BY <2>1, <2>7, Crashed
  <2>8. \/ runq' = runq
        \/ \E s \in Reservations : runq' = runq \o s
        \/ \E j \in Ids : runq' = Append(runq, j)
        \/ \E n \in Nodes : TakesRun(n) \/ CrashNode(n)
    BY DEF Next, vars, queues, RunInstances, RunInstancesFails, EnsureVpn, Fresh, Terminate, Launch,
      Remove, UpdateState, RestartCloud, NodeRun, NodeRefuses, Acknowledge, NodeTerminate,
      ReportState, StartNode
  <2> QED
    BY <2>1, <2>3, <2>4, <2>5, <2>6, <2>7, <2>8
<1>2. ASSUME NEW n \in Nodes, unacked[n] = i PROVE Live(i)'
  <2>1. i # None
    BY CloudNames
  <2>2. CASE unacked'[n] = i
    BY <2>2 DEF Live, Waiting
  <2>3. ASSUME NEW m \in Nodes, TakesRun(m) PROVE unacked'[n] = i
    BY <1>2, <2>1, <2>3, RunTaken
  <2>4. ASSUME NEW m \in Nodes, Acknowledge(m) PROVE Live(i)'
    <3>1. unacked' = [unacked EXCEPT ![m] = None] /\ UNCHANGED <<table, failed>>
      BY <2>4 DEF Acknowledge, history
    <3>2. table[n][i] # None
      BY ONLY <1>2, <3>1, Hosted, i \in Ids, i \notin failed' DEF Hosted
    <3> QED
      BY <3>1, <3>2 DEF Live, Present
  <2>5. ASSUME NEW m \in Nodes, CrashNode(m) PROVE Live(i)'
    <3>1. CASE m = n
      BY <1>2, <2>1, <2>5, <3>1, ReturnedWaits DEF Live, Waiting
    <3>2. CASE m # n
      BY <1>2, <2>2, <2>5, <3>2, Crashed
    <3> QED
      BY <3>1, <3>2
  <2>6. \/ unacked' = unacked
        \/ \E m \in Nodes : TakesRun(m) \/ Acknowledge(m) \/ CrashNode(m)
    BY DEF Next, vars, nodes, RunInstances, RunInstancesFails, EnsureVpn, Terminate, Launch,
      Remove, UpdateState, RestartCloud, NodeRun, NodeRefuses, NodeTerminate, ReportState,
      StartNode
  <2> QED
    BY <1>2, <2>2, <2>3, <2>4, <2>5, <2>6
<1>3. ASSUME NEW n \in Nodes, Present(n, i) PROVE Live(i)'
  <2>1. CASE Present(n, i)'
    BY <2>1 DEF Live
  <2>2. /\ table \in [Nodes -> [Ids -> States \cup {None}]] /\ domains \in [Nodes -> SUBSET Ids]
        /\ "NOSTATE" # None
    BY CloudNames DEF Placed, TypeOK, Tables, States
  <2>3. CASE UNCHANGED <<table, domains>>
    BY <1>3, <2>1, <2>3 DEF Present
  <2>4. ASSUME NEW m \in Nodes, NEW j \in Ids, Launch(m, j) PROVE Present(n, i)'
    <3>1. table'[n][i] # None <=> table[n][i] # None
      BY <2>4, Launched
    <3>2. i \in domains[n] => i \in domains'[n]
      BY <2>4, Launched
    <3> QED
      BY ONLY <1>3, <3>1, <3>2 DEF Present
  <2>5. ASSUME NEW m \in Nodes, NEW j \in Ids, Remove(m, j) PROVE Present(n, i)'
    <3>1. j \in dying[m] /\ domains' = domains /\ table' = [table EXCEPT ![m][j] = None]
      BY <2>5 DEF Remove
    <3>2. ~(m = n /\ j = i)
      BY <3>1
    <3> QED
      BY ONLY <1>3, <2>2, <3>1, <3>2, n \in Nodes, i \in Ids DEF Present
  <2>6. ASSUME NEW m \in Nodes, NodeRun(m) PROVE Present(n, i)'
    <3>1. domains' = domains /\ table' = [table EXCEPT ![m][Head(runq)] = "NOSTATE"]
      BY <2>6 DEF NodeRun
    <3> QED
      BY ONLY <1>3, <2>2, <3>1, n \in Nodes, i \in Ids DEF Present
  <2>7. ASSUME NEW m \in Nodes, NodeTerminate(m) PROVE Present(n, i)'
    <3>1. table'[n][i] # None <=> table[n][i] # None
      BY <2>7, Terminated
    <3>2. m \in up /\ (domains' = domains \/ \E a : domains' = [domains EXCEPT ![m] = @ \ {a}])
      BY <2>7 DEF NodeTerminate, Free
    <3>3. m = n /\ i \in domains[n] => table[n][i] # None
      BY <3>2 DEF Hosted
    <3>4. m # n => domains'[n] = domains[n]
      BY ONLY <2>2, <3>2, n \in Nodes
    <3> QED
      BY ONLY <1>3, <3>1, <3>3, <3>4 DEF Present
  <2>8. ASSUME NEW m \in Nodes, CrashNode(m) PROVE Live(i)'
    <3>1. CASE m = n
      <4>1. n \in up /\ failed' = (failed \cup (Has(table[n]) \ domains'[n])) \ {unacked[n]}
        BY <2>8, <3>1, Crashed
      <4>2. table[n][i] # None
        BY <1>3, <4>1 DEF Hosted, Present
      <4>3. i \in domains'[n] \/ i = unacked[n]
        BY <4>1, <4>2 DEF Has
      <4>4. i # None
        BY CloudNames
      <4>5. CASE i = unacked[n]
        BY <2>8, <3>1, <4>4, <4>5, ReturnedWaits DEF Live, Waiting
      <4> QED
        BY <4>3, <4>5 DEF Live, Present
    <3>2. CASE m # n
      <4>1. table'[n] = table[n] /\ domains'[n] = domains[n]
        BY <2>8, <3>2, Crashed
      <4> QED
        BY <1>3, <2>1, <4>1 DEF Present
    <3> QED
      BY <3>1, <3>2
  <2>9. ASSUME NEW m \in Nodes, StartNode(m) PROVE Present(n, i)'
    <3>1. /\ m \notin up /\ domains' = domains
          /\ table'[n][i] = IF n # m THEN table[n][i]
                            ELSE IF i \in domains[m] THEN "RUNNING" ELSE None
      BY <2>9, Started
    <3>2. table[m][i] = None
      BY <3>1 DEF Hosted
    <3> QED
      BY ONLY <1>3, <3>1, <3>2 DEF Present
  <2>10. \/ UNCHANGED <<table, domains>>
         \/ \E m \in Nodes : \/ \E j \in Ids : Launch(m, j) \/ Remove(m, j)
                             \/ NodeRun(m) \/ NodeTerminate(m) \/ CrashNode(m) \/ StartNode(m)
    BY DEF Next, vars, nodes, RunInstances, RunInstancesFails, EnsureVpn, Terminate, UpdateState,
      RestartCloud, NodeRefuses, Acknowledge, ReportState
  <2> QED
    BY <2>1, <2>3, <2>4, <2>5, <2>6, <2>7, <2>8, <2>9, <2>10
<1> QED
  BY <1>1, <1>2, <1>3 DEF Live, Waiting

LEMMA NextPendingKnown == Placed /\ Hosted /\ PendingKnown /\ [Next]_vars => PendingKnown'
<1> SUFFICES ASSUME Placed, Hosted, PendingKnown, [Next]_vars, NEW i \in pending'
             PROVE  Clean(i)' /\ (i \in failed' \/ Live(i)')
  BY DEF PendingKnown
<1>1. i \in failed => i \in failed' \/ Live(i)'
  <2>1. ASSUME NEW n \in Nodes, CrashNode(n), i \in failed
        PROVE  i \in failed' \/ Live(i)'
    <3>1. failed' = (failed \cup (Has(table[n]) \ domains'[n])) \ {unacked[n]}
      BY <2>1, Crashed
    <3>2. i # None
      BY <2>1, CloudNames DEF Placed, TypeOK
    <3>3. CASE i = unacked[n]
      BY <2>1, <3>2, <3>3, ReturnedWaits DEF Live, Waiting
    <3> QED
      BY <2>1, <3>1, <3>3
  <2>2. failed \subseteq failed' \/ \E n \in Nodes : CrashNode(n)
    BY DEF Next, vars, history, RunInstances, RunInstancesFails, EnsureVpn, Terminate, Launch,
      Remove, UpdateState, RestartCloud, NodeRun, NodeRefuses, Acknowledge, NodeTerminate,
      ReportState, StartNode
  <2> QED
    BY <2>1, <2>2
<1>2. CASE i \in pending
  <2>1. i \in Ids /\ Clean(i) /\ (i \in failed \/ Live(i))
    BY <1>2 DEF PendingKnown, Placed, TypeOK
  <2> QED
    BY <1>1, <1>2, <2>1, CleanStays, LiveStays DEF Clean
<1>3. ASSUME NEW s \in Reservations, RunInstances(s), i \notin pending
      PROVE  Clean(i)' /\ Live(i)'
  <2>1. PICK k \in DOMAIN s : i = s[k] /\ i \in Fresh(None)
    BY <1>3 DEF RunInstances
  <2>2. Clean(i) /\ UNCHANGED <<dying, view, nodeq>>
    BY <1>3, <2>1, UnusedIsClean DEF RunInstances, Fresh, nodes
  <2>3. Len(runq) + k \in DOMAIN runq' /\ runq'[Len(runq) + k] = i
    BY <1>3, <2>1, ReservationSeq, ConcatProperties DEF RunInstances, Placed, TypeOK
  <2> QED
    BY <2>2, <2>3 DEF Clean, Live, Waiting
<1>4. ASSUME NEW u \in Users, EnsureVpn(u), i \notin pending
      PROVE  Clean(i)' /\ Live(i)'
  <2>1. i \in Fresh(u) /\ runq' = Append(runq, i)
    BY <1>4 DEF EnsureVpn
  <2>2. Clean(i) /\ UNCHANGED <<dying, view, nodeq>>
    BY <1>4, <2>1, UnusedIsClean DEF EnsureVpn, Fresh, nodes
  <2>3. Len(runq) + 1 \in DOMAIN runq' /\ runq'[Len(runq) + 1] = i
    BY <2>1 DEF Placed, TypeOK
  <2> QED
    BY <2>2, <2>3 DEF Clean, Live, Waiting
<1> QED
  BY <1>2, <1>3, <1>4, PendingComes

(* An instance that is listed as pending, and that no node refused or lost,*)
(* is still in the queue of run messages or with a node, through crashes,  *)
(* messages that come back and restarts; and nobody can have ended it      *)
(* meanwhile.                                                              *)
THEOREM PendingIsCarried ==
  Spec => [](\A i \in pending : /\ i \in failed \/ Live(i)
                                /\ \A n \in Nodes : i \notin dying[n])
<1>1. Init => PendingKnown
  BY DEF Init, PendingKnown
<1>2. Watched /\ PendingKnown /\ [Next]_vars => PendingKnown'
  BY NextPendingKnown DEF Watched
<1>3. PendingKnown => \A i \in pending : /\ i \in failed \/ Live(i)
                                         /\ \A n \in Nodes : i \notin dying[n]
  BY DEF PendingKnown, Clean
<1> QED
  BY <1>1, <1>2, <1>3, AlwaysWatched, PTL DEF Spec

-----------------------------------------------------------------------------
(* The refinement *)

(* An instance is listed under the node that took it.                      *)
ListedAtHome ==
  \A i \in Ids \ twice :
    /\ (\E n \in Nodes : view[n][i] # None) => Where(i) = ran[i]
    /\ (\A n \in Nodes : view[n][i] = None) => Where(i) = None

LEMMA WhereIsHome == Placed => ListedAtHome
<1> SUFFICES ASSUME Placed, NEW i \in Ids \ twice
             PROVE  /\ (\E n \in Nodes : view[n][i] # None) => Where(i) = ran[i]
                    /\ (\A n \in Nodes : view[n][i] = None) => Where(i) = None
  BY DEF ListedAtHome
<1>1. ASSUME NEW n \in Nodes, view[n][i] # None PROVE Where(i) = ran[i]
  <2>1. \A m \in Nodes : view[m][i] # None => m = ran[i]
    BY DEF Placed, Homes
  <2>2. QED
    BY <1>1, <2>1 DEF Where
<1>2. (\A n \in Nodes : view[n][i] = None) => Where(i) = None
  BY DEF Where
<1>3. QED
  BY <1>1, <1>2

LEMMA RegistryInit == Init => Registry!Init
<1> SUFFICES ASSUME Init PROVE Registry!Init
  OBVIOUS
<1>1. \A i \in Ids : Where(i) = None /\ Home(i) = None
  BY DEF Init, NoInstances, Where, Home
<1>2. QED
  BY <1>1 DEF Init, Registry!Init

(* An id that was not given out is fresh in the registry.                  *)
LEMMA UnusedIsFresh ==
  ASSUME Placed, NEW i \in Ids, i \notin used
  PROVE  Registry!Fresh(i)
<1>1. i \notin pending /\ ran[i] = None /\ i \notin twice
  BY DEF Placed, TypeOK, Known
<1>2. \A n \in Nodes : view[n][i] = None
  BY <1>1, QueuedUnheard DEF Unheard
<1>3. Where(i) = None /\ Home(i) = None
  BY <1>1, <1>2, WhereIsHome DEF ListedAtHome, Home
<1>4. QED
  BY <1>1, <1>3 DEF Registry!Fresh

(* Taking a run message places nothing yet.                                *)
LEMMA TakenHasNoHome ==
  ASSUME Placed, NEW n \in Nodes, TakesRun(n), UNCHANGED twice
  PROVE  \A i \in Ids \ twice : Home(i)' = Home(i)
<1> DEFINE a == Head(runq)
<1>1. /\ a \in twice \/ ran[a] = None
      /\ \A m \in Nodes : unacked[m] # a
      /\ unacked[n] = None
      /\ \A m \in Nodes : unacked'[m] = IF m = n THEN a ELSE unacked[m]
      /\ \A i \in Ids : ran'[i] = IF i = a THEN n ELSE ran[i]
  BY RunTaken
<1> HIDE DEF a
<1> SUFFICES ASSUME NEW i \in Ids \ twice PROVE Home(i)' = Home(i)
  OBVIOUS
<1>2. CASE i = a
  BY <1>1, <1>2 DEF Home
<1>3. CASE i # a
  <2>1. i # None
    BY CloudNames
  <2>2. (\E m \in Nodes : unacked'[m] = i) <=> \E m \in Nodes : unacked[m] = i
    BY ONLY <1>1, <1>3, <2>1
  <2> QED
    BY <1>1, <1>3, <2>2 DEF Home
<1> QED
  BY <1>2, <1>3

(* An acknowledgement settles where the instance is.                       *)
LEMMA AcknowledgedIsPlaced ==
  ASSUME Placed, NEW n \in Nodes, Acknowledge(n), NEW a \in Ids, unacked[n] = a
  PROVE  /\ a \notin twice => Home(a) = None /\ Home(a)' = n
         /\ \A i \in Ids \ {a} : Home(i)' = Home(i)
<1>1. /\ unacked \in [Nodes -> Ids \cup {None}] /\ a # None
      /\ unacked' = [unacked EXCEPT ![n] = None] /\ ran' = ran
  BY CloudNames DEF Acknowledge, history, Placed, TypeOK
<1>2. /\ \A m \in Nodes : unacked[m] = a => m = n
      /\ a \notin twice => ran[a] = n
  BY <1>1 DEF Placed, Held
<1>3. \A m \in Nodes : unacked'[m] = IF m = n THEN None ELSE unacked[m]
  BY ONLY <1>1, n \in Nodes
<1>4. \A m \in Nodes : unacked'[m] # a
  BY ONLY <1>1, <1>2, <1>3
<1>5. a \notin twice => Home(a) = None /\ Home(a)' = n
  BY <1>1, <1>2, <1>4 DEF Home
<1>6. ASSUME NEW i \in Ids \ {a} PROVE Home(i)' = Home(i)
  <2>1. i # None
    BY CloudNames
  <2>2. (\E m \in Nodes : unacked'[m] = i) <=> \E m \in Nodes : unacked[m] = i
    BY ONLY <1>3, <1>6, <2>1, unacked[n] = a
  <2> QED
    BY <1>1, <2>2 DEF Home
<1> QED
  BY <1>5, <1>6

(* What a crash puts in doubt was with nobody for good; the rest stays.    *)
LEMMA CrashedIsDoubtful ==
  ASSUME Placed, NEW n \in Nodes, CrashNode(n), NEW i \in Ids \ twice
  PROVE  /\ i \notin twice' => Home(i)' = Home(i)
         /\ i \in twice' => /\ unacked[n] = i /\ Home(i) = None
                            /\ \A m \in Nodes : view[m][i] = None
<1> DEFINE b == unacked[n]
<1>1. /\ \A m \in Nodes : unacked'[m] = IF m = n THEN None ELSE unacked[m]
      /\ i # b => ran'[i] = ran[i]
      /\ i = b /\ i \notin twice' => ran'[i] = None
      /\ twice' \subseteq twice \cup ({b} \ {None})
  BY Crashed
<1>2. i # None
  BY CloudNames
<1>3. CASE i = b
  <2>1. /\ \A m \in Nodes : unacked[m] = i => m = n
        /\ ran[i] = n /\ \A m \in Nodes : view[m][i] = None
    BY <1>2, <1>3 DEF Placed, Held, Unheard
  <2>2. Home(i) = None
    BY <1>3 DEF Home
  <2> QED
    BY <1>1, <1>2, <1>3, <2>1, <2>2 DEF Home
<1>4. CASE i # b
  <2>1. (\E m \in Nodes : unacked'[m] = i) <=> \E m \in Nodes : unacked[m] = i
    BY <1>1, <1>2, <1>4
  <2> QED
    BY <1>1, <1>4, <2>1 DEF Home
<1> QED
  BY <1>3, <1>4

LEMMA RegistryStep == Placed /\ Placed' /\ [Next]_vars => [Registry!Next]_(Registry!vars)
<1> SUFFICES ASSUME Placed, Placed', [Next]_vars
             PROVE  Registry!Next \/ UNCHANGED Registry!vars
  OBVIOUS
<1>a. ListedAtHome /\ ListedAtHome'
  <2>1. ListedAtHome
    BY WhereIsHome
  <2>2. Placed' => ListedAtHome'
    BY WhereIsHome, PTL
  <2>3. QED
    BY <2>1, <2>2
<1>b. ASSUME UNCHANGED <<pending, view, twice>>, \A i \in Ids \ twice : Home(i)' = Home(i)
      PROVE  UNCHANGED Registry!vars
  BY <1>b DEF Registry!vars, Where
<1>c. ASSUME UNCHANGED view PROVE \A i \in Ids : Where(i)' = Where(i)
  BY <1>c DEF Where
<1>d. ASSUME UNCHANGED <<ran, unacked>> PROVE \A i \in Ids : Home(i)' = Home(i)
  BY <1>d DEF Home
<1>1. ASSUME NEW s \in Reservations, RunInstances(s) PROVE Registry!Next
  <2> DEFINE S == {s[k] : k \in DOMAIN s}
  <2>1. S \in SUBSET Ids
    BY ReservationSeq
  <2>2. \A i \in S : Registry!Fresh(i) /\ i \notin twice
    BY <1>1, <2>1, UnusedIsFresh DEF RunInstances, Fresh, Placed, TypeOK
  <2>3. pending' = pending \cup S /\ UNCHANGED <<view, ran, unacked, twice>>
    BY <1>1 DEF RunInstances, nodes
  <2>4. Registry!Request(S)
    BY <1>c, <1>d, <2>2, <2>3 DEF Registry!Request
  <2>5. QED
    BY <2>1, <2>4 DEF Registry!Next
<1>2. ASSUME NEW u \in Users, EnsureVpn(u) PROVE Registry!Next
  <2>1. PICK i \in Ids \ used : pending' = pending \cup {i} /\ UNCHANGED <<view, ran, unacked, twice>>
    BY <1>2 DEF EnsureVpn, Fresh, nodes
  <2>2. Registry!Fresh(i) /\ i \notin twice
    BY UnusedIsFresh DEF Placed, TypeOK
  <2>3. Registry!Request({i})
    BY <1>c, <1>d, <2>1, <2>2 DEF Registry!Request
  <2>4. QED
    BY <2>1, <2>3 DEF Registry!Next
<1>3. ASSUME NEW n \in Nodes, NodeRun(n) \/ NodeRefuses(n) PROVE UNCHANGED Registry!vars
  <2>1. TakesRun(n) /\ UNCHANGED <<pending, view, twice>>
    BY <1>3 DEF NodeRun, NodeRefuses, cloud
  <2> QED
    BY <1>b, <2>1, TakenHasNoHome
<1>4. ASSUME NEW n \in Nodes, Acknowledge(n) PROVE Registry!Next \/ UNCHANGED Registry!vars
  <2>1. PICK a \in Ids : unacked[n] = a
    BY <1>4 DEF Acknowledge, Placed, TypeOK
  <2>2. /\ a \notin twice => Home(a) = None /\ Home(a)' = n
        /\ \A i \in Ids \ {a} : Home(i)' = Home(i)
    BY <1>4, <2>1, AcknowledgedIsPlaced
  <2>3. UNCHANGED <<pending, view, twice>>
    BY <1>4 DEF Acknowledge, cloud, history
  <2>4. CASE a \in twice
    BY <1>b, <2>2, <2>3, <2>4
  <2>5. CASE a \notin twice
    <3>1. Registry!Place(a, n)
      BY <1>c, <2>2, <2>3, <2>5 DEF Registry!Place
    <3> QED
      BY <3>1 DEF Registry!Next
  <2> QED
    BY <2>4, <2>5
<1>5. ASSUME NEW n \in Nodes, CrashNode(n) PROVE Registry!Next \/ UNCHANGED Registry!vars
  <2>1. /\ twice \subseteq twice' /\ UNCHANGED <<pending, view>>
        /\ \A i \in twice' \ twice : unacked[n] = i
    BY <1>5, Crashed DEF CrashNode, cloud
  <2>2. \A i \in Ids \ twice :
          /\ i \notin twice' => Home(i)' = Home(i)
          /\ i \in twice' => Home(i) = None /\ \A m \in Nodes : view[m][i] = None
    BY <1>5, CrashedIsDoubtful
  <2>3. CASE twice' = twice
    BY <1>b, <2>1, <2>2, <2>3
  <2>4. CASE twice' # twice
    <3>1. PICK i \in twice' \ twice : TRUE
      BY <2>1, <2>4
    <3>2. i \in Ids /\ twice' = twice \cup {i}
      BY <2>1, <3>1 DEF Placed, TypeOK
    <3>3. Home(i) = None /\ Where(i) = None
      BY <1>a, <2>2, <3>1, <3>2 DEF ListedAtHome
    <3>4. \A j \in Ids : Where(j)' = Where(j)
      BY <1>c, <2>1
    <3>5. \A j \in Ids \ twice' : Home(j)' = Home(j)
      BY <2>1, <2>2
    <3>6. Registry!Doubt(i)
      BY ONLY <2>1, <3>1, <3>2, <3>3, <3>4, <3>5 DEF Registry!Doubt
    <3> QED
      BY <3>2, <3>6 DEF Registry!Next
  <2> QED
    BY <2>3, <2>4
<1>6. CASE UpdateState
  <2> DEFINE r == Head(cloudq)
             S == Has(r.items) \ twice
  <2>1. r \in Reports /\ 1 \in DOMAIN cloudq /\ r = cloudq[1]
    BY <1>6, ReportTaken DEF UpdateState, Placed
  <2>2. \A i \in S : ran[i] = r.node
    BY <2>1 DEF Placed, Homes, Has
  <2>3. \A i \in S : Home(i) = r.node
    <3>1. ASSUME NEW i \in S, NEW n \in Nodes, unacked[n] = i PROVE FALSE
      <4>1. i \in Ids \ twice /\ i # None /\ r.items[i] # None
        BY <3>1, CloudNames DEF Has
      <4>2. Unheard(i)
        BY <3>1, <4>1 DEF Placed, Held
      <4> QED
        BY <2>1, <4>1, <4>2 DEF Unheard
    <3> QED
      BY <2>2, <3>1 DEF Home
  <2>4. /\ pending' = pending \ Has(r.items)
        /\ view' = [view EXCEPT ![r.node] = r.items]
        /\ UNCHANGED <<ran, unacked, twice>>
    BY <1>6 DEF UpdateState, nodes, history
  <2>5. S \in SUBSET Ids /\ r.node \in Nodes /\ r.items \in Tables
    BY <2>1 DEF Has, Reports
  <2>6. view \in [Nodes -> Tables]
    BY DEF Placed, TypeOK
  <2>7. \A m \in Nodes : view'[m] = IF m = r.node THEN r.items ELSE view[m]
    BY ONLY <2>4, <2>5, <2>6
  <2>8. \A i \in Ids \ twice : i \in S <=> r.items[i] # None
    BY DEF Has
  <2> HIDE DEF S, r
  <2>9. \A i \in Ids \ twice :
          Where(i)' = IF i \in S THEN r.node
                      ELSE IF Where(i) = r.node THEN None ELSE Where(i)
    <3> TAKE i \in Ids \ twice
    <3>0. /\ (\E m \in Nodes : view'[m][i] # None) => Where(i)' = ran[i]
          /\ (\A m \in Nodes : view'[m][i] = None) => Where(i)' = None
      BY <1>a, <2>4 DEF ListedAtHome
    <3>1. CASE i \in S
      <4>1. view'[r.node][i] # None
        BY ONLY <2>5, <2>7, <2>8, <3>1, i \in Ids \ twice
      <4>2. QED
        BY <2>2, <2>5, <3>0, <3>1, <4>1
    <3>2. CASE i \notin S /\ \E m \in Nodes \ {r.node} : view[m][i] # None
      <4>1. PICK m \in Nodes \ {r.node} : view[m][i] # None
        BY <3>2
      <4>2. view'[m][i] # None
        BY <2>7, <4>1
      <4>3. ran[i] = m
        BY <4>1 DEF Placed, Homes
      <4>4. Where(i) = m /\ Where(i)' = m
        BY <1>a, <3>0, <4>1, <4>2, <4>3 DEF ListedAtHome
      <4>5. QED
        BY <3>2, <4>1, <4>4
    <3>3. CASE i \notin S /\ \A m \in Nodes \ {r.node} : view[m][i] = None
      <4>1. \A m \in Nodes : view'[m][i] = None
        BY <2>7, <2>8, <3>3
      <4>2. Where(i)' = None
        BY <3>0, <4>1
      <4>3. Where(i) = None \/ Where(i) = r.node
        <5>1. CASE view[r.node][i] = None
          BY <1>a, <3>3, <5>1 DEF ListedAtHome
        <5>2. CASE view[r.node][i] # None
          BY <1>a, <2>5, <5>2 DEF ListedAtHome, Placed, Homes
        <5>3. QED
          BY <5>1, <5>2
      <4>4. QED
        BY <3>3, <4>2, <4>3
    <3>4. QED
      BY <3>1, <3>2, <3>3
  <2>10. \A i \in Ids : Home(i)' = Home(i)
    BY ONLY <2>4 DEF Home
  <2>11. (pending \ twice)' = (pending \ twice) \ S
    BY <2>4 DEF S
  <2>12. r.node # None /\ S \cap twice = {}
    BY <2>5, CloudNames DEF S
  <2>13. PICK n \in Nodes, R \in SUBSET Ids : n = r.node /\ R = S
    BY <2>5
  <2>14. Registry!Report(n, R)
    <3>1. \A i \in S : (IF i \in twice THEN None ELSE Home(i)) = r.node
      BY ONLY <2>3, <2>12
    <3>2. \A i \in Ids :
            (IF i \in twice' THEN None ELSE Where(i)') =
              IF i \in S THEN r.node
              ELSE IF (IF i \in twice THEN None ELSE Where(i)) = r.node THEN None
              ELSE IF i \in twice THEN None ELSE Where(i)
      BY ONLY <2>4, <2>9, <2>12
    <3>3. [i \in Ids |-> IF i \in twice' THEN None ELSE Where(i)'] =
            [i \in Ids |-> IF i \in S THEN r.node
               ELSE IF [j \in Ids |-> IF j \in twice THEN None ELSE Where(j)][i] = r.node THEN None
               ELSE [j \in Ids |-> IF j \in twice THEN None ELSE Where(j)][i]]
      BY ONLY <3>2
    <3> QED
      BY ONLY <2>4, <2>5, <2>10, <2>11, <2>13, <3>1, <3>3 DEF Registry!Report
  <2>15. QED
    BY <2>14 DEF Registry!Next
<1>7. CASE RestartCloud
  <2>1. \A i \in Ids : Where(i)' = None
    BY <1>7 DEF RestartCloud, NoInstances, Where
  <2>2. pending' = {} /\ UNCHANGED <<ran, unacked, twice>>
    BY <1>7 DEF RestartCloud, nodes
  <2>3. Registry!Restart
    BY <1>d, <2>1, <2>2 DEF Registry!Restart
  <2> QED
    BY <2>3 DEF Registry!Next
<1>8. CASE UNCHANGED <<pending, view, ran, unacked, twice>>
  BY <1>b, <1>d, <1>8
<1>9. \/ UNCHANGED <<pending, view, ran, unacked, twice>> \/ UpdateState \/ RestartCloud
      \/ \E s \in Reservations : RunInstances(s)
      \/ \E u \in Users : EnsureVpn(u)
      \/ \E n \in Nodes : NodeRun(n) \/ NodeRefuses(n) \/ Acknowledge(n) \/ CrashNode(n)
  BY DEF Next, vars, cloud, nodes, history, RunInstancesFails, Terminate, Launch, Remove,
    NodeTerminate, ReportState, StartNode
<1> QED
  BY <1>1, <1>2, <1>3, <1>4, <1>5, <1>6, <1>7, <1>8, <1>9

(* The listing implements the registry: late and repeated reports, node    *)
(* crashes, run messages that come back and are taken by another node, and *)
(* restarts never list an instance under a node that did not take it for   *)
(* good, nor as pending again.                                             *)
THEOREM CloudImplementsRegistry == Spec => ImplementsRegistry
<1>1. Spec => []Placed
  BY AlwaysPlaced
<1>2. QED
  BY <1>1, RegistryInit, RegistryStep, PTL DEF Spec, ImplementsRegistry, Registry!Spec
=============================================================================
