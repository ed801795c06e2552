---------------------------- MODULE CloudInstances ----------------------------
(***************************************************************************)
(* The instance half of nova/endpoint/cloud.py with the compute nodes it   *)
(* talks to: the listing of instances, the shared queue of run messages,   *)
(* each node's queue of terminate messages, the queue of the nodes'        *)
(* reports, and the cron that keeps a VPN instance per user.  A node is    *)
(* ComputeNode without its inner steps; a run message that it has handled  *)
(* and not acknowledged when it dies goes back to the queue, and any node  *)
(* may take it.                                                            *)
(* A definition that no other one uses is a mutated form of the one below  *)
(* it, with a plausible bug.                                               *)
(***************************************************************************)
EXTENDS Naturals, Sequences, FiniteSets

CONSTANTS
  Ids,         \* the ids that generate_uid may give
  Nodes, Users, None,
  VpnOf,       \* the user whose VPN an id is for, or None
  Terminable,  \* ids that callers may ask to terminate
  Restarts,    \* whether the cloud controller may restart
  Crashing,    \* the nodes that may crash
  Returning,   \* bound: the ids whose run message may come back
  MaxReports,  \* bound on the reports in their queue
  MaxTerminates  \* bound on the terminates in a node's queue

States == {"NOSTATE", "RUNNING", "SHUTDOWN"}

ASSUME CloudNames == None \notin Ids \cup Nodes \cup Users \cup States
ASSUME CloudParameters ==
  /\ VpnOf \in [Ids -> Users \cup {None}]
  /\ Terminable \subseteq Ids /\ Crashing \subseteq Nodes /\ Returning \subseteq Ids /\ Restarts \in BOOLEAN
  /\ MaxReports \in Nat \ {0} /\ MaxTerminates \in Nat

VARIABLES
  pending,    \* cloud.instances['pending']
  view,       \* cloud.instances of the nodes: node -> id -> state
  runq,       \* queue "compute": run_instance messages
  nodeq,      \* queues "compute.<node>": terminate_instance messages
  cloudq,     \* queue "cloud": the reports
  table,      \* Node._instances of the nodes: node -> id -> state
  building,   \* node -> ids whose image is being built
  dying,      \* node -> ids with a shutdown timer
  domains,    \* the hypervisors' domains: node -> set of ids
  up,         \* the nodes whose process runs
  unacked,    \* node -> the id whose run message it has not acknowledged
  used,       \* ids given out
  ran,        \* history: the node that took an id's run message
  orphans,    \* history: ids sent to a node by a request that then failed
  failed,     \* history: ids that a node refused or lost
  twice,      \* history: ids whose message came back while a domain of theirs lives
  restarted   \* history: the cloud controller was restarted

cloud == <<pending, view>>
queues == <<runq, nodeq, cloudq>>
nodes == <<table, building, dying, domains, up, unacked>>
history == <<used, ran, orphans, failed, twice, restarted>>
vars == <<cloud, queues, nodes, history>>

Tables == [Ids -> States \cup {None}]
NoInstances == [i \in Ids |-> None]
Has(t) == {i \in Ids : t[i] # None}
Reports == [node : Nodes, items : Tables]

TypeOK ==
  /\ pending \subseteq Ids
  /\ view \in [Nodes -> Tables] /\ table \in [Nodes -> Tables]
  /\ runq \in Seq(Ids) /\ nodeq \in [Nodes -> Seq(Ids)] /\ cloudq \in Seq(Reports)
  /\ building \in [Nodes -> SUBSET Ids] /\ dying \in [Nodes -> SUBSET Ids]
  /\ domains \in [Nodes -> SUBSET Ids] /\ up \subseteq Nodes
  /\ unacked \in [Nodes -> Ids \cup {None}] /\ ran \in [Ids -> Nodes \cup {None}]
  /\ used \subseteq Ids /\ orphans \subseteq used /\ failed \subseteq used /\ twice \subseteq used
  /\ restarted \in BOOLEAN

Init ==
  /\ pending = {} /\ view = [n \in Nodes |-> NoInstances]
  /\ runq = <<>> /\ nodeq = [n \in Nodes |-> <<>>] /\ cloudq = <<>>
  /\ table = [n \in Nodes |-> NoInstances]
  /\ building = [n \in Nodes |-> {}] /\ dying = [n \in Nodes |-> {}]
  /\ domains = [n \in Nodes |-> {}] /\ up = Nodes /\ unacked = [n \in Nodes |-> None]
  /\ used = {} /\ ran = [i \in Ids |-> None]
  /\ orphans = {} /\ failed = {} /\ twice = {} /\ restarted = FALSE

-----------------------------------------------------------------------------
(* The cloud controller *)

Fresh(u) == {i \in Ids \ used : VpnOf[i] = u}

(* The handler casts every instance of a reservation and then enters them  *)
(* all as pending.                                                         *)
RunInstances(s) ==
  /\ \A k \in DOMAIN s : s[k] \in Fresh(None)
  /\ used' = used \cup {s[k] : k \in DOMAIN s}
  /\ runq' = runq \o s
  /\ pending' = pending \cup {s[k] : k \in DOMAIN s}
  /\ UNCHANGED <<view, nodeq, cloudq, nodes, ran, orphans, failed, twice, restarted>>

RunInstancesFailsUncounted(s) ==
  /\ \A k \in DOMAIN s : s[k] \in Fresh(None)
  /\ orphans' = orphans \cup {s[k] : k \in DOMAIN s}
  /\ runq' = runq \o s
  /\ UNCHANGED <<cloud, nodeq, cloudq, nodes, used, ran, failed, twice, restarted>>

(* No address is left for a later instance of the reservation: the handler *)
(* raises, and those cast so far are not entered.                          *)
RunInstancesFails(s) ==
  /\ \A k \in DOMAIN s : s[k] \in Fresh(None)
  /\ used' = used \cup {s[k] : k \in DOMAIN s}
  /\ orphans' = orphans \cup {s[k] : k \in DOMAIN s}
  /\ runq' = runq \o s
  /\ UNCHANGED <<cloud, nodeq, cloudq, nodes, ran, failed, twice, restarted>>

Listed(i) == i \in pending \/ \E n \in Nodes : view[n][i] # None

IsVpnRunningOnNode(u) ==
  \E i \in Ids : VpnOf[i] = u /\ \E n \in Nodes : view[n][i] = "RUNNING"

IsVpnRunning(u) ==
  \E i \in Ids :
    /\ VpnOf[i] = u
    /\ i \in pending \/ \E n \in Nodes : view[n][i] \in {"NOSTATE", "RUNNING"}

(* cloudcron, for one user.                                                *)
EnsureVpn(u) ==
  /\ ~IsVpnRunning(u)
  /\ \E i \in Fresh(u) :
       /\ used' = used \cup {i}
       /\ runq' = Append(runq, i)
       /\ pending' = pending \cup {i}
  /\ UNCHANGED <<view, nodeq, cloudq, nodes, ran, orphans, failed, twice, restarted>>

TerminateAnywhere(i) ==
  /\ i \in Terminable \ pending
  /\ Listed(i)
  /\ \E n \in Nodes :
       /\ Len(nodeq[n]) < MaxTerminates
       /\ nodeq' = [nodeq EXCEPT ![n] = Append(@, i)]
  /\ UNCHANGED <<cloud, runq, cloudq, nodes, history>>

(* A pending instance cannot be terminated, and _get_by_id finds an id     *)
(* under any node that lists it.                                           *)
Terminate(i) ==
  /\ i \in Terminable \ pending
  /\ \E n \in Nodes :
       /\ view[n][i] # None
       /\ Len(nodeq[n]) < MaxTerminates
       /\ nodeq' = [nodeq EXCEPT ![n] = Append(@, i)]
  /\ UNCHANGED <<cloud, runq, cloudq, nodes, history>>

UpdateStateClears ==
  /\ cloudq # <<>>
  /\ pending' = {}
  /\ view' = [view EXCEPT ![Head(cloudq).node] = Head(cloudq).items]
  /\ cloudq' = Tail(cloudq)
  /\ UNCHANGED <<runq, nodeq, nodes, history>>

UpdateStateMerges ==
  /\ cloudq # <<>>
  /\ pending' = pending \ Has(Head(cloudq).items)
  /\ view' = [view EXCEPT ![Head(cloudq).node] =
                 [i \in Ids |-> IF Head(cloudq).items[i] = None THEN @[i]
                                ELSE Head(cloudq).items[i]]]
  /\ cloudq' = Tail(cloudq)
  /\ UNCHANGED <<runq, nodeq, nodes, history>>

UpdateStateKeepsPending ==
  /\ cloudq # <<>>
  /\ view' = [view EXCEPT ![Head(cloudq).node] = Head(cloudq).items]
  /\ cloudq' = Tail(cloudq)
  /\ UNCHANGED <<pending, runq, nodeq, nodes, history>>

UpdateState ==
  /\ cloudq # <<>>
  /\ pending' = pending \ Has(Head(cloudq).items)
  /\ view' = [view EXCEPT ![Head(cloudq).node] = Head(cloudq).items]
  /\ cloudq' = Tail(cloudq)
  /\ UNCHANGED <<runq, nodeq, nodes, history>>

(* The listing is lost, the queues are the broker's.                       *)
RestartCloud ==
  /\ Restarts
  /\ restarted' = TRUE
  /\ pending' = {} /\ view' = [n \in Nodes |-> NoInstances]
  /\ UNCHANGED <<queues, nodes, used, ran, orphans, failed, twice>>

-----------------------------------------------------------------------------
(* The compute nodes *)

(* The main thread takes the next message, or a timer's tick, when it has  *)
(* acknowledged the last.                                                  *)
Free(n) == n \in up /\ unacked[n] = None

(* Any node may take a run message.                                        *)
TakesRun(n) ==
  /\ Free(n) /\ runq # <<>>
  /\ runq' = Tail(runq)
  /\ unacked' = [unacked EXCEPT ![n] = Head(runq)]
  /\ ran' = [ran EXCEPT ![Head(runq)] = n]

NodeRun(n) ==
  /\ TakesRun(n)
  /\ table[n][Head(runq)] = None
  /\ table' = [table EXCEPT ![n][Head(runq)] = "NOSTATE"]
  /\ building' = [building EXCEPT ![n] = @ \cup {Head(runq)}]
  /\ UNCHANGED <<cloud, nodeq, cloudq, dying, domains, up, used, orphans, failed, twice, restarted>>

(* 'invalid instance type': the instance is never entered; or it has been  *)
(* adopted here already.                                                   *)
NodeRefuses(n) ==
  /\ TakesRun(n)
  /\ failed' = IF table[n][Head(runq)] = None THEN failed \cup {Head(runq)} ELSE failed
  /\ UNCHANGED <<cloud, nodeq, cloudq, table, building, dying, domains, up>>
  /\ UNCHANGED <<used, orphans, twice, restarted>>

Acknowledge(n) ==
  /\ unacked[n] # None
  /\ unacked' = [unacked EXCEPT ![n] = None]
  /\ UNCHANGED <<cloud, queues, table, building, dying, domains, up, history>>

(* _launch, whatever the instance's state has become.                      *)
Launch(n, i) ==
  /\ i \in building[n]
  /\ building' = [building EXCEPT ![n] = @ \ {i}]
  /\ \/ /\ domains' = [domains EXCEPT ![n] = @ \cup {i}]
        /\ table' = [table EXCEPT ![n][i] = "RUNNING"]
     \/ UNCHANGED <<domains, table>>
  /\ UNCHANGED <<cloud, queues, dying, up, unacked, history>>

(* terminate_instance: without a domain the instance stays as SHUTDOWN.  A *)
(* message that comes again is one that its caller sent twice.             *)
NodeTerminate(n) ==
  /\ Free(n) /\ nodeq[n] # <<>>
  /\ nodeq' = [nodeq EXCEPT ![n] = Tail(@)]
  /\ LET i == Head(nodeq[n])
     IN IF table[n][i] = None
        THEN UNCHANGED <<table, domains, dying>>
        ELSE /\ table' = [table EXCEPT ![n][i] = "SHUTDOWN"]
             /\ domains' = [domains EXCEPT ![n] = @ \ {i}]
             /\ dying' = [dying EXCEPT ![n] = @ \cup ({i} \cap domains[n])]
  /\ UNCHANGED <<cloud, runq, cloudq, building, up, unacked, history>>

(* The shutdown timer's tick.                                              *)
Remove(n, i) ==
  /\ Free(n) /\ i \in dying[n]
  /\ dying' = [dying EXCEPT ![n] = @ \ {i}]
  /\ table' = [table EXCEPT ![n][i] = None]
  /\ UNCHANGED <<cloud, queues, building, domains, up, unacked, history>>

ReportState(n) ==
  /\ Free(n) /\ Len(cloudq) < MaxReports
  /\ cloudq' = Append(cloudq, [node |-> n, items |-> table[n]])
  /\ UNCHANGED <<cloud, runq, nodeq, nodes, history>>

Back(n) == {unacked[n]} \ {None}

(* The process dies with its table, timers and workers; the domains stay,  *)
(* or go with the host.  The broker gives back what was not acknowledged   *)
(* (where in the queue is of no account).                                  *)
CrashNode(n) ==
  /\ n \in up \cap Crashing /\ Back(n) \subseteq Returning
  /\ up' = up \ {n}
  /\ table' = [table EXCEPT ![n] = NoInstances]
  /\ domains' \in {domains, [domains EXCEPT ![n] = {}]}
  /\ building' = [building EXCEPT ![n] = {}] /\ dying' = [dying EXCEPT ![n] = {}]
  /\ runq' = IF unacked[n] = None THEN runq ELSE Append(runq, unacked[n])
  /\ unacked' = [unacked EXCEPT ![n] = None]
  /\ twice' = twice \cup (Back(n) \cap domains'[n])
  /\ ran' = [i \in Ids |-> IF i \in Back(n) \ twice' THEN None ELSE ran[i]]
  /\ failed' = (failed \cup (Has(table[n]) \ domains'[n])) \ Back(n)
  /\ UNCHANGED <<cloud, nodeq, cloudq, used, orphans, restarted>>

(* adopt_instances.                                                        *)
StartNode(n) ==
  /\ n \notin up
  /\ up' = up \cup {n}
  /\ table' = [table EXCEPT ![n] =
                 [i \in Ids |-> IF i \in domains[n] THEN "RUNNING" ELSE None]]
  /\ UNCHANGED <<cloud, queues, building, dying, domains, unacked, history>>

-----------------------------------------------------------------------------
Reservations == {<<i>> : i \in Ids} \cup {s \in Ids \X Ids : s[1] # s[2]}

Next ==
  \/ \E s \in Reservations : RunInstances(s) \/ RunInstancesFails(s)
  \/ \E u \in Users : EnsureVpn(u)
  \/ \E i \in Ids : Terminate(i)
  \/ UpdateState \/ RestartCloud
  \/ \E n \in Nodes :
       \/ NodeRun(n) \/ NodeRefuses(n) \/ Acknowledge(n) \/ NodeTerminate(n)
       \/ ReportState(n) \/ CrashNode(n) \/ StartNode(n)
       \/ \E i \in Ids : Launch(n, i) \/ Remove(n, i)

Spec == Init /\ [][Next]_vars

(* The handlers of the cloud controller and of a node that runs keep being *)
(* called, and a running node keeps reporting.                             *)
FairSpec ==
  /\ Spec
  /\ WF_vars(UpdateState)
  /\ \A n \in Nodes :
       /\ WF_vars(NodeRun(n) \/ NodeRefuses(n)) /\ WF_vars(Acknowledge(n))
       /\ WF_vars(NodeTerminate(n))
       /\ SF_vars(ReportState(n))
       /\ \A i \in Ids : WF_vars(Remove(n, i))

-----------------------------------------------------------------------------
(* Properties *)

(* Nobody loses sight of an instance: what waits for a node is listed as   *)
(* pending, and what a node has is listed, however late its reports are    *)
(* and whoever takes a message that came back, unless its reservation      *)
(* failed half-way, the controller restarted, or the message came back     *)
(* while a domain of the instance lives on.                                *)
NothingInvisible ==
  ~restarted =>
    /\ \A k \in DOMAIN runq : runq[k] \in pending \cup orphans \cup twice
    /\ \A n \in Nodes, i \in Ids \ (orphans \cup twice) : table[n][i] # None => Listed(i)

(* The cron never gives a user a second VPN instance while one may run, as *)
(* long as the controller is not restarted.  One that may be on two nodes  *)
(* does not count.                                                         *)
AtMostOneVpn ==
  ~restarted =>
    \A u \in Users :
      Cardinality({i \in Ids \ twice :
        VpnOf[i] = u /\ \E n \in Nodes : i \in domains[n]}) <= 1

(* A terminate message goes to the node that has the instance, also when   *)
(* another node had taken it first and died.                               *)
TerminateGoesHome ==
  \A n \in Nodes : \A k \in DOMAIN nodeq[n] :
    nodeq[n][k] \in twice \/ ran[nodeq[n][k]] = n

Where(i) ==
  IF \E n \in Nodes : view[n][i] # None
  THEN CHOOSE n \in Nodes : view[n][i] # None
  ELSE None

(* The node that took it for good: that acknowledged its message.          *)
Home(i) == IF \E n \in Nodes : unacked[n] = i THEN None ELSE ran[i]

Registry == INSTANCE InstanceRegistry
  WITH waiting <- pending \ twice,
       listed <- [i \in Ids |-> IF i \in twice THEN None ELSE Where(i)],
       home <- [i \in Ids |-> IF i \in twice THEN None ELSE Home(i)],
       doubtful <- twice

(* The listing implements the registry: late and repeated reports, crashes *)
(* of nodes, messages that come back and restarts never list an id twice,  *)
(* under another node, or as pending again.                                *)
ImplementsRegistry == Registry!Spec

SomeNodeDown == up # Nodes

(* A pending instance is taken out of pending, unless a node refused it or *)
(* died with it.                                                           *)
PendingEnds ==
  \A i \in Ids : i \in pending ~> i \notin pending \/ i \in failed \/ SomeNodeDown

(* An instance that its node no longer has disappears from the listing.    *)
Gone(i) == ran[i] # None /\ table[ran[i]][i] = None /\ i \notin twice
ListingCatchesUp ==
  \A i \in Ids : Gone(i) /\ i \notin pending ~> ~Listed(i) \/ SomeNodeDown
=============================================================================
