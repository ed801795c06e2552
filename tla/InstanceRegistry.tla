--------------------------- MODULE InstanceRegistry ---------------------------
(***************************************************************************)
(* What the cloud controller promises about its listing of instances: an   *)
(* instance waits as pending, is placed on one node for good, is listed    *)
(* there by that node's reports only, and never goes back to pending.  Of  *)
(* an instance in doubt it promises nothing.                               *)
(***************************************************************************)
CONSTANTS Ids, Nodes, None

VARIABLES
  waiting,   \* ids listed as pending
  listed,    \* the node under which an id is listed, or None
  home,      \* the node an id was placed on, or None
  doubtful   \* ids in doubt

vars == <<waiting, listed, home, doubtful>>

Init ==
  /\ waiting = {}
  /\ listed = [i \in Ids |-> None]
  /\ home = [i \in Ids |-> None]
  /\ doubtful = {}

Fresh(i) == i \notin waiting \cup doubtful /\ listed[i] = None /\ home[i] = None

Request(S) ==
  /\ \A i \in S : Fresh(i)
  /\ waiting' = waiting \cup S
  /\ UNCHANGED <<listed, home, doubtful>>

Place(i, n) ==
  /\ home[i] = None /\ i \notin doubtful
  /\ home' = [home EXCEPT ![i] = n]
  /\ UNCHANGED <<waiting, listed, doubtful>>

(* The node that took it died before it said so, and left it running.      *)
Doubt(i) ==
  /\ home[i] = None
  /\ doubtful' = doubtful \cup {i}
  /\ waiting' = waiting \ {i}
  /\ UNCHANGED <<listed, home>>

(* A report of n lists S under n, and nothing else.                        *)
Report(n, S) ==
  /\ \A i \in S : home[i] = n
  /\ waiting' = waiting \ S
  /\ listed' = [i \in Ids |-> IF i \in S THEN n
                              ELSE IF listed[i] = n THEN None ELSE listed[i]]
  /\ UNCHANGED <<home, doubtful>>

(* The listing lives in memory only.                                       *)
Restart ==
  /\ waiting' = {}
  /\ listed' = [i \in Ids |-> None]
  /\ UNCHANGED <<home, doubtful>>

Next ==
  \/ \E S \in SUBSET Ids : Request(S)
  \/ \E i \in Ids : Doubt(i) \/ \E n \in Nodes : Place(i, n)
  \/ \E n \in Nodes, S \in SUBSET Ids : Report(n, S)
  \/ Restart

Spec == Init /\ [][Next]_vars
=============================================================================
