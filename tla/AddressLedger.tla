---------------------------- MODULE AddressLedger ----------------------------
(***************************************************************************)
(* What the network controller promises about public addresses, without    *)
(* its VLANs, its private networks and its file-by-file saving: a ledger   *)
(* of records that calls change one at a time, that is written down whole, *)
(* and that a restart takes back to what was written down last; or it is   *)
(* lost for good, when the process dies while it is written down.          *)
(***************************************************************************)
CONSTANTS Addresses, Owners, Targets,
          None   \* no record, no target, no ledger

VARIABLES now, saved

vars == <<now, saved>>

Records == [owner : Owners, private : Targets \cup {None}]
Ledgers == [Addresses -> Records \cup {None}]

Bound(ledger, p) == ledger[p] # None /\ ledger[p].private # None

Init == now \in {[p \in Addresses |-> None], None} /\ saved = now

Allocate(p, u) ==
  /\ now # None
  /\ now[p] = None
  /\ now' = [now EXCEPT ![p] = [owner |-> u, private |-> None]]
  /\ UNCHANGED saved

Release(p) ==
  /\ now # None
  /\ now[p] # None
  /\ now' = [now EXCEPT ![p] = None]
  /\ UNCHANGED saved

Associate(p, x) ==
  /\ now # None
  /\ now[p] # None
  /\ ~Bound(now, p)
  /\ \A q \in Addresses : Bound(now, q) => now[q].private # x
  /\ now' = [now EXCEPT ![p].private = x]
  /\ UNCHANGED saved

Save == saved' = now /\ UNCHANGED now

Restart == now' = saved /\ UNCHANGED saved

Lose == now' = None /\ saved' = None

Next ==
  \/ \E p \in Addresses :
       \/ \E u \in Owners : Allocate(p, u)
       \/ Release(p)
       \/ \E x \in Targets : Associate(p, x)
  \/ Save
  \/ Restart
  \/ Lose

Spec == Init /\ [][Next]_vars

TypeOK == now \in Ledgers \cup {None} /\ saved \in Ledgers \cup {None}

OneTarget(ledger) ==
  ledger # None => \A p, q \in Addresses :
    Bound(ledger, p) /\ Bound(ledger, q) /\ ledger[p].private = ledger[q].private
      => p = q

(* A target is bound to at most one address, now and after a restart.      *)
TargetsBoundOnce == OneTarget(now) /\ OneTarget(saved)
=============================================================================
