------------------------ MODULE AddressLedger_proofs ------------------------
(* The ledger's records have their types and bind a target only once.      *)
EXTENDS AddressLedger, TLAPS

(* The ledger stays a function from addresses to records, while it lasts.  *)
THEOREM LedgerType == Spec => []TypeOK
<1>1. Init => TypeOK
  BY DEF Init, TypeOK, Ledgers
<1>2. TypeOK /\ [Next]_vars => TypeOK'
  <2> SUFFICES ASSUME TypeOK, [Next]_vars PROVE TypeOK'
    OBVIOUS
  <2> USE DEF TypeOK, Ledgers, Records
  <2>1. ASSUME NEW p \in Addresses, NEW u \in Owners, Allocate(p, u) PROVE TypeOK'
    BY <2>1 DEF Allocate
  <2>2. ASSUME NEW p \in Addresses, Release(p) PROVE TypeOK'
    BY <2>2 DEF Release
  <2>3. ASSUME NEW p \in Addresses, NEW x \in Targets, Associate(p, x) PROVE TypeOK'
    <3>1. now[p] \in Records
      BY <2>3 DEF Associate
    <3> QED BY <2>3, <3>1 DEF Associate
  <2>4. CASE Save
    BY <2>4 DEF Save
  <2>5. CASE Restart
    BY <2>5 DEF Restart
  <2>6. CASE Lose
    BY <2>6 DEF Lose
  <2>7. CASE UNCHANGED vars
    BY <2>7 DEF vars
  <2> QED BY <2>1, <2>2, <2>3, <2>4, <2>5, <2>6, <2>7 DEF Next
<1> QED BY <1>1, <1>2, PTL DEF Spec

(* Whatever calls, saves and restarts happen, a target is bound to at most *)
(* one address.                                                            *)
THEOREM LedgerBindsOnce == Spec => []TargetsBoundOnce
<1>1. Init => TargetsBoundOnce
  BY DEF Init, TargetsBoundOnce, OneTarget, Bound
<1>2. TypeOK /\ TargetsBoundOnce /\ [Next]_vars => TargetsBoundOnce'
  <2> SUFFICES ASSUME TypeOK, TargetsBoundOnce, [Next]_vars PROVE TargetsBoundOnce'
    OBVIOUS
  <2> USE DEF TypeOK, Ledgers, Records, TargetsBoundOnce, OneTarget, Bound
  <2>1. ASSUME NEW p \in Addresses, NEW u \in Owners, Allocate(p, u) PROVE TargetsBoundOnce'
    BY <2>1 DEF Allocate
  <2>2. ASSUME NEW p \in Addresses, Release(p) PROVE TargetsBoundOnce'
    BY <2>2 DEF Release
  <2>3. ASSUME NEW p \in Addresses, NEW x \in Targets, Associate(p, x) PROVE TargetsBoundOnce'
    <3>1. now'[p].private = x
      BY <2>3 DEF Associate
    <3>2. \A q \in Addresses \ {p} : now'[q] = now[q]
      BY <2>3 DEF Associate
    <3>3. OneTarget(now')
      BY <2>3, <3>1, <3>2 DEF Associate
    <3> QED BY <2>3, <3>3 DEF Associate
  <2>4. CASE Save
    BY <2>4 DEF Save
  <2>5. CASE Restart
    BY <2>5 DEF Restart
  <2>6. CASE Lose
    BY <2>6 DEF Lose
  <2>7. CASE UNCHANGED vars
    BY <2>7 DEF vars
  <2> QED BY <2>1, <2>2, <2>3, <2>4, <2>5, <2>6, <2>7 DEF Next
<1> QED BY <1>1, <1>2, LedgerType, PTL DEF Spec
=============================================================================
