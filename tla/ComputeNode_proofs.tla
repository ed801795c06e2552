------------------------- MODULE ComputeNode_proofs -------------------------
(* Proofs about ComputeNode: its type invariant, and that no domain runs    *)
(* unmanaged, for any number of instances, workers and restarts.            *)
EXTENDS ComputeNode, TLAPS

(* Where a domain that nova created is accounted for.                      *)
DomainsUsed == \A i \in Ids : i \in domains => i \in used
DomainsKept ==
  \A i \in Ids :
    /\ i \in domains /\ phase = "serving" => instances[i] = i
    /\ i \in domains /\ phase = "adopting" => i \in todo \/ instances[i] = i

(* The names of the table and the ids still to adopt have been delivered.  *)
NamesUsed == \A i \in Ids : instances[i] # None \/ i \in todo => i \in used

(* A job belongs to an entry of the table that has no domain yet.          *)
JobsKept ==
  \A i \in Ids :
    job[i] # "none" => phase = "serving" /\ instances[i] = i /\ i \notin domains

(* destroy() still finds the entry it was called for.                      *)
MainKept == main # None => phase = "serving" /\ instances[main.key] = main.obj

(* A shutdown timer never stands for a name that is or will be a domain.   *)
TimersGone ==
  \A t \in timers :
    t.key \in Ids => t.key \notin domains /\ job[t.key] = "none" /\ t.key \in used

(* A message that will be delivered again finds no timer and no handler.   *)
RedeliveredFirst ==
  unacked # None /\ ~handled => timers = {} /\ main = None

OnlyServing == phase # "serving" => timers = {} /\ main = None

Managed ==
  /\ TypeOK /\ DomainsUsed /\ DomainsKept /\ NamesUsed /\ JobsKept
  /\ MainKept /\ TimersGone /\ RedeliveredFirst /\ OnlyServing

LEMMA InitManaged == Init => Managed
  BY NameAssumption DEF Managed, DomainsUsed, DomainsKept, NamesUsed, JobsKept, MainKept, TimersGone, RedeliveredFirst, OnlyServing, TypeOK, Names, Timers, States, process, outside, Init, Empty, Nothing

LEMMA NextManaged == Managed /\ [Next]_vars => Managed'
<1> SUFFICES ASSUME Managed, [Next]_vars PROVE Managed'
  OBVIOUS
<1> USE NameAssumption DEF Managed, DomainsUsed, DomainsKept, NamesUsed, JobsKept,
      MainKept, TimersGone, RedeliveredFirst, OnlyServing, TypeOK, Names, Timers, States,
      process, outside
<1>1. CASE Start
  BY <1>1 DEF Start
<1>2. CASE Acknowledge
  BY <1>2 DEF Acknowledge
<1>3. CASE Adopted
  BY <1>3 DEF Adopted
<1>4. CASE LaunchEnds
  BY <1>4 DEF LaunchEnds
<1>5. CASE DestroyDomain
  <2>1. TypeOK'
    <3>1. main \in [obj : Ids, key : Names]
      BY <1>5 DEF DestroyDomain
    <3>2. [obj |-> main.obj, key |-> main.key, fired |-> FALSE] \in Timers
      BY <3>1
    <3>3. QED
      BY <1>5, <3>2 DEF DestroyDomain
  <2>2. DomainsUsed' /\ DomainsKept'
    BY <1>5 DEF DestroyDomain
  <2>3. NamesUsed'
    BY <1>5 DEF DestroyDomain
  <2>4. JobsKept'
    BY <1>5 DEF DestroyDomain
  <2>5. MainKept'
    BY <1>5 DEF DestroyDomain
  <2>6. TimersGone'
    BY <1>5 DEF DestroyDomain
  <2>7. RedeliveredFirst' /\ OnlyServing'
    BY <1>5 DEF DestroyDomain
  <2> QED
    BY <2>1, <2>2, <2>3, <2>4, <2>5, <2>6, <2>7
<1>6. CASE DestroyFails
  BY <1>6 DEF DestroyFails
<1>7. CASE Crash
  BY <1>7 DEF Crash, Forget, Nothing
<1>8. ASSUME NEW n \in Names, Adopt(n) PROVE Managed'
  <2>1. TypeOK'
    <3>1. CASE CanAdopt(n)
      BY <1>8, <3>1 DEF Adopt, CanAdopt
    <3>2. CASE ~CanAdopt(n) /\ previous # None
      BY <1>8, <3>2 DEF Adopt
    <3>3. CASE ~CanAdopt(n) /\ previous = None
      <4>1. phase' = "down" /\ Forget /\ UNCHANGED <<domains, outside>>
        BY <1>8, <3>3 DEF Adopt
      <4>2. QED
        BY <4>1 DEF Forget, Nothing
    <3>4. QED
      BY <3>1, <3>2, <3>3
  <2>2. DomainsUsed' /\ DomainsKept'
    BY <1>8 DEF Adopt, CanAdopt, Forget, Nothing
  <2>3. NamesUsed'
    BY <1>8 DEF Adopt, CanAdopt, Forget, Nothing
  <2>4. JobsKept'
    BY <1>8 DEF Adopt, CanAdopt, Forget, Nothing
  <2>5. MainKept'
    BY <1>8 DEF Adopt, CanAdopt, Forget, Nothing
  <2>6. TimersGone'
    BY <1>8 DEF Adopt, CanAdopt, Forget, Nothing
  <2>7. RedeliveredFirst' /\ OnlyServing'
    BY <1>8 DEF Adopt, CanAdopt, Forget, Nothing
  <2> QED
    BY <2>1, <2>2, <2>3, <2>4, <2>5, <2>6, <2>7
<1>9. ASSUME NEW n \in Names, Terminate(n) PROVE Managed'
  BY <1>9 DEF Terminate, Free
<1>10. ASSUME NEW n \in Names, Reboot(n) PROVE Managed'
  BY <1>10 DEF Reboot, CanReboot, Free
<1>11. ASSUME NEW n \in Names, DomainDies(n) PROVE Managed'
  BY <1>11 DEF DomainDies
<1>12. ASSUME NEW i \in Ids, RunInstance(i) PROVE Managed'
  BY <1>12 DEF RunInstance, Delivered
<1>13. ASSUME NEW i \in Ids, RunInstanceFails(i) PROVE Managed'
  BY <1>13 DEF RunInstanceFails, Delivered
<1>14. ASSUME NEW i \in Ids, BuildStart(i) PROVE Managed'
  BY <1>14 DEF BuildStart
<1>15. ASSUME NEW i \in Ids, BuildEnd(i) PROVE Managed'
  BY <1>15 DEF BuildEnd
<1>16. ASSUME NEW i \in Ids, LaunchFails(i) PROVE Managed'
  BY <1>16 DEF LaunchFails
<1>17. ASSUME NEW i \in Ids, LaunchCreates(i) PROVE Managed'
  BY <1>17 DEF LaunchCreates
<1>18. ASSUME NEW t \in timers, Tick(t) PROVE Managed'
  <2>1. TypeOK'
    <3>1. t \in Timers /\ timers \subseteq Timers
      BY <1>18 DEF Tick
    <3>2. [t EXCEPT !.fired = TRUE] \in Timers
      BY ONLY <3>1 DEF Timers
    <3>3. timers' \subseteq Timers /\ t.obj \in Ids /\ t.key \in Names
      BY ONLY <1>18, <3>1, <3>2 DEF Tick, Timers
    <3>4. state' \in [Ids -> States] /\ instances' \in [Names -> Ids \cup {None}]
      BY ONLY <1>18, <3>3, TypeOK DEF Tick, TypeOK, States
    <3> QED
      BY ONLY <1>18, <3>3, <3>4, TypeOK DEF Tick, TypeOK, outside
  <2>2. DomainsUsed' /\ DomainsKept'
    BY <1>18 DEF Tick, Free
  <2>3. NamesUsed'
    BY <1>18 DEF Tick, Free
  <2>4. JobsKept'
    BY <1>18 DEF Tick, Free
  <2>5. MainKept'
    BY <1>18 DEF Tick, Free
  <2>6. TimersGone'
    BY <1>18 DEF Tick, Free
  <2>7. RedeliveredFirst' /\ OnlyServing'
    BY <1>18 DEF Tick, Free
  <2> QED
    BY <2>1, <2>2, <2>3, <2>4, <2>5, <2>6, <2>7
<1>19. CASE UNCHANGED vars
  BY <1>19 DEF vars
<1> QED
  BY <1>1, <1>2, <1>3, <1>4, <1>5, <1>6, <1>7, <1>8, <1>9, <1>10, <1>11, <1>12, <1>13, <1>14, <1>15, <1>16, <1>17, <1>18, <1>19 DEF Next

LEMMA AlwaysManaged == Spec => []Managed
<1>1. QED
  BY InitManaged, NextManaged, PTL DEF Spec

(* Every variable of the node keeps its type.                              *)
THEOREM NodeTypeCorrect == Spec => []TypeOK
<1>1. Managed => TypeOK
  BY DEF Managed
<1>2. QED
  BY <1>1, AlwaysManaged, PTL

(* While the node serves, every domain that nova created has its own entry *)
(* in the table, so that terminate, reboot and report_state reach it.      *)
THEOREM NothingUnmanaged == Spec => []NoUnmanagedDomain
<1>1. Managed => NoUnmanagedDomain
  BY DEF Managed, DomainsKept, NoUnmanagedDomain
<1>2. QED
  BY <1>1, AlwaysManaged, PTL

-----------------------------------------------------------------------------
(* Running instances *)

(* Another name of the table, destroy() or a timer stands for object i: a  *)
(* name that adopt_instances could not adopt got the object before it.     *)
Aliased(i) ==
  \/ \E n \in Names \ {i} : instances[n] = i
  \/ main # None /\ main.obj = i /\ main.key # i
  \/ \E t \in timers : t.obj = i /\ t.key # i

(* Such an object was adopted, so it is never launched again.              *)
AliasesAdopted ==
  \A i \in Ids : Aliased(i) =>
    /\ i \in used /\ job[i] = "none" /\ launching # i
    /\ unacked = i /\ ~handled => instances[i] = i

(* The object that a name could be entered with is in the table, and no    *)
(* name is entered twice.                                                  *)
PreviousAdopted ==
  /\ phase = "down" => previous = None /\ \A n \in Names : instances[n] = None
  /\ phase = "adopting" => \A n \in todo : instances[n] = None
  /\ phase = "adopting" /\ previous # None =>
       instances[previous] = previous /\ previous \in used

(* A timer that has fired has taken its instance out of the table, and     *)
(* what is launched is not delivered again, nor said to run yet.           *)
FiredForgotten ==
  /\ \A t \in timers : t.fired => instances[t.key] = None
  /\ launching # None => phase = "serving" /\ launching \in used /\ job[launching] = "none"
  /\ \A i \in Ids : launching = i \/ job[i] # "none" =>
       ~(unacked = i /\ ~handled) /\ state[i] # "RUNNING"

(* What runs, or is about to be said to run, has a domain, has lost it, or *)
(* is being shut down.                                                     *)
Backed ==
  \A i \in Ids :
    instances[i] = i /\ (state[i] = "RUNNING" \/ launching = i)
    => i \in domains \cup lost \/ \E t \in timers : t.obj = i

Adoptions == AliasesAdopted /\ PreviousAdopted /\ FiredForgotten

(* Every step keeps what is known of adopted objects, timers and launches. *)
LEMMA NextFired == Managed /\ Adoptions /\ [Next]_vars => (PreviousAdopted /\ FiredForgotten)'
<1> SUFFICES ASSUME Managed, Adoptions, [Next]_vars PROVE (PreviousAdopted /\ FiredForgotten)'
  OBVIOUS
<1> USE NameAssumption DEF Managed, DomainsUsed, DomainsKept, NamesUsed, JobsKept,
      MainKept, TimersGone, RedeliveredFirst, OnlyServing, TypeOK, Names, Timers, States,
      process, outside, Adoptions, PreviousAdopted, FiredForgotten
<1>1. CASE Start
  BY <1>1 DEF Start
<1>2. CASE Acknowledge
  BY <1>2 DEF Acknowledge
<1>3. CASE Adopted
  BY <1>3 DEF Adopted
<1>4. CASE LaunchEnds
  BY <1>4 DEF LaunchEnds
<1>5. CASE DestroyDomain
  BY <1>5 DEF DestroyDomain
<1>6. CASE DestroyFails
  BY <1>6 DEF DestroyFails
<1>7. CASE Crash
  BY <1>7 DEF Crash, Forget, Nothing
<1>8. ASSUME NEW n \in Names, Adopt(n) PROVE (PreviousAdopted /\ FiredForgotten)'
  BY <1>8 DEF Adopt, CanAdopt, Forget, Nothing
<1>9. ASSUME NEW n \in Names, Terminate(n) PROVE (PreviousAdopted /\ FiredForgotten)'
  BY <1>9 DEF Terminate, Free
<1>10. ASSUME NEW n \in Names, Reboot(n) PROVE (PreviousAdopted /\ FiredForgotten)'
  BY <1>10 DEF Reboot, CanReboot, Free
<1>11. ASSUME NEW n \in Names, DomainDies(n) PROVE (PreviousAdopted /\ FiredForgotten)'
  BY <1>11 DEF DomainDies
<1>12. ASSUME NEW i \in Ids, RunInstance(i) PROVE (PreviousAdopted /\ FiredForgotten)'
  BY <1>12 DEF RunInstance, Delivered
<1>13. ASSUME NEW i \in Ids, RunInstanceFails(i) PROVE (PreviousAdopted /\ FiredForgotten)'
  BY <1>13 DEF RunInstanceFails, Delivered
<1>14. ASSUME NEW i \in Ids, BuildStart(i) PROVE (PreviousAdopted /\ FiredForgotten)'
  BY <1>14 DEF BuildStart
<1>15. ASSUME NEW i \in Ids, BuildEnd(i) PROVE (PreviousAdopted /\ FiredForgotten)'
  BY <1>15 DEF BuildEnd
<1>16. ASSUME NEW i \in Ids, LaunchFails(i) PROVE (PreviousAdopted /\ FiredForgotten)'
  BY <1>16 DEF LaunchFails
<1>17. ASSUME NEW i \in Ids, LaunchCreates(i) PROVE (PreviousAdopted /\ FiredForgotten)'
  BY <1>17 DEF LaunchCreates
<1>18. ASSUME NEW t \in timers, Tick(t) PROVE (PreviousAdopted /\ FiredForgotten)'
  BY <1>18 DEF Tick, Free
<1>19. CASE UNCHANGED vars
  BY <1>19 DEF vars
<1> QED
  BY <1>1, <1>2, <1>3, <1>4, <1>5, <1>6, <1>7, <1>8, <1>9, <1>10, <1>11, <1>12, <1>13, <1>14, <1>15, <1>16, <1>17, <1>18, <1>19 DEF Next

(* An object with another name is never launched.                          *)
LEMMA NextAliases == Managed /\ Adoptions /\ [Next]_vars => AliasesAdopted'
<1> SUFFICES ASSUME Managed, Adoptions, [Next]_vars PROVE AliasesAdopted'
  OBVIOUS
<1> USE NameAssumption DEF Managed, DomainsUsed, DomainsKept, NamesUsed, JobsKept,
      MainKept, TimersGone, RedeliveredFirst, OnlyServing, TypeOK, Names, Timers, States,
      process, outside, Adoptions, PreviousAdopted, FiredForgotten, AliasesAdopted, Aliased
<1>1. CASE Start
  BY <1>1 DEF Start
<1>2. CASE Acknowledge
  BY <1>2 DEF Acknowledge
<1>3. CASE Adopted
  BY <1>3 DEF Adopted
<1>4. CASE LaunchEnds
  BY <1>4 DEF LaunchEnds
<1>5. CASE DestroyDomain
  BY <1>5 DEF DestroyDomain
<1>6. CASE DestroyFails
  BY <1>6 DEF DestroyFails
<1>7. CASE Crash
  BY <1>7 DEF Crash, Forget, Nothing
<1>8. ASSUME NEW n \in Names, Adopt(n) PROVE AliasesAdopted'
  <2>1. CASE CanAdopt(n)
    BY <1>8, <2>1 DEF Adopt, CanAdopt
  <2>2. CASE ~CanAdopt(n) /\ previous # None
    <3>1. /\ phase = "adopting" /\ instances' = [instances EXCEPT ![n] = previous]
          /\ UNCHANGED <<job, launching, main, timers, handled, used, unacked>>
      BY <1>8, <2>2 DEF Adopt
    <3>2. n # previous => instances'[previous] = previous
      BY <2>2, <3>1
    <3>3. previous \in used /\ instances[previous] = previous /\ timers = {} /\ main = None
      BY <2>2, <3>1
    <3>4. instances'[previous] = previous
      BY <2>2, <3>1, <3>3
    <3>5. \A i \in Ids : job[i] = "none" /\ launching # i
      BY <3>1
    <3>6. ASSUME NEW i \in Ids, Aliased(i)' PROVE i \in used /\ (unacked = i /\ ~handled => instances'[i] = i)
      <4>1. PICK m \in Names \ {i} : instances'[m] = i
        BY <3>1, <3>3, <3>6
      <4>2. CASE m = n
        BY <2>2, <3>1, <3>3, <3>4, <4>1, <4>2
      <4>3. CASE m # n
        <5>1. instances[m] = i
          BY <3>1, <4>1, <4>3
        <5>2. i \in used /\ (unacked = i /\ ~handled => instances[i] = i)
          BY <4>1, <5>1
        <5>3. QED
          BY <3>1, <5>1, <5>2, <1>8 DEF Adopt
      <4>4. QED
        BY <4>2, <4>3
    <3>7. QED
      BY <3>1, <3>5, <3>6
  <2>3. CASE ~CanAdopt(n) /\ previous = None
    BY <1>8, <2>3 DEF Adopt, Forget, Nothing
  <2>4. QED
    BY <2>1, <2>2, <2>3
<1>9. ASSUME NEW n \in Names, Terminate(n) PROVE AliasesAdopted'
  BY <1>9 DEF Terminate, Free
<1>10. ASSUME NEW n \in Names, Reboot(n) PROVE AliasesAdopted'
  BY <1>10 DEF Reboot, CanReboot, Free
<1>11. ASSUME NEW n \in Names, DomainDies(n) PROVE AliasesAdopted'
  BY <1>11 DEF DomainDies
<1>12. ASSUME NEW i \in Ids, RunInstance(i) PROVE AliasesAdopted'
  BY <1>12 DEF RunInstance, Delivered
<1>13. ASSUME NEW i \in Ids, RunInstanceFails(i) PROVE AliasesAdopted'
  BY <1>13 DEF RunInstanceFails, Delivered
<1>14. ASSUME NEW i \in Ids, BuildStart(i) PROVE AliasesAdopted'
  BY <1>14 DEF BuildStart
<1>15. ASSUME NEW i \in Ids, BuildEnd(i) PROVE AliasesAdopted'
  BY <1>15 DEF BuildEnd
<1>16. ASSUME NEW i \in Ids, LaunchFails(i) PROVE AliasesAdopted'
  BY <1>16 DEF LaunchFails
<1>17. ASSUME NEW i \in Ids, LaunchCreates(i) PROVE AliasesAdopted'
  BY <1>17 DEF LaunchCreates
<1>18. ASSUME NEW t \in timers, Tick(t) PROVE AliasesAdopted'
  BY <1>18 DEF Tick, Free
<1>19. CASE UNCHANGED vars
  BY <1>19 DEF vars
<1> QED
  BY <1>1, <1>2, <1>3, <1>4, <1>5, <1>6, <1>7, <1>8, <1>9, <1>10, <1>11, <1>12, <1>13, <1>14, <1>15, <1>16, <1>17, <1>18, <1>19 DEF Next

(* Every step keeps what runs backed by a domain.                          *)
LEMMA NextBacked == Managed /\ Adoptions /\ Backed /\ [Next]_vars => Backed'
<1> SUFFICES ASSUME Managed, Adoptions, Backed, [Next]_vars PROVE Backed'
  OBVIOUS
<1> USE NameAssumption DEF Managed, DomainsUsed, DomainsKept, NamesUsed, JobsKept,
      MainKept, TimersGone, RedeliveredFirst, OnlyServing, TypeOK, Names, Timers, States,
      process, outside, Adoptions, PreviousAdopted, FiredForgotten, AliasesAdopted, Aliased, Backed
<1>1. CASE Start
  BY <1>1 DEF Start
<1>2. CASE Acknowledge
  BY <1>2 DEF Acknowledge
<1>3. CASE Adopted
  BY <1>3 DEF Adopted
<1>4. CASE LaunchEnds
  BY <1>4 DEF LaunchEnds
<1>5. CASE DestroyDomain
  <2>1. /\ main \in [obj : Ids, key : Names]
        /\ domains' = domains \ {main.obj}
        /\ timers' = timers \cup {[obj |-> main.obj, key |-> main.key, fired |-> FALSE]}
        /\ UNCHANGED <<instances, state, launching, lost>>
    BY <1>5 DEF DestroyDomain
  <2>2. \E t \in timers' : t.obj = main.obj
    <3> DEFINE r == [obj |-> main.obj, key |-> main.key, fired |-> FALSE]
    <3>1. r \in timers' /\ r.obj = main.obj
      BY <2>1
    <3>2. QED
      BY <3>1
  <2>3. timers \subseteq timers'
    BY <2>1
  <2>4. QED
    BY <2>1, <2>2, <2>3
<1>6. CASE DestroyFails
  BY <1>6 DEF DestroyFails
<1>7. CASE Crash
  BY <1>7 DEF Crash, Forget, Nothing
<1>8. ASSUME NEW n \in Names, Adopt(n) PROVE Backed'
  BY <1>8 DEF Adopt, CanAdopt, Forget, Nothing
<1>9. ASSUME NEW n \in Names, Terminate(n) PROVE Backed'
  BY <1>9 DEF Terminate, Free
<1>10. ASSUME NEW n \in Names, Reboot(n) PROVE Backed'
  <2> DEFINE j == instances[n]
  <2>1. /\ j \in Ids /\ j \in domains /\ state[j] = "RUNNING"
        /\ UNCHANGED <<instances, launching, timers, lost>>
    BY <1>10 DEF Reboot, CanReboot, Free
  <2>2. CASE state' = [state EXCEPT ![j] = "RUNNING"] /\ UNCHANGED domains
    BY <2>1, <2>2
  <2>3. CASE /\ state' = [state EXCEPT ![j] = "NOSTATE"]
             /\ domains' = domains \ {j}
    BY <2>1, <2>3
  <2>4. QED
    BY <1>10, <2>2, <2>3 DEF Reboot
<1>11. ASSUME NEW n \in Names, DomainDies(n) PROVE Backed'
  BY <1>11 DEF DomainDies
<1>12. ASSUME NEW i \in Ids, RunInstance(i) PROVE Backed'
  BY <1>12 DEF RunInstance, Delivered
<1>13. ASSUME NEW i \in Ids, RunInstanceFails(i) PROVE Backed'
  BY <1>13 DEF RunInstanceFails, Delivered
<1>14. ASSUME NEW i \in Ids, BuildStart(i) PROVE Backed'
  BY <1>14 DEF BuildStart
<1>15. ASSUME NEW i \in Ids, BuildEnd(i) PROVE Backed'
  BY <1>15 DEF BuildEnd
<1>16. ASSUME NEW i \in Ids, LaunchFails(i) PROVE Backed'
  BY <1>16 DEF LaunchFails
<1>17. ASSUME NEW i \in Ids, LaunchCreates(i) PROVE Backed'
  BY <1>17 DEF LaunchCreates
<1>18. ASSUME NEW t \in timers, Tick(t) PROVE Backed'
  BY <1>18 DEF Tick, Free
<1>19. CASE UNCHANGED vars
  BY <1>19 DEF vars
<1> QED
  BY <1>1, <1>2, <1>3, <1>4, <1>5, <1>6, <1>7, <1>8, <1>9, <1>10, <1>11, <1>12, <1>13, <1>14, <1>15, <1>16, <1>17, <1>18, <1>19 DEF Next

(* While the node serves, an instance that it reports as running has a     *)
(* domain, unless the domain went away by itself or is being shut down.    *)
THEOREM RunningKeepsDomain == Spec => []RunningHasDomain
<1>1. Init => Adoptions /\ Backed
  BY NameAssumption DEF Init, Empty, Nothing, Names, Adoptions, AliasesAdopted, Aliased, PreviousAdopted,
       FiredForgotten, Backed
<1>2. Managed /\ Adoptions /\ Backed /\ [Next]_vars => Adoptions' /\ Backed'
  BY NextFired, NextAliases, NextBacked DEF Adoptions
<1>3. Backed => RunningHasDomain
  BY DEF Backed, RunningHasDomain
<1>4. QED
  BY <1>1, <1>2, <1>3, AlwaysManaged, PTL DEF Spec

(* A shutdown timer goes away only when the name it was started for is out *)
(* of the table: at its first tick, at a later one, or with the process.   *)
ShutdownForgets ==
  \A n \in Names : (\E t \in timers : t.key = n) /\ (\A t \in timers' : t.key # n) =>
    instances'[n] = None

LEMMA NextForgets == Managed /\ Adoptions /\ [Next]_vars => ShutdownForgets
<1> SUFFICES ASSUME Managed, Adoptions, [Next]_vars,
                    NEW n \in Names, NEW t \in timers, t.key = n, \A r \in timers' : r.key # n
             PROVE  instances'[n] = None
  BY DEF ShutdownForgets
<1>1. CASE Crash
  BY <1>1 DEF Crash, Forget, Nothing
<1>2. ASSUME NEW m \in Names, Adopt(m) PROVE FALSE
  BY <1>2 DEF Adopt, Managed, OnlyServing
<1>3. ASSUME NEW r \in timers, Tick(r) PROVE instances'[n] = None
  <2>1. CASE r.key = n
    <3>1. r.fired => instances[n] = None
      BY <2>1 DEF Adoptions, FiredForgotten
    <3>2. instances' = IF r.fired THEN instances ELSE [instances EXCEPT ![n] = None]
      BY <1>3, <2>1 DEF Tick
    <3> QED
      BY <3>1, <3>2 DEF Managed, TypeOK
  <2>2. CASE r.key # n
    BY <1>3, <2>2 DEF Tick
  <2> QED
    BY <2>1, <2>2
<1>4. ASSUME timers \subseteq timers' PROVE FALSE
  BY <1>4
<1>5. \/ timers \subseteq timers' \/ Crash \/ \E r \in timers : Tick(r)
      \/ \E m \in Names : Adopt(m)
  BY DEF Next, vars, process, Start, Adopted, Acknowledge, LaunchEnds, DestroyDomain, DestroyFails,
    Terminate, Reboot, DomainDies, RunInstance, RunInstanceFails, BuildStart, BuildEnd, LaunchFails,
    LaunchCreates
<1> QED
  BY <1>1, <1>2, <1>3, <1>4, <1>5

(* Whatever launches, terminates again or restarts meanwhile, a shutdown   *)
(* that found its domain is over only with the instance out of the node's  *)
(* table.                                                                  *)
THEOREM ShutdownsForget == Spec => [][ShutdownForgets]_vars
<1>1. Init => Adoptions
  BY NameAssumption DEF Init, Empty, Nothing, Names, Adoptions, AliasesAdopted, Aliased, PreviousAdopted,
       FiredForgotten
<1>2. Managed /\ Adoptions /\ [Next]_vars => Adoptions'
  BY NextFired, NextAliases DEF Adoptions
<1> QED
  BY <1>1, <1>2, NextForgets, AlwaysManaged, PTL DEF Spec
=============================================================================
