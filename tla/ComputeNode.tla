----------------------------- MODULE ComputeNode -----------------------------
(***************************************************************************)
(* nova/compute/node.py: one nova-compute process.  Its main thread runs   *)
(* the handlers of the messages and the timers; a pool of worker processes *)
(* builds disk images, and the pool's result thread runs the _launch       *)
(* callbacks, so a launch and a handler interleave.  The hypervisor keeps  *)
(* the domains, which outlive the process.                                 *)
(* A definition that no other one uses is a mutated form of the one below  *)
(* it, with a plausible bug.                                               *)
(***************************************************************************)
EXTENDS Naturals, FiniteSets

CONSTANTS
  Ids,       \* instance ids, each given to run_instance at most once
  Foreign,   \* names of domains that nova has not created
  Workers,   \* size of the worker pool
  None

ASSUME NameAssumption == Ids \cap Foreign = {} /\ None \notin Ids \cup Foreign
ASSUME WorkerAssumption == Workers \in Nat \ {0}

VARIABLES
  phase,       \* "down", "adopting", "serving"
  todo,        \* adopt_instances: names still to visit
  previous,    \* adopt_instances: the object in new_inst
  instances,   \* Node._instances: name -> object, an object being its own name
  state,       \* Instance._s['state'] of the object
  domains,     \* names of the hypervisor's live domains
  job,         \* the image job of an instance
  launching,   \* the instance whose _launch has created the domain
  main,        \* the instance object, and its key, that destroy() is handling
  timers,      \* the shutdown timers: [obj, key, fired]
  handled,     \* the handler of the unacknowledged message has returned
  unacked,     \* broker: the id whose run_instance message is out, unacknowledged
  used,        \* ids whose run_instance message has been delivered
  terminated,  \* history: ids that terminate_instance was called for
  lost         \* history: domains that went away by themselves

process == <<todo, previous, instances, state, job, launching, main, timers, handled>>
outside == <<unacked, used, terminated, lost>>
vars == <<phase, process, domains, outside>>

Names == Ids \cup Foreign
States == {"NOSTATE", "RUNNING", "SHUTDOWN"}
Timers == [obj : Ids, key : Names, fired : BOOLEAN]

TypeOK ==
  /\ phase \in {"down", "adopting", "serving"}
  /\ todo \subseteq Names
  /\ previous \in Ids \cup {None}
  /\ instances \in [Names -> Ids \cup {None}]
  /\ state \in [Ids -> States]
  /\ domains \subseteq Names
  /\ job \in [Ids -> {"none", "queued", "building", "built", "error"}]
  /\ launching \in Ids \cup {None}
  /\ main \in [obj : Ids, key : Names] \cup {None}
  /\ timers \subseteq Timers
  /\ handled \in BOOLEAN /\ unacked \in Ids \cup {None}
  /\ used \subseteq Ids /\ terminated \subseteq Names /\ lost \subseteq Names

Nothing == [n \in Names |-> None]

(* What a process that is down, or has just been started, holds.           *)
Empty ==
  /\ todo = {} /\ previous = None /\ instances = Nothing
  /\ state = [i \in Ids |-> "NOSTATE"] /\ job = [i \in Ids |-> "none"]
  /\ launching = None /\ main = None /\ timers = {} /\ handled = FALSE

Init ==
  /\ phase = "down" /\ Empty
  /\ domains \in SUBSET Foreign
  /\ unacked = None /\ used = {} /\ terminated = {} /\ lost = {}

Free == phase = "serving" /\ main = None /\ unacked = None

Building == {i \in Ids : job[i] = "building"}

-----------------------------------------------------------------------------
(* adopt_instances *)

Start ==
  /\ phase = "down"
  /\ phase' = "adopting"
  /\ todo' = domains
  /\ UNCHANGED <<previous, instances, state, job, launching, main, timers, handled>>
  /\ UNCHANGED <<domains, outside>>

CanAdoptUnchecked(n) == n \in domains

(* Instance.fromName finds libvirt.xml and the domain.                     *)
CanAdopt(n) == n \in Ids /\ n \in domains

Forget ==
  /\ todo' = {} /\ previous' = None /\ instances' = Nothing
  /\ state' = [i \in Ids |-> "NOSTATE"] /\ job' = [i \in Ids |-> "none"]
  /\ launching' = None /\ main' = None /\ timers' = {} /\ handled' = FALSE

(* When fromName raises, the exception is dropped and the name is entered  *)
(* with the object of the previous name; with none, the process exits.     *)
Adopt(n) ==
  /\ phase = "adopting" /\ n \in todo
  /\ \/ /\ CanAdopt(n)
        /\ instances' = [instances EXCEPT ![n] = n]
        /\ state' = [state EXCEPT ![n] = "RUNNING"]
        /\ previous' = n
        /\ todo' = todo \ {n}
        /\ UNCHANGED <<phase, job, launching, main, timers, handled>>
     \/ /\ ~CanAdopt(n) /\ previous # None
        /\ instances' = [instances EXCEPT ![n] = previous]
        /\ todo' = todo \ {n}
        /\ UNCHANGED <<phase, previous, state, job, launching, main, timers, handled>>
     \/ /\ ~CanAdopt(n) /\ previous = None
        /\ phase' = "down"
        /\ Forget
  /\ UNCHANGED <<domains, outside>>

Adopted ==
  /\ phase = "adopting" /\ todo = {}
  /\ phase' = "serving"
  /\ UNCHANGED <<process, domains, outside>>

-----------------------------------------------------------------------------
(* run_instance and the image jobs *)

(* A message is delivered, or, after a restart, the one that was not       *)
(* acknowledged is delivered again, before any other.                      *)
Delivered(i) ==
  /\ phase = "serving" /\ main = None /\ ~handled
  /\ unacked = i \/ (unacked = None /\ i \notin used)
  /\ unacked' = i /\ handled' = TRUE
  /\ used' = used \cup {i}

RunInstance(i) ==
  /\ Delivered(i)
  /\ instances[i] = None
  /\ instances' = [instances EXCEPT ![i] = i]
  /\ state' = [state EXCEPT ![i] = "NOSTATE"]
  /\ job' = [job EXCEPT ![i] = "queued"]
  /\ UNCHANGED <<phase, todo, previous, launching, main, timers, domains, terminated, lost>>

(* 'attempting to use existing instance_id', or Instance does not know the *)
(* instance's type: no entry is made.                                      *)
RunInstanceFails(i) ==
  /\ Delivered(i)
  /\ UNCHANGED <<phase, todo, previous, instances, state, job, launching, main, timers>>
  /\ UNCHANGED <<domains, terminated, lost>>

(* AdapterConsumer.receive acknowledges when the handler has returned.     *)
Acknowledge ==
  /\ handled
  /\ unacked' = None /\ handled' = FALSE
  /\ UNCHANGED <<phase, todo, previous, instances, state, job, launching, main, timers>>
  /\ UNCHANGED <<domains, used, terminated, lost>>

BuildStart(i) ==
  /\ job[i] = "queued"
  /\ Cardinality(Building) < Workers
  /\ job' = [job EXCEPT ![i] = "building"]
  /\ UNCHANGED <<phase, todo, previous, instances, state, launching, main, timers, handled>>
  /\ UNCHANGED <<domains, outside>>

BuildEnd(i) ==
  /\ job[i] = "building"
  /\ \E result \in {"built", "error"} : job' = [job EXCEPT ![i] = result]
  /\ UNCHANGED <<phase, todo, previous, instances, state, launching, main, timers, handled>>
  /\ UNCHANGED <<domains, outside>>

LaunchFailsUnlessError(i) ==
  /\ launching = None /\ job[i] = "built"
  /\ job' = [job EXCEPT ![i] = "none"]
  /\ UNCHANGED <<phase, todo, previous, instances, state, launching, main, timers, handled>>
  /\ UNCHANGED <<domains, outside>>

(* _launch of a job that failed, or whose createXML fails: the error goes  *)
(* to a deferred; the instance is left as it is.                           *)
LaunchFails(i) ==
  /\ launching = None /\ job[i] \in {"built", "error"}
  /\ job' = [job EXCEPT ![i] = "none"]
  /\ UNCHANGED <<phase, todo, previous, instances, state, launching, main, timers, handled>>
  /\ UNCHANGED <<domains, outside>>

LaunchCreates(i) ==
  /\ launching = None /\ job[i] = "built"
  /\ i \notin domains
  /\ domains' = domains \cup {i}
  /\ job' = [job EXCEPT ![i] = "none"]
  /\ launching' = i
  /\ UNCHANGED <<phase, todo, previous, instances, state, main, timers, handled, outside>>

LaunchEnds ==
  /\ launching # None
  /\ state' = [state EXCEPT ![launching] = "RUNNING"]
  /\ launching' = None
  /\ UNCHANGED <<phase, todo, previous, instances, job, main, timers, domains, handled, outside>>

-----------------------------------------------------------------------------
(* terminate_instance: destroy() sets the state, looks the domain up and   *)
(* destroys it, and starts a timer whose tick takes the key out of the     *)
(* table.  Its test for SHUTOFF never holds.                               *)

Terminate(n) ==
  /\ Free
  /\ instances[n] # None
  /\ terminated' = terminated \cup {n}
  /\ state' = [state EXCEPT ![instances[n]] = "SHUTDOWN"]
  /\ main' = [obj |-> instances[n], key |-> n]
  /\ UNCHANGED <<phase, todo, previous, instances, job, launching, timers, domains, handled, unacked, used, lost>>

DestroyDomain ==
  /\ main # None
  /\ main.obj \in domains
  /\ domains' = domains \ {main.obj}
  /\ timers' = timers \cup {[obj |-> main.obj, key |-> main.key, fired |-> FALSE]}
  /\ main' = None
  /\ UNCHANGED <<phase, todo, previous, instances, state, job, launching, handled, outside>>

DestroyFailsForgetting ==
  /\ main # None
  /\ main.obj \notin domains
  /\ instances' = [instances EXCEPT ![main.key] = None]
  /\ main' = None
  /\ UNCHANGED <<phase, todo, previous, state, job, launching, timers, handled>>
  /\ UNCHANGED <<domains, outside>>

(* lookupByName raises: no timer, and the instance stays in the table.     *)
DestroyFails ==
  /\ main # None
  /\ main.obj \notin domains
  /\ main' = None
  /\ UNCHANGED <<phase, todo, previous, instances, state, job, launching, timers, handled>>
  /\ UNCHANGED <<domains, outside>>

TickStopsFirst(t) ==
  /\ Free
  /\ t \in timers
  /\ timers' = timers \ {t}
  /\ instances' = IF t.obj \in domains THEN [instances EXCEPT ![t.key] = None] ELSE instances
  /\ UNCHANGED <<phase, todo, previous, state, job, launching, main, domains, handled, outside>>

(* _wait_for_shutdown: the deferred is called at the first tick, whatever  *)
(* the domain's state; the timer stops when the domain is not found.       *)
Tick(t) ==
  /\ Free
  /\ t \in timers
  /\ instances' = IF t.fired THEN instances ELSE [instances EXCEPT ![t.key] = None]
  /\ \/ /\ t.obj \notin domains
        /\ state' = [state EXCEPT ![t.obj] = "SHUTDOWN"]
        /\ timers' = timers \ {t}
     \/ /\ t.obj \in domains
        /\ timers' = (timers \ {t}) \cup {[t EXCEPT !.fired = TRUE]}
        /\ UNCHANGED state
  /\ UNCHANGED <<phase, todo, previous, job, launching, main, domains, handled, outside>>

-----------------------------------------------------------------------------
(* reboot_instance runs to its end in the main thread.                     *)

RebootGuardDropped(i) == i \in domains

CanReboot(i) == state[i] = "RUNNING" /\ i \in domains

Reboot(n) ==
  /\ Free
  /\ instances[n] # None
  /\ LET i == instances[n]
     IN /\ CanReboot(i)
        /\ \/ state' = [state EXCEPT ![i] = "RUNNING"] /\ UNCHANGED domains
           \/ /\ state' = [state EXCEPT ![i] = "NOSTATE"]     \* createXML raises
              /\ domains' = domains \ {i}
  /\ UNCHANGED <<phase, todo, previous, instances, job, launching, main, timers, handled, outside>>

-----------------------------------------------------------------------------
(* The environment *)

DomainDies(n) ==
  /\ n \in domains
  /\ domains' = domains \ {n}
  /\ lost' = lost \cup {n}
  /\ UNCHANGED <<phase, process, unacked, used, terminated>>

(* The process dies and takes its workers along; or the host goes down.    *)
(* Another node may take the message that was not acknowledged.            *)
Crash ==
  /\ phase # "down"
  /\ phase' = "down"
  /\ Forget
  /\ domains' \in {domains, {}}
  /\ unacked' \in {unacked, None}
  /\ UNCHANGED <<used, terminated, lost>>

-----------------------------------------------------------------------------
Next ==
  \/ Start \/ Adopted \/ Acknowledge \/ LaunchEnds \/ DestroyDomain \/ DestroyFails \/ Crash
  \/ \E n \in Names : Adopt(n) \/ Terminate(n) \/ Reboot(n) \/ DomainDies(n)
  \/ \E i \in Ids :
       \/ RunInstance(i) \/ RunInstanceFails(i) \/ BuildStart(i) \/ BuildEnd(i)
       \/ LaunchFails(i) \/ LaunchCreates(i)
  \/ \E t \in timers : Tick(t)

Spec == Init /\ [][Next]_vars

(* The pool's workers, its result thread and the main thread keep going,   *)
(* and the loop runs the timers that are due between any two handlers;     *)
(* requests, deaths and restarts need not happen.                          *)
FairSpec ==
  /\ Spec
  /\ WF_vars(LaunchEnds)
  /\ WF_vars(Acknowledge)
  /\ WF_vars(DestroyDomain \/ DestroyFails)
  /\ \A i \in Ids :
       /\ WF_vars(BuildStart(i)) /\ WF_vars(BuildEnd(i))
       /\ WF_vars(LaunchFails(i) \/ LaunchCreates(i))
  /\ \A i \in Ids : SF_vars(\E t \in timers : t.obj = i /\ Tick(t))

-----------------------------------------------------------------------------
(* Properties *)

(* No domain that nova created runs unmanaged: while the node serves, it   *)
(* is in the node's table, whatever launches, shutdown timers, terminate   *)
(* calls and restarts interleave.                                          *)
NoUnmanagedDomain ==
  phase = "serving" => \A i \in Ids \cap domains : instances[i] = i

(* An instance that the node reports as running has a domain, unless the   *)
(* domain went away by itself, or a shutdown of it is under way.           *)
RunningHasDomain ==
  \A i \in Ids :
    /\ phase = "serving" /\ instances[i] = i /\ state[i] = "RUNNING"
    => i \in domains \cup lost \/ \E t \in timers : t.obj = i

(* Every launch comes to an end, also with more launches than workers.     *)
LaunchesEnd == \A i \in Ids : job[i] # "none" ~> job[i] = "none" /\ launching # i

(* Every shutdown that found its domain takes the instance out of the      *)
(* table.                                                                  *)
ShutdownsEnd ==
  \A n \in Names : (\E t \in timers : t.key = n) ~> instances[n] = None

-----------------------------------------------------------------------------
(* What the documents say, and the code does not do.                       *)

(* terminate_instance: "terminate an instance on this machine": no domain  *)
(* starts for an id after terminate was called for it.                     *)
TerminatedStaysDown ==
  [][\A i \in terminated : i \in domains' => i \in domains]_vars
=============================================================================
