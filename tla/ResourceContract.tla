---------------------------- MODULE ResourceContract ----------------------------
(***************************************************************************)
(* What a controller of this provider promises about the resources that    *)
(* the service runs for it, whatever its calls, copies and retries:        *)
(* CoxMachine promises it for the workload of a machine, CoxCluster for    *)
(* the two load balancers of a cluster.                                    *)
(*                                                                         *)
(* An owner is an object that Kubernetes keeps.  It has at most one        *)
(* resource running, refers only to resources of its own, is not pointed   *)
(* away from one that runs, and does not leave one behind.                 *)
(***************************************************************************)
CONSTANTS
    Owners,      \* the objects
    Resources,   \* what may run for them
    None         \* neither: no resource, and nobody's resource

VARIABLES
    present,     \* the owners that exist
    owner,       \* owner[r] : the owner that r was started for
    running,     \* the resources that were started and not asked to stop
    ref          \* ref[o] : the resource that o refers to

contractVars == <<present, owner, running, ref>>

Init ==
    /\ present = Owners
    /\ owner = [r \in Resources |-> None]
    /\ running = {}
    /\ ref = [o \in Owners |-> None]

Idle(o) == \A r \in running : owner[r] # o

\* A resource belongs to the one owner that it was started for.
Run(o, r) ==
    /\ owner[r] = None
    /\ o \in present /\ Idle(o)
    /\ owner' = [owner EXCEPT ![r] = o]
    /\ running' = running \cup {r}
    /\ UNCHANGED <<present, ref>>

\* It is asked to stop, or its provisioning fails.
Stop(r) ==
    /\ running' = running \ {r}
    /\ UNCHANGED <<present, owner, ref>>

Refer(o, r) ==
    /\ o \in present
    /\ owner[r] = o
    /\ ref[o] \notin running
    /\ ref' = [ref EXCEPT ![o] = r]
    /\ UNCHANGED <<present, owner, running>>

\* Owners that are one object leave together, and none of them returns.
Leave(gone) ==
    /\ \A o \in gone : Idle(o)
    /\ present' = present \ gone
    /\ ref' = [o \in Owners |-> IF o \in gone THEN None ELSE ref[o]]
    /\ UNCHANGED <<owner, running>>

Next ==
    \/ \E r \in Resources : Stop(r) \/ \E o \in Owners : Run(o, r) \/ Refer(o, r)
    \/ \E gone \in SUBSET present : Leave(gone)

Spec == Init /\ [][Next]_contractVars

=============================================================================
