---------------------------- MODULE WorkloadNames ----------------------------
(***************************************************************************)
(* The names of workloads (src/pkg/cloud/coxedge/client.go).               *)
(*                                                                         *)
(* The service limits the length of a name, so the client shortens every   *)
(* name it looks up, creates or updates.  It has no other handle on the    *)
(* workload of a machine or load balancer than this name: the module is    *)
(* about whose workload a name leads to.                                   *)
(*                                                                         *)
(* A name may lead to several.  Whoever finds no workload under a name     *)
(* creates one by a later call, and neither the service nor the client     *)
(* asks again; the list that was looked at may lag behind.  Deletions are  *)
(* by id, and left to CoxMachine and CoxCluster.                           *)
(***************************************************************************)
EXTENDS Naturals, Sequences

CONSTANTS
    Char, Dash,      \* the characters of names
    Limit,           \* the length of the names of the service: 18
    Objects,         \* machines and load balancers
    FullNames,       \* the names that they may have
    MaxWorkloads     \* how many workloads the service has room for

ASSUME NameAssumption ==
    /\ Dash \in Char
    /\ Limit \in Nat /\ MaxWorkloads \in Nat
    /\ FullNames \subseteq Seq(Char)

VARIABLES
    fullName,        \* fullName[o] : the name of object o
    stored,          \* the names of the workloads, in the order of the list
    listed,          \* the workloads that the list has already
    found,           \* found[o] : the workload that was last found for o, or 0
    missing          \* the objects without one, for which one is to be created

vars == <<fullName, stored, listed, found, missing>>

-----------------------------------------------------------------------------
(* shortenName                                                             *)

Dashes(name) == {i \in 1..Len(name) : name[i] = Dash}

\* Where the last part of the name begins, with the dash in front of it; the
\* end of a name that has a single part.
Cut(name) ==
    IF Dashes(name) = {} THEN Len(name) + 1
    ELSE CHOOSE i \in Dashes(name) : \A j \in Dashes(name) : j <= i

Postfix(name) == SubSeq(name, Cut(name), Len(name))

\* Mutant: one character too many stays.
KeepOneMore(name) == Cut(name) + Limit - Len(name)

\* How many characters stay in front of the postfix.
Keep(name) == Cut(name) + Limit - Len(name) - 1

\* The bound of a slice would be negative: the process panics.
Panics(name) == Len(name) > Limit /\ Cut(name) + Limit < Len(name) + 1

\* Mutant: the postfix is cut like the rest.
ShortenBluntly(name) == IF Len(name) <= Limit THEN name ELSE SubSeq(name, 1, Limit)

Shorten(name) ==
    IF Len(name) <= Limit THEN name
    ELSE SubSeq(name, 1, Keep(name)) \o Postfix(name)

-----------------------------------------------------------------------------
(* The client.                                                             *)

\* The first workload of the list under this name; 0 if there is none.
First(name) ==
    LET Under == {i \in listed : stored[i] = name}
    IN IF Under = {} THEN 0 ELSE CHOOSE i \in Under : \A j \in Under : i <= j

GetWorkloadByName(name) == First(Shorten(name))

Init ==
    /\ fullName \in [Objects -> FullNames]
    /\ stored = <<>>
    /\ listed = {}
    /\ found = [o \in Objects |-> 0]
    /\ missing = {}

\* A reconcile looks for the workload of its object by name.
LookUp(o) ==
    /\ ~Panics(fullName[o])
    /\ LET w == GetWorkloadByName(fullName[o]) IN
          /\ found' = [found EXCEPT ![o] = w]
          /\ missing' = IF w = 0 THEN missing \cup {o} ELSE missing \ {o}
    /\ UNCHANGED <<fullName, stored, listed>>

\* It found none: it creates one, whatever others created in the meantime.
CreateWorkload(o) ==
    /\ o \in missing
    /\ Len(stored) < MaxWorkloads
    /\ stored' = Append(stored, Shorten(fullName[o]))
    /\ missing' = missing \ {o}
    /\ UNCHANGED <<fullName, listed, found>>

\* The list catches up, with one workload before or after another.
Appear(w) ==
    /\ w \notin listed
    /\ listed' = listed \cup {w}
    /\ UNCHANGED <<fullName, stored, found, missing>>

\* Mutant: the PUT sends the full name.
UpdateWithFullName(o) ==
    /\ found[o] # 0
    /\ stored' = [stored EXCEPT ![found[o]] = fullName[o]]
    /\ UNCHANGED <<fullName, listed, found, missing>>

\* A load balancer that was found is updated: the client looks for the name
\* that the service returned for it, and sends back the workload that it gets,
\* which may be another one under that name.
Update(o) ==
    /\ found[o] # 0
    /\ LET w == GetWorkloadByName(stored[found[o]]) IN
          /\ w # 0
          /\ stored' = [stored EXCEPT ![w] = Shorten(@)]
    /\ UNCHANGED <<fullName, listed, found, missing>>

Next ==
    \/ \E o \in Objects : LookUp(o) \/ CreateWorkload(o) \/ Update(o)
    \/ \E w \in 1..Len(stored) : Appear(w)

Spec == Init /\ [][Next]_vars

-----------------------------------------------------------------------------

\* The service never gets a name that is longer than its limit.
TypeOK ==
    /\ fullName \in [Objects -> FullNames]
    /\ stored \in Seq(Seq(Char))
    /\ \A i \in 1..Len(stored) : Len(stored[i]) <= Limit
    /\ listed \in SUBSET (1..Len(stored))
    /\ found \in [Objects -> {0} \cup listed]
    /\ missing \in SUBSET Objects

\* An object whose workload was found once is always led to one by its name,
\* and to the same one by the shortened name that is used from then on
\* (`Ignore the name of the existing one because it might have been
\* shortened'), whatever is created and updated, and in whatever order the
\* list catches up.
FoundByEitherName ==
    \A o \in Objects :
        found[o] # 0 =>
            /\ GetWorkloadByName(fullName[o]) # 0
            /\ GetWorkloadByName(stored[found[o]]) = GetWorkloadByName(fullName[o])

\* Objects whose names end in different parts are never given the same
\* workload, however much the names share in front: the suffixes that Cluster
\* API gives the machines of a deployment keep their workloads apart.
PartsKeepApart ==
    \A o, p \in Objects :
        /\ Dashes(fullName[o]) # {} /\ Dashes(fullName[p]) # {}
        /\ Postfix(fullName[o]) # Postfix(fullName[p])
        /\ found[o] # 0
        => found[o] # found[p]

-----------------------------------------------------------------------------

\* Why all of this holds (an inductive invariant): a workload that was found
\* has the shortened name of its object, and only names that can be shortened
\* get as far as a lookup.
NamesInv ==
    /\ TypeOK
    /\ \A o \in missing : ~Panics(fullName[o])
    /\ \A o \in Objects :
          found[o] # 0 =>
              ~Panics(fullName[o]) /\ stored[found[o]] = Shorten(fullName[o])

=============================================================================
