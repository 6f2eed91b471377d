----------------------------- MODULE Placement -----------------------------
(***************************************************************************)
(* The placement arithmetic of the two controllers.  A host endpoint is a  *)
(* natural number: the code compares endpoints as strings, and only for    *)
(* equality (map keys) and in the order of sort.Strings.                   *)
(***************************************************************************)
EXTENDS Naturals, Sequences, FiniteSets

\* One entry of Status.FailureDomains: no such key, or its ControlPlane flag.
DomainKinds == {"absent", "worker", "controlPlane"}

FailureDomainsOf_ByIndex(pool, hosts) ==
    [h \in hosts |-> IF h \in DOMAIN pool THEN "controlPlane" ELSE "absent"]
\* setFailureDomains turns the static pool, a list of [endpoint, cp] records,
\* into a map keyed by endpoint.  The loop assigns in list order, so of two
\* hosts with one endpoint the later one decides ControlPlane.
FailureDomainsOf(pool, hosts) ==
    [h \in hosts |->
        LET listed == {i \in DOMAIN pool : pool[i].endpoint = h}
            decides == CHOOSE i \in listed : \A j \in listed : j <= i
        IN  IF listed = {} THEN "absent"
            ELSE IF pool[decides].cp THEN "controlPlane" ELSE "worker"]

\* The last branch of GetFailureDomain: the sorted domain at position
\* crc32(name) % len.  The empty set stands for errFailureDomainNotFound; a
\* single domain is the len = 1 case of the same formula.
ChosenDomain(fds, hash) ==
    {h \in fds : Cardinality({g \in fds : g < h}) = hash % Cardinality(fds)}
=============================================================================
