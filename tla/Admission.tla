----------------------------- MODULE Admission -----------------------------
(***************************************************************************)
(* The admission webhooks.  The API server consults a webhook for a        *)
(* request only when one of its rules names the resource in the request's  *)
(* path; a request for the status subresource matches none of the rules.   *)
(***************************************************************************)

Resources == {"microvmclusters", "microvmmachines", "microvmmachinetemplates"}

\* The resource named by the rule of the webhook written for a resource.  The
\* machine webhook's rules name it in the singular.
RuleResource(resource) ==
    IF resource = "microvmmachines" THEN "microvmmachine" ELSE resource

Consulted(resource) == RuleResource(resource) = resource

\* Placement.Validate: a placement option has to be configured.
PlacementValid_Always(isSet) == TRUE
PlacementValid(isSet) == isSet

ClusterCreateAdmitted(isSet) ==
    Consulted("microvmclusters") => PlacementValid(isSet)

\* ValidateUpdate of the cluster webhook accepts whatever it is given.
ClusterUpdateAdmitted(isSet) == TRUE

\* ValidateUpdate of the machine webhook accepts only an unchanged spec.
MachineUpdateAdmitted(oldSpec, newSpec) ==
    Consulted("microvmmachines") => newSpec = oldSpec
=============================================================================
