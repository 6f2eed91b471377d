----------------------------- MODULE ProviderID -----------------------------
(***************************************************************************)
(* The strings by which a machine finds its microVM again.  The provider   *)
(* ID is the only place where the host and the UID of a microVM are kept:  *)
(* one reconcile formats them into it, every later one parses them out of  *)
(* it, dials the host, picks that host's basic auth token by its address,  *)
(* and formats the ID anew.  MachineController takes a provider ID to be a *)
(* pair; this module is about why it may.                                  *)
(*                                                                         *)
(* A string is a sequence of tokens: ":" and "/", which the code looks     *)
(* for, "microvm", the rest of the prefix, and others it does not look at. *)
(***************************************************************************)
EXTENDS SequencesExt, Integers

CONSTANTS
    Addresses,  \* hosts without their port
    Port,       \* the port, with its colon
    UIDs,       \* UIDs a host may hand out
    Written     \* provider IDs a user may have written into a new object

ProviderPrefix == <<"microvm", ":", "/", "/">>

\* A sequence, of whatever tokens occur in it.
IsString(s) == s \in Seq(Range(s))

ASSUME StringsAssumption ==
    /\ \A s \in Addresses \cup UIDs \cup Written \cup {Port} : IsString(s)
    /\ \A a \in Addresses : a # <<>> /\ ~Contains(a, "/")
    /\ Port # <<>> /\ Port[1] = ":" /\ ~Contains(Port, "/")
    /\ \A u \in UIDs : u # <<>> /\ ~Contains(u, "/")
    /\ <<>> \notin Written

VARIABLES
    address,    \* the host placement chooses for the machine
    secret,     \* the hosts with an entry in the basic auth secret
    providerID, \* Spec.ProviderID, empty if there is none
    uid,        \* the microVM it was formatted from, empty if by a user
    dialled,    \* the endpoint the last reconcile called
    asked,      \* the UID it asked for
    token       \* the token it sent, named by the host it is for; or empty

vars == <<address, secret, providerID, uid, dialled, asked, token>>

-----------------------------------------------------------------------------
(* The operations.                                                         *)

\* What strings.Split(s, c)[0] returns.
Before(s, c) ==
    LET i == SelectInSeq(s, LAMBDA x : x = c)
    IN  IF i = 0 THEN s ELSE SubSeq(s, 1, i - 1)
AfterLast(s, c) == SubSeq(s, SelectLastInSeq(s, LAMBDA x : x = c) + 1, Len(s))

\* What precedes a colon of an IPv6 address, a bracket and some digits, is no host.
ASSUME HostsAssumption ==
    \A a, b \in Addresses : Before(a, ":") = b => a = b

\* strings.ReplaceAll(s, ProviderPrefix, ""): the prefix cannot overlap itself.
\* The k-th token left is the one at the k-th place that no prefix covers.
WithoutPrefix_Kept(s) == s
WithoutPrefix(s) ==
    LET n == Len(ProviderPrefix)
        starts == {i \in 1 .. Len(s) - n + 1 : SubSeq(s, i, i + n - 1) = ProviderPrefix}
        kept == {i \in 1 .. Len(s) : \A j \in starts : i \notin j .. j + n - 1}
        nth(k) == CHOOSE i \in kept : Cardinality({j \in kept : j <= i}) = k
    IN  [k \in 1 .. Cardinality(kept) |-> s[nth(k)]]

SetProviderID(failureDomain, mvmUID) ==
    ProviderPrefix \o failureDomain \o <<"/">> \o mvmUID

getFailureDomainFromProviderID(id) == Before(WithoutPrefix(id), "/")

\* ^[^:]+://.*[^/]$
providerIDRegex(id) ==
    LET provider == Before(id, ":")
        rest == SubSeq(id, Len(provider) + 1, Len(id))
    IN  /\ provider # <<>>
        /\ Len(rest) > 3 /\ SubSeq(rest, 1, 3) = <<":", "/", "/">>
        /\ Last(id) # "/"

ID_FromFirstSlash(id) == SubSeq(id, SelectInSeq(id, LAMBDA x : x = "/") + 1, Len(id))
ID(id) == AfterLast(id, "/")

\* NewProviderID and, where that fails, the empty string of GetInstanceID.
GetInstanceID(id) ==
    IF providerIDRegex(id) /\ Before(id, ":") # <<>> /\ ID(id) # <<>>
    THEN ID(id) ELSE <<>>

\* The key of the secret's entry for an address: strings.Split(addr, ":")[0].
TokenKey_WholeAddress(addr) == addr
TokenKey(addr) == Before(addr, ":")
GetBasicAuthToken(addr) == IF TokenKey(addr) \in secret THEN TokenKey(addr) ELSE <<>>

-----------------------------------------------------------------------------
Init ==
    /\ address \in Addresses
    /\ \/ secret \in SUBSET Addresses /\ providerID = <<>>
       \/ secret = {} /\ providerID \in Written
    /\ uid = <<>> /\ dialled = <<>> /\ asked = <<>> /\ token = <<>>

\* One reconcile that gets as far as SetProviderID.  The host answers with the
\* microVM it was asked for or, not knowing that one, creates another.
Reconcile ==
    LET fd == IF providerID = <<>> THEN address \o Port
              ELSE getFailureDomainFromProviderID(providerID)
    IN  /\ dialled' = fd
        /\ asked' = GetInstanceID(providerID)
        /\ token' = GetBasicAuthToken(fd)
        /\ \E u \in UIDs : /\ asked' = uid /\ uid # <<>> => u = uid
                           /\ uid' = u
                           /\ providerID' = SetProviderID(fd, u)
        /\ UNCHANGED <<address, secret>>

Next == Reconcile

Spec == Init /\ [][Next]_vars

-----------------------------------------------------------------------------
(* Properties.                                                             *)

\* However often a provider ID is parsed and formatted anew, once a reconcile
\* has recorded a microVM every later one dials the same endpoint, asks for the
\* same microVM and leaves the ID as it was, also when the first one started
\* from an ID that a user wrote.
AddressKept ==
    [][uid # <<>> => /\ dialled' = dialled
                     /\ asked' = uid
                     /\ providerID' = providerID]_vars

\* NewProviderID accepts exactly the strings <provider>://<path>/<id>, where
\* provider is free of colons, id is free of slashes, neither is empty and the
\* path with its slash may be missing; and then returns that id.
ParsedByForm ==
    LET n == Len(providerID)
        form(i, j) ==
            /\ \A k \in 1 .. i : providerID[k] # ":"
            /\ SubSeq(providerID, i + 1, i + 3) = <<":", "/", "/">>
            /\ j = i + 4 \/ providerID[j - 1] = "/"
            /\ \A k \in j .. n : providerID[k] # "/"
        forms == {p \in (1 .. n) \X (1 .. n) : p[1] + 4 <= p[2] /\ form(p[1], p[2])}
        parsed == GetInstanceID(providerID)
    IN  /\ parsed # <<>> <=> forms # {}
        /\ \A p \in forms : parsed = SubSeq(providerID, p[2], n)

\* A host is sent its own basic auth token or none, and its own if the secret
\* has one and the address is not an IPv6 address, which has colons of its own.
OwnToken ==
    dialled = address \o Port =>
        /\ token \in {address, <<>>}
        /\ address \in secret /\ ~Contains(address, ":") => token = address
=============================================================================
